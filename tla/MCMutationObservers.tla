------------------------ MODULE MCMutationObservers -------------------------
(***************************************************************************)
(* MutationObservers on elements and a fragment that differ by name only,  *)
(* with three of the ways to observe a node, or one.                       *)
(***************************************************************************)
EXTENDS MutationObservers

CONSTANTS e1, e2, e3, f1

MCOptions ==
  {[types |-> {"childList"}, subtree |-> TRUE],
   [types |-> {"childList", "attributes"}, subtree |-> FALSE],
   [types |-> {"attributes"}, subtree |-> TRUE]}

\* Everything below the target.
MCEverything == {[types |-> {"childList", "attributes"}, subtree |-> TRUE]}

Symmetry == Permutations({e1, e2, e3})
=============================================================================
