----------------------------- MODULE MCDomTree -----------------------------
(***************************************************************************)
(* DomTree on three elements, two text nodes and one fragment, with the    *)
(* list view of the tree that DomForest speaks of.                         *)
(***************************************************************************)
EXTENDS DomTree, FiniteSets, TLC

CONSTANTS e1, e2, e3, x1, x2, f1

MCNode == {e1, e2, e3, x1, x2, f1}

MCKind ==
  (f1 :> "DocumentFragment") @@ [x \in {x1, x2} |-> "Text"] @@ [n \in MCNode |-> "Element"]

Symmetry == Permutations({e1, e2, e3}) \cup Permutations({x1, x2})

\* No call reads the result of the one before.
View == <<tree, live>>

-----------------------------------------------------------------------------
(***************************************************************************)
(* Read as lists of children, every step does what some call of DomForest  *)
(* promises: the pointer surgery of pre_insert, replace_child and          *)
(* split_text moves, drops and reorders no node beside the ones named.     *)
(***************************************************************************)
Lists(t) == [p \in Node |-> Children(t, p)]

Forest == INSTANCE DomForest WITH kids <- Lists(tree)

ListSemantics == Forest!Spec

(***************************************************************************)
(* Call by call: an insertion or a replacement is refused exactly when the *)
(* lists say it must be, and otherwise leaves exactly the lists the same   *)
(* call of DomForest leaves.  So the shortcut for childless nodes lets no  *)
(* bad insertion in, no early return skips a real move, and the anchors of *)
(* an adjacent replacement are the right ones.                             *)
(***************************************************************************)
CallsExact ==
  /\ \A p, c \in Node, ref \in Link :
       IF InsertRejected(p, c, ref) THEN ~ Forest!MayInsert(p, c, ref)
       ELSE /\ Forest!MayInsert(p, c, ref)
            /\ Forest!WithInserted(p, c, ref) =
                 IF InsertInPlace(p, c, ref) THEN Lists(tree)
                 ELSE Lists(Inserted(tree, p, c, ref))
  /\ \A p, c, n \in Node :
       IF ReplaceRejected(p, c, n) THEN ~ Forest!MayReplace(p, c, n)
       ELSE /\ Forest!MayReplace(p, c, n)
            /\ n # c => Forest!WithReplaced(p, c, n) = Lists(Replaced(tree, p, c, n))

(***************************************************************************)
(* The capped walk of is_descendant_of answers what an unbounded walk      *)
(* would: the cap of the number of live nodes is never too low.            *)
(***************************************************************************)
WalkExact ==
  \A m, n \in Node :
    IsDescendantOf(tree, m, n) <=> WalkIsDescendantOf(tree, Cardinality(live), m, n)
=============================================================================
