---------------------------- MODULE MCQueryIndex ----------------------------
(***************************************************************************)
(* QueryIndex on a document and three elements, two of which have the name *)
(* that a custom element may be defined for.                               *)
(***************************************************************************)
EXTENDS QueryIndex

MCTag == "a" :> "x-el" @@ "b" :> "div" @@ "c" :> "x-el"
=============================================================================
