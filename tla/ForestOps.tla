----------------------------- MODULE ForestOps -----------------------------
(***************************************************************************)
(* A document's trees as lists of children, the view of them that DomTree  *)
(* is shown to implement.  Components that sit on top of the mutation API  *)
(* are modelled on this view.                                              *)
(***************************************************************************)
EXTENDS Lists, SequencesExt

CONSTANTS
  Node,  \* handles of one document's arena
  Null   \* Option::None

NoKids == [n \in Node |-> <<>>]

ChildOf(k, c, p) == c \in ToSet(k[p])

Owner(k, n) ==
  IF \E p \in Node : ChildOf(k, n, p) THEN CHOOSE p \in Node : ChildOf(k, n, p) ELSE Null

(***************************************************************************)
(* a is n or an ancestor of n: in every set that holds n and its members'  *)
(* owners.                                                                 *)
(***************************************************************************)
Above(k, a, n) ==
  LET owned == UNION {{p} \X ToSet(k[p]) : p \in Node}
  IN  \A S \in SUBSET Node :
        n \in S /\ (\A e \in owned : e[2] \in S => e[1] \in S) => a \in S

(***************************************************************************)
(* n and everything below it, in document (pre) order.                     *)
(***************************************************************************)
Preorder(k, n) ==
  LET pre[m \in Node] == <<m>> \o FlattenSeq([i \in DOMAIN k[m] |-> pre[k[m][i]]])
  IN  pre[n]

Below(k, n) == Tail(Preorder(k, n))

\* n is a or below it, in trees without a cycle.
Inside(k, a, n) == n = a \/ n \in ToSet(Below(k, a))

Without(k, gone) == [p \in Node |-> Keeping(k[p], Node \ gone)]

Position(s, c) == SelectInSeq(s, LAMBDA x : x = c)

\* xs put before ref in s, or at its end.
PutBefore(s, ref, xs) ==
  IF ref = Null THEN s \o xs
  ELSE LET i == Position(s, ref) IN SubSeq(s, 1, i - 1) \o xs \o SubSeq(s, i, Len(s))

=============================================================================
