----------------------------- MODULE DomForest -----------------------------
(***************************************************************************)
(* What the tree mutation API promises, on ordered lists of children: a    *)
(* node is taken out of every list it is in, then put where the call says. *)
(***************************************************************************)
EXTENDS ForestOps

CONSTANT Kind  \* the node type each handle is created with

VARIABLES
  kids,    \* the children of every node, in document order
  live,    \* nodes that exist
  result   \* what the last call answered

vars == <<kids, live, result>>

\* A refused call changes nothing.
Refuse == result' = "error" /\ UNCHANGED <<kids, live>>

Accepted(k) == result' = "ok" /\ kids' = k

\* What moves when n is inserted: n itself, or the children of a fragment.
Moved(n) == IF Kind[n] = "DocumentFragment" THEN kids[n] ELSE <<n>>

MayHold(p, n) ==
  /\ {p, n} \subseteq live
  /\ Kind[p] \in {"Element", "DocumentFragment"}
  /\ Kind[n] # "Document"
  /\ ~ Above(kids, n, p)

Create(n) ==
  /\ n \notin live
  /\ live' = live \cup {n}
  /\ Accepted(kids)

\* Where n may be inserted: at the end, before a child of p, or before itself.
MayPrecede(ref, p, n) == ref \in {Null, n} \/ (ref \in live /\ ChildOf(kids, ref, p))

MayInsert(p, n, ref) == p # n /\ MayHold(p, n) /\ MayPrecede(ref, p, n)

WithInserted(p, n, ref) ==
  IF ref = n THEN kids
  ELSE [Without(kids, ToSet(Moved(n))) EXCEPT ![p] = PutBefore(@, ref, Moved(n))]

Insert(p, n, ref) ==
  /\ MayInsert(p, n, ref)
  /\ Accepted(WithInserted(p, n, ref))
  /\ UNCHANGED live

Delete(p, c) ==
  /\ ChildOf(kids, c, p)
  /\ Accepted(Without(kids, {c}))
  /\ UNCHANGED live

MayReplace(p, c, n) == ChildOf(kids, c, p) /\ p # n /\ MayHold(p, n)

WithReplaced(p, c, n) ==
  IF n = c THEN kids ELSE Without(WithInserted(p, n, c), {c})

Replace(p, c, n) ==
  /\ MayReplace(p, c, n)
  /\ Accepted(WithReplaced(p, c, n))
  /\ UNCHANGED live

\* The children of p are replaced by one new text node, or by nothing.
SetChildren(p, xs) ==
  /\ p \in live /\ Kind[p] \in {"Element", "DocumentFragment"}
  /\ ToSet(xs) \cap live = {}
  /\ Accepted([kids EXCEPT ![p] = xs])
  /\ live' = live \cup ToSet(xs)

\* A new text node follows n.
Split(n, x) ==
  /\ n \in live /\ x \notin live
  /\ Kind[n] = "Text" /\ Kind[x] = "Text"
  /\ live' = live \cup {x}
  /\ Accepted([p \in Node |->
                 IF ChildOf(kids, n, p)
                 THEN LET i == Position(kids[p], n) IN InsertAt(kids[p], i + 1, x)
                 ELSE kids[p]])

Init ==
  /\ kids = NoKids
  /\ live = {}
  /\ result = "ok"

Next ==
  \/ Refuse
  \/ \E n \in Node : Create(n)
  \/ \E p, c \in Node : Delete(p, c)
  \/ \E p, n \in Node, ref \in Node \cup {Null} : Insert(p, n, ref)
  \/ \E p, c, n \in Node : Replace(p, c, n)
  \/ \E p \in Node : SetChildren(p, <<>>)
  \/ \E p, x \in Node : Kind[x] = "Text" /\ SetChildren(p, <<x>>)
  \/ \E n, x \in Node : Split(n, x)

Spec == Init /\ [][Next]_vars
=============================================================================
