--------------------------- MODULE ChildNodeLists ---------------------------
(***************************************************************************)
(* childNodes: src/js/facade/extensions/child-nodelist.js.  One list per   *)
(* parent, whose children are read from Core each time.  forEach takes     *)
(* them when it is called, and its callbacks may call anything; an         *)
(* iterator takes them at its first step, that of the indices takes their  *)
(* number.                                                                 *)
(***************************************************************************)
EXTENDS Naturals, Sequences, SequencesExt

CONSTANT MaxRowOps    \* bound on the calls on one parent's children

VARIABLE row          \* the children of a node and who iterates over them

Ways == {"forEach", "values", "entries", "keys"}
NoIteration == [way |-> "none", started |-> FALSE, nodes |-> <<>>, began |-> <<>>, visited |-> <<>>]
RowInit == row = [kids |-> <<1, 2>>, made |-> 2, iterations |-> <<>>, ops |-> 0]
RowCall(r) == row.ops < MaxRowOps /\ row' = [r EXCEPT !.ops = @ + 1]
RowAppend == row.made < 3 /\ RowCall([row EXCEPT !.kids = Append(@, row.made + 1), !.made = @ + 1])
RowRemove(n) == n \in ToSet(row.kids) /\ RowCall([row EXCEPT !.kids = SelectSeq(@, LAMBDA k : k # n)])
ReadNodes == row.kids
ChildCount == Len(row.kids)
Taken(way) == IF way = "keys" THEN [i \in 1..ChildCount |-> i] ELSE ReadNodes
Started(it) == IF it.started THEN it ELSE [it EXCEPT !.started = TRUE, !.nodes = Taken(it.way), !.began = row.kids]
Begins(way) ==
  LET it == [NoIteration EXCEPT !.way = way]
  IN /\ Len(row.iterations) < 2
     /\ RowCall([row EXCEPT !.iterations = Append(@, IF way = "forEach" THEN Started(it) ELSE it)])
\* One call of the callback, or one next(): the first of an iterator takes what
\* there is to visit.
Step(k) ==
  LET it == Started(row.iterations[k])
      at == Len(it.visited) + 1
  IN /\ at <= Len(it.nodes)
     /\ row' = [row EXCEPT !.iterations[k] = [it EXCEPT !.visited = Append(@, it.nodes[at])]]
RowMoves ==
  \/ RowAppend
  \/ \E n \in 1..3 : RowRemove(n)
  \/ \E way \in Ways : Begins(way)
  \/ \E k \in DOMAIN row.iterations : Step(k)
\* Callbacks that add and remove children do not make an iteration skip one
\* that was there when it began, or visit one twice.
IterationWhole ==
  \A k \in DOMAIN row.iterations :
    LET it == row.iterations[k] n == Len(it.visited) IN
    /\ n <= Len(it.began)
    /\ it.visited = IF it.way = "keys" THEN [i \in 1..n |-> i] ELSE SubSeq(it.began, 1, n)
=============================================================================
