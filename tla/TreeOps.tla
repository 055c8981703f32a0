------------------------------ MODULE TreeOps ------------------------------
(***************************************************************************)
(* The relation fields of a document's nodes and the two primitives that   *)
(* write them (crates/mad-dom-core/src/dom/mutation.rs): Document::detach  *)
(* and Document::link_detached_chain_between.  The fields of all nodes are *)
(* kept in one record of functions, so that the modules of the components  *)
(* that mutate a tree can say what each step of theirs makes of it.  The   *)
(* walks of dom/document.rs over the fields follow, step by step.          *)
(***************************************************************************)
EXTENDS Integers, Sequences

CONSTANTS
  Node,  \* handles of one document's arena
  Null   \* Option::None in a relation field

ASSUME NullAssumption == Null \notin Node

Link == Node \cup {Null}

Tree == [parent : [Node -> Link], first : [Node -> Link], last : [Node -> Link],
         prev : [Node -> Link], next : [Node -> Link]]

NoLinks == [n \in Node |-> Null]

EmptyTree == [parent |-> NoLinks, first |-> NoLinks, last |-> NoLinks,
              prev |-> NoLinks, next |-> NoLinks]

Kids(t, p) == {c \in Node : t.parent[c] = p}

(***************************************************************************)
(* Document::is_descendant_of.  The walk up the parent chain of node meets *)
(* ancestor exactly if every set of nodes that holds node and the parents  *)
(* of its members holds ancestor.                                          *)
(***************************************************************************)
UpClosed(t, S) == \A n \in S : t.parent[n] \in S \cup {Null}

IsDescendantOf(t, node, ancestor) ==
  /\ node # ancestor
  /\ \A S \in SUBSET Node : node \in S /\ UpClosed(t, S) => ancestor \in S

-----------------------------------------------------------------------------
(***************************************************************************)
(* Document::detach: the neighbours of n and the ends of its parent's list *)
(* close the gap, then n's own fields are cleared.                         *)
(***************************************************************************)

\* Mutant: the parent's last_child is not moved back.
DetachKeepLast(t, n) ==
  LET p == t.parent[n]
      pv == t.prev[n]
      nx == t.next[n]
  IN  [t EXCEPT
        !.parent = [@ EXCEPT ![n] = Null],
        !.first = [m \in Node |-> IF m = p /\ @[m] = n THEN nx ELSE @[m]],
        !.prev = [m \in Node |-> IF m = n THEN Null ELSE IF m = nx THEN pv ELSE @[m]],
        !.next = [m \in Node |-> IF m = n THEN Null ELSE IF m = pv THEN nx ELSE @[m]]]

Detach(t, n) ==
  LET p == t.parent[n]
      pv == t.prev[n]
      nx == t.next[n]
  IN  [parent |-> [t.parent EXCEPT ![n] = Null],
       first |-> [m \in Node |-> IF m = p /\ t.first[m] = n THEN nx ELSE t.first[m]],
       last |-> [m \in Node |-> IF m = p /\ t.last[m] = n THEN pv ELSE t.last[m]],
       prev |-> [m \in Node |-> IF m = n THEN Null ELSE IF m = nx THEN pv ELSE t.prev[m]],
       next |-> [m \in Node |-> IF m = n THEN Null ELSE IF m = pv THEN nx ELSE t.next[m]]]

(***************************************************************************)
(* Every child of f detached in turn and chained to the next again: what   *)
(* the loop of detach calls and the first loop of                          *)
(* link_detached_chain_between leave of a fragment's child list.  The      *)
(* chain is the set C of its nodes, its first node a and its last node b.  *)
(***************************************************************************)
Unhook(t, f) ==
  [t EXCEPT !.parent = [m \in Node |-> IF @[m] = f THEN Null ELSE @[m]],
            !.first = [@ EXCEPT ![f] = Null],
            !.last = [@ EXCEPT ![f] = Null]]

(***************************************************************************)
(* Document::link_detached_chain_between for the chain C from a to b:      *)
(* between the siblings pv and nx of p's list, Null meaning its start or   *)
(* its end.                                                                *)
(***************************************************************************)
LinkChain(t, p, C, a, b, pv, nx) ==
  [parent |-> [m \in Node |-> IF m \in C THEN p ELSE t.parent[m]],
   first |-> [m \in Node |-> IF m = p /\ pv = Null THEN a ELSE t.first[m]],
   last |-> [m \in Node |-> IF m = p /\ nx = Null THEN b ELSE t.last[m]],
   prev |-> [m \in Node |-> IF m = nx THEN b ELSE IF m = a THEN pv ELSE t.prev[m]],
   next |-> [m \in Node |-> IF m = pv THEN a ELSE IF m = b THEN nx ELSE t.next[m]]]

LinkOne(t, p, n, pv, nx) == LinkChain(t, p, {n}, n, n, pv, nx)

\* Document::insert_detached_chain: before ref, or at the end.
GapBefore(t, p, ref) == IF ref = Null THEN t.last[p] ELSE t.prev[ref]

-----------------------------------------------------------------------------
(***************************************************************************)
(* Document::children: first_child, then next_sibling until it is None.    *)
(***************************************************************************)
Children(t, p) ==
  LET from[n \in Link] == IF n = Null THEN <<>> ELSE <<n>> \o from[t.next[n]]
  IN  from[t.first[p]]

(***************************************************************************)
(* Document::is_descendant_of: at most len + 1 steps up the parent chain.  *)
(***************************************************************************)

\* Mutant: the walk is capped one step short.
StepsShort(len) == len - 2

Steps(len) == len + 1

WalkIsDescendantOf(t, len, node, ancestor) ==
  LET up[k \in 0 .. Steps(len)] ==
        IF k = 0 THEN node
        ELSE LET below == up[k - 1] IN IF below = Null THEN Null ELSE t.parent[below]
  IN  node # ancestor /\ \E k \in 1 .. Steps(len) : up[k] = ancestor
=============================================================================
