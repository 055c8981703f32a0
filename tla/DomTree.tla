------------------------------ MODULE DomTree ------------------------------
(***************************************************************************)
(* The tree mutation API of a document (dom/mutation.rs) with the two      *)
(* payload operations that also mutate the tree (dom/text_content.rs,      *)
(* split_text of dom/character_data.rs).  Every call is one action:        *)
(* validation first, then detach and relink through the primitives of      *)
(* TreeOps.  What a call answers is kept in result; which of the error     *)
(* codes it is when it is not "ok" is left out.                            *)
(*                                                                         *)
(* Kinds stand for more node types than their name: "Text" for the node    *)
(* types without children (Text, Comment, ProcessingInstruction,           *)
(* DocumentType), "DocumentFragment" for the ones whose children move in   *)
(* their place (DocumentFragment, ShadowRoot).                             *)
(***************************************************************************)
EXTENDS TreeOps

CONSTANT Kind  \* the node type each handle is created with

NodeType == {"Element", "Text", "DocumentFragment", "Document"}

ASSUME KindAssumption == Kind \in [Node -> NodeType]

VARIABLES
  tree,    \* relation fields of every handle, Null in those not allocated
  live,    \* handles the arena accepts
  result   \* what the last call answered

vars == <<tree, live, result>>

IsFragment(n) == Kind[n] = "DocumentFragment"

Fresh(n) == n \in Node \ live

Rejected ==
  /\ result' = "error"
  /\ UNCHANGED <<tree, live>>

Accepted(t) ==
  /\ result' = "ok"
  /\ tree' = t

-----------------------------------------------------------------------------
(***************************************************************************)
(* validate_insert_parent and validate_fragment_children.                  *)
(***************************************************************************)
MayBeParent(p) == p \in live /\ Kind[p] \in {"Element", "DocumentFragment"}

FragmentWouldCycle(p, f) ==
  /\ IsFragment(f)
  /\ \E c \in Kids(tree, f) : c = p \/ IsDescendantOf(tree, p, c)

(***************************************************************************)
(* The validation phase of pre_insert: append_child has ref = Null.  A     *)
(* child without children is not looked for among p's ancestors.           *)
(***************************************************************************)

\* Mutant: only a direct child is looked at before a node is inserted.
InsertRejectedShallow(p, c, ref) ==
  \/ ~ MayBeParent(p)
  \/ c \notin live \/ Kind[c] = "Document"
  \/ p = c
  \/ tree.parent[p] = c
  \/ ref \notin {Null, c} /\ (ref \notin live \/ tree.parent[ref] # p)

InsertRejected(p, c, ref) ==
  \/ ~ MayBeParent(p)
  \/ c \notin live \/ Kind[c] = "Document"
  \/ p = c
  \/ tree.first[c] # Null /\ IsDescendantOf(tree, p, c)
  \/ FragmentWouldCycle(p, c)
  \/ ref \notin {Null, c} /\ (ref \notin live \/ tree.parent[ref] # p)

(***************************************************************************)
(* The early returns of pre_insert that leave the tree as it is.           *)
(***************************************************************************)

\* Mutant: any child of p is taken to be its last one.
InPlaceIfChild(p, c, ref) ==
  \/ ref = c
  \/ tree.parent[c] = p /\ (ref = Null \/ tree.next[c] = ref)
  \/ IsFragment(c) /\ tree.first[c] = Null

InsertInPlace(p, c, ref) ==
  \/ ref = c
  \/ /\ tree.parent[c] = p
     /\ IF ref = Null THEN tree.last[p] = c ELSE tree.next[c] = ref
  \/ IsFragment(c) /\ tree.first[c] = Null

(***************************************************************************)
(* The mutation phase of pre_insert.  The gap before ref is read after the *)
(* moved nodes are detached.                                               *)
(***************************************************************************)
Inserted(t, p, c, ref) ==
  IF IsFragment(c)
  THEN LET u == Unhook(t, c)
       IN  LinkChain(u, p, Kids(t, c), t.first[c], t.last[c], GapBefore(u, p, ref), ref)
  ELSE LET u == IF t.parent[c] = Null THEN t ELSE Detach(t, c)
       IN  LinkOne(u, p, c, GapBefore(u, p, ref), ref)

PreInsert(p, c, ref) ==
  \/ InsertRejected(p, c, ref) /\ Rejected
  \/ /\ ~ InsertRejected(p, c, ref)
     /\ Accepted(IF InsertInPlace(p, c, ref) THEN tree ELSE Inserted(tree, p, c, ref))
     /\ UNCHANGED live

AppendChild(p, c) == PreInsert(p, c, Null)
InsertBefore(p, c, ref) == PreInsert(p, c, ref)

-----------------------------------------------------------------------------
(***************************************************************************)
(* remove_child and its validation.                                        *)
(***************************************************************************)
NotChildOf(p, c) == p \notin live \/ c \notin live \/ tree.parent[c] # p

\* Mutant: the removed child is freed instead of detached.
RemoveChildFreeing(p, c) ==
  \/ NotChildOf(p, c) /\ Rejected
  \/ /\ ~ NotChildOf(p, c)
     /\ Accepted(tree)
     /\ live' = live \ {c}

RemoveChild(p, c) ==
  \/ NotChildOf(p, c) /\ Rejected
  \/ /\ ~ NotChildOf(p, c)
     /\ Accepted(Detach(tree, c))
     /\ UNCHANGED live

(***************************************************************************)
(* replace_child.  The anchors are the neighbours of c, or the neighbours  *)
(* of n where n is itself a neighbour of c.                                *)
(***************************************************************************)
ReplaceRejected(p, c, n) ==
  \/ NotChildOf(p, c)
  \/ n \notin live \/ Kind[n] = "Document"
  \/ n = p \/ IsDescendantOf(tree, p, n)
  \/ FragmentWouldCycle(p, n)

ReplaceAnchors(t, c, n) ==
  [prev |-> IF n = t.prev[c] THEN t.prev[n] ELSE t.prev[c],
   next |-> IF n = t.next[c] THEN t.next[n] ELSE t.next[c]]

\* Mutant: a fragment is linked itself and not its children.
ReplacedWhole(t, p, c, n) ==
  LET at == ReplaceAnchors(t, c, n)
  IN  LinkOne(Detach(Detach(t, c), n), p, n, at.prev, at.next)

Replaced(t, p, c, n) ==
  LET at == ReplaceAnchors(t, c, n)
      u == Detach(t, c)
  IN  IF ~ IsFragment(n)
      THEN LinkOne(Detach(u, n), p, n, at.prev, at.next)
      ELSE IF u.first[n] = Null
           THEN u
           ELSE LinkChain(Unhook(u, n), p, Kids(u, n), u.first[n], u.last[n],
                          at.prev, at.next)

ReplaceChild(p, c, n) ==
  \/ ReplaceRejected(p, c, n) /\ Rejected
  \/ /\ ~ ReplaceRejected(p, c, n)
     /\ Accepted(IF n = c THEN tree ELSE Replaced(tree, p, c, n))
     /\ UNCHANGED live

-----------------------------------------------------------------------------
(***************************************************************************)
(* set_text_content of a node that may have children: every child is       *)
(* removed, then the new text node, if the value is not empty, appended.   *)
(***************************************************************************)
Cleared(t, p) ==
  LET gone == Kids(t, p)
      Reset(f) == [m \in Node |-> IF m \in gone THEN Null ELSE f[m]]
  IN  [parent |-> Reset(t.parent), prev |-> Reset(t.prev), next |-> Reset(t.next),
       first |-> [t.first EXCEPT ![p] = Null],
       last |-> [t.last EXCEPT ![p] = Null]]

SetTextContent(p, x) ==
  /\ MayBeParent(p)
  /\ \/ x = Null
        /\ Accepted(Cleared(tree, p))
        /\ UNCHANGED live
     \/ Fresh(x) /\ Kind[x] = "Text"
        /\ Accepted(LinkOne(Cleared(tree, p), p, x, Null, Null))
        /\ live' = live \cup {x}

(***************************************************************************)
(* split_text: the new tail follows n among its parent's children.         *)
(***************************************************************************)

\* Mutant: the tail is appended to the parent.
SplitTextAppending(n, x) ==
  /\ n \in live /\ Kind[n] = "Text"
  /\ Fresh(x) /\ Kind[x] = "Text"
  /\ live' = live \cup {x}
  /\ Accepted(IF tree.parent[n] = Null
              THEN tree
              ELSE LinkOne(tree, tree.parent[n], x, tree.last[tree.parent[n]], Null))

SplitText(n, x) ==
  /\ n \in live /\ Kind[n] = "Text"
  /\ Fresh(x) /\ Kind[x] = "Text"
  /\ live' = live \cup {x}
  /\ Accepted(IF tree.parent[n] = Null
              THEN tree
              ELSE LinkOne(tree, tree.parent[n], x, n, tree.next[n]))

(***************************************************************************)
(* create_element and its sisters: a detached node at a fresh handle.      *)
(***************************************************************************)
Create(n) ==
  /\ Fresh(n)
  /\ live' = live \cup {n}
  /\ Accepted(tree)

Init ==
  /\ tree = EmptyTree
  /\ live = {}
  /\ result = "ok"

Next ==
  \/ \E n \in Node : Create(n)
  \/ \E p, c \in Node : AppendChild(p, c)
  \/ \E p, c, ref \in Node : InsertBefore(p, c, ref)
  \/ \E p, c \in Node : RemoveChild(p, c)
  \/ \E p, c, n \in Node : ReplaceChild(p, c, n)
  \/ \E p \in Node, x \in Link : SetTextContent(p, x)
  \/ \E n, x \in Node : SplitText(n, x)

Spec == Init /\ [][Next]_vars

-----------------------------------------------------------------------------
(***************************************************************************)
(* Every variable has its type, and a handle the arena does not accept has *)
(* no place in a tree.                                                     *)
(***************************************************************************)
TypeOK ==
  /\ tree \in Tree
  /\ live \in SUBSET Node
  /\ result \in {"ok", "error"}
  /\ \A n \in Node \ live : tree.parent[n] = Null

(***************************************************************************)
(* The sibling fields mirror each other, siblings share their parent, and  *)
(* a node without a parent has no siblings.                                *)
(***************************************************************************)
SiblingsMirror(t) ==
  \A n \in Node :
    /\ t.next[n] # Null => t.prev[t.next[n]] = n /\ t.parent[t.next[n]] = t.parent[n]
    /\ t.prev[n] # Null => t.next[t.prev[n]] = n /\ t.parent[t.prev[n]] = t.parent[n]
    /\ t.parent[n] = Null => t.prev[n] = Null /\ t.next[n] = Null

(***************************************************************************)
(* The ends of a child list are children of its owner with nothing before  *)
(* or after them, and a child with nothing before or after it is an end.   *)
(***************************************************************************)
EndsMirror(t) ==
  \A n \in Node :
    /\ t.first[n] # Null => t.parent[t.first[n]] = n /\ t.prev[t.first[n]] = Null
    /\ t.last[n] # Null => t.parent[t.last[n]] = n /\ t.next[t.last[n]] = Null
    /\ t.first[n] = Null <=> t.last[n] = Null
    /\ t.parent[n] # Null =>
         /\ t.prev[n] = Null => t.first[t.parent[n]] = n
         /\ t.next[n] = Null => t.last[t.parent[n]] = n

(***************************************************************************)
(* No sibling chain and no parent chain comes back to where it was: every  *)
(* set of nodes has a member whose successor lies outside it.              *)
(***************************************************************************)
WellFounded(link) == \A S \in SUBSET Node : S # {} => \E n \in S : link[n] \notin S

(***************************************************************************)
(* What check_invariants of dom/tree.rs verifies from a root, stated of    *)
(* every node at once.  The relations mirror each other whatever sequence  *)
(* of moves, splices and replacements ran (pre_insert, replace_child).     *)
(***************************************************************************)
RelationsMirror == SiblingsMirror(tree) /\ EndsMirror(tree)

(***************************************************************************)
(* No node is its own ancestor and no child list loops: in particular the  *)
(* shortcut of pre_insert for childless nodes lets no cycle in.            *)
(***************************************************************************)
Acyclic == WellFounded(tree.parent) /\ WellFounded(tree.next)

(***************************************************************************)
(* Only live nodes are linked, only elements and fragments have children,  *)
(* and fragments and documents are nobody's child.                         *)
(***************************************************************************)
KindsRespected ==
  \A n \in Node :
    tree.parent[n] # Null =>
      /\ n \in live /\ Kind[n] \in {"Element", "Text"}
      /\ MayBeParent(tree.parent[n])
=============================================================================
