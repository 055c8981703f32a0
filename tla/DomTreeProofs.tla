--------------------------- MODULE DomTreeProofs ---------------------------
(***************************************************************************)
(* Whatever handles a document has and whatever calls are made, the        *)
(* relation fields stay a forest of doubly linked child lists.             *)
(***************************************************************************)
EXTENDS DomTree, TLAPS

USE NullAssumption DEF Link

Mirrors(t) == SiblingsMirror(t) /\ EndsMirror(t)

-----------------------------------------------------------------------------
(***************************************************************************)
(* The primitives field by field: d is what they make of t.                *)
(***************************************************************************)
IsDetach(t, n, d) ==
  \A m \in Node :
    /\ d.parent[m] = IF m = n THEN Null ELSE t.parent[m]
    /\ d.first[m] = IF m = t.parent[n] /\ t.first[m] = n THEN t.next[n] ELSE t.first[m]
    /\ d.last[m] = IF m = t.parent[n] /\ t.last[m] = n THEN t.prev[n] ELSE t.last[m]
    /\ d.prev[m] = IF m = n THEN Null
                   ELSE IF m = t.next[n] THEN t.prev[n] ELSE t.prev[m]
    /\ d.next[m] = IF m = n THEN Null
                   ELSE IF m = t.prev[n] THEN t.next[n] ELSE t.next[m]

IsLink(t, p, C, a, b, pv, nx, d) ==
  \A m \in Node :
    /\ d.parent[m] = IF m \in C THEN p ELSE t.parent[m]
    /\ d.first[m] = IF m = p /\ pv = Null THEN a ELSE t.first[m]
    /\ d.last[m] = IF m = p /\ nx = Null THEN b ELSE t.last[m]
    /\ d.prev[m] = IF m = nx THEN b ELSE IF m = a THEN pv ELSE t.prev[m]
    /\ d.next[m] = IF m = pv THEN a ELSE IF m = b THEN nx ELSE t.next[m]

IsUnhook(t, f, d) ==
  \A m \in Node :
    /\ d.parent[m] = IF t.parent[m] = f THEN Null ELSE t.parent[m]
    /\ d.first[m] = IF m = f THEN Null ELSE t.first[m]
    /\ d.last[m] = IF m = f THEN Null ELSE t.last[m]
    /\ d.prev[m] = t.prev[m]
    /\ d.next[m] = t.next[m]

IsCleared(t, p, d) ==
  \A m \in Node :
    /\ d.parent[m] = IF t.parent[m] = p THEN Null ELSE t.parent[m]
    /\ d.prev[m] = IF t.parent[m] = p THEN Null ELSE t.prev[m]
    /\ d.next[m] = IF t.parent[m] = p THEN Null ELSE t.next[m]
    /\ d.first[m] = IF m = p THEN Null ELSE t.first[m]
    /\ d.last[m] = IF m = p THEN Null ELSE t.last[m]

LEMMA DetachFields ==
  ASSUME NEW t \in Tree, NEW n \in Node
  PROVE  Detach(t, n) \in Tree /\ IsDetach(t, n, Detach(t, n))
BY DEF Detach, Tree, IsDetach

LEMMA LinkFields ==
  ASSUME NEW t \in Tree, NEW p \in Node, NEW C \in SUBSET Node,
         NEW a \in Node, NEW b \in Node, NEW pv \in Link, NEW nx \in Link
  PROVE  /\ LinkChain(t, p, C, a, b, pv, nx) \in Tree
         /\ IsLink(t, p, C, a, b, pv, nx, LinkChain(t, p, C, a, b, pv, nx))
BY DEF LinkChain, Tree, IsLink

LEMMA UnhookFields ==
  ASSUME NEW t \in Tree, NEW f \in Node
  PROVE  Unhook(t, f) \in Tree /\ IsUnhook(t, f, Unhook(t, f))
BY DEF Unhook, Tree, IsUnhook

LEMMA ClearedFields ==
  ASSUME NEW t \in Tree, NEW p \in Node
  PROVE  Cleared(t, p) \in Tree /\ IsCleared(t, p, Cleared(t, p))
BY DEF Cleared, Tree, Kids, IsCleared

-----------------------------------------------------------------------------
(***************************************************************************)
(* A node with children has a first child: the sibling chain of its        *)
(* children ends, and where it ends is last_child.                         *)
(***************************************************************************)
LEMMA ParentHasFirst ==
  ASSUME NEW t \in Tree, Mirrors(t), WellFounded(t.next),
         NEW m \in Node, NEW c \in Node, t.parent[m] = c
  PROVE  t.first[c] # Null
<1>1. PICK k \in Kids(t, c) : t.next[k] \notin Kids(t, c)
  BY DEF WellFounded, Kids
<1>2. t.next[k] = Null
  BY <1>1 DEF Mirrors, SiblingsMirror, Kids, Tree
<1>3. t.last[c] = k
  BY <1>1, <1>2 DEF Mirrors, EndsMirror, Kids
<1>. QED
  BY <1>1, <1>3 DEF Mirrors, EndsMirror, Kids

(***************************************************************************)
(* detach keeps the lists mirrored and the chains well founded.            *)
(***************************************************************************)
LEMMA DetachMirrors ==
  ASSUME NEW t \in Tree, NEW n \in Node, NEW d \in Tree, IsDetach(t, n, d),
         Mirrors(t), WellFounded(t.next)
  PROVE  Mirrors(d)
<1>1. t.next[n] # n
  <2>1. {n} \in SUBSET Node /\ {n} # {}
    OBVIOUS
  <2>. QED
    BY <2>1 DEF WellFounded
<1>2. t.prev[n] # n
  BY <1>1 DEF Mirrors, SiblingsMirror
<1>3. SiblingsMirror(d)
  <2>. SUFFICES ASSUME NEW m \in Node
                PROVE  /\ d.next[m] # Null =>
                            d.prev[d.next[m]] = m /\ d.parent[d.next[m]] = d.parent[m]
                       /\ d.prev[m] # Null =>
                            d.next[d.prev[m]] = m /\ d.parent[d.prev[m]] = d.parent[m]
                       /\ d.parent[m] = Null => d.prev[m] = Null /\ d.next[m] = Null
    BY DEF SiblingsMirror
  <2>1. CASE m = n
    BY <2>1 DEF IsDetach
  <2>2. CASE m # n
    <3>1. d.next[m] # Null => d.prev[d.next[m]] = m /\ d.parent[d.next[m]] = d.parent[m]
      BY <1>1, <1>2, <2>2 DEF IsDetach, Mirrors, SiblingsMirror, Tree
    <3>2. d.prev[m] # Null => d.next[d.prev[m]] = m /\ d.parent[d.prev[m]] = d.parent[m]
      BY <1>1, <1>2, <2>2 DEF IsDetach, Mirrors, SiblingsMirror, Tree
    <3>3. d.parent[m] = Null => d.prev[m] = Null /\ d.next[m] = Null
      BY <1>1, <1>2, <2>2 DEF IsDetach, Mirrors, SiblingsMirror, Tree
    <3>. QED
      BY <3>1, <3>2, <3>3
  <2>. QED
    BY <2>1, <2>2
<1>4. EndsMirror(d)
  <2>. SUFFICES ASSUME NEW m \in Node
                PROVE  /\ d.first[m] # Null => d.parent[d.first[m]] = m /\ d.prev[d.first[m]] = Null
                       /\ d.last[m] # Null => d.parent[d.last[m]] = m /\ d.next[d.last[m]] = Null
                       /\ d.first[m] = Null <=> d.last[m] = Null
                       /\ d.parent[m] # Null =>
                            /\ d.prev[m] = Null => d.first[d.parent[m]] = m
                            /\ d.next[m] = Null => d.last[d.parent[m]] = m
    BY DEF EndsMirror
  <2>1. d.first[m] # Null => d.parent[d.first[m]] = m /\ d.prev[d.first[m]] = Null
    BY <1>1, <1>2 DEF IsDetach, Mirrors, SiblingsMirror, EndsMirror, Tree
  <2>2. d.last[m] # Null => d.parent[d.last[m]] = m /\ d.next[d.last[m]] = Null
    BY <1>1, <1>2 DEF IsDetach, Mirrors, SiblingsMirror, EndsMirror, Tree
  <2>3. d.first[m] = Null <=> d.last[m] = Null
    BY <1>1, <1>2 DEF IsDetach, Mirrors, SiblingsMirror, EndsMirror, Tree
  <2>4. ASSUME d.parent[m] # Null
        PROVE  /\ d.prev[m] = Null => d.first[d.parent[m]] = m
               /\ d.next[m] = Null => d.last[d.parent[m]] = m
    BY <1>1, <1>2, <2>4 DEF IsDetach, Mirrors, SiblingsMirror, EndsMirror, Tree
  <2>. QED
    BY <2>1, <2>2, <2>3, <2>4
<1>. QED
  BY <1>3, <1>4 DEF Mirrors

LEMMA DetachParentChain ==
  ASSUME NEW t \in Tree, NEW n \in Node, NEW d \in Tree, IsDetach(t, n, d),
         WellFounded(t.parent)
  PROVE  WellFounded(d.parent)
BY DEF WellFounded, IsDetach

LEMMA DetachSiblingChain ==
  ASSUME NEW t \in Tree, NEW n \in Node, NEW d \in Tree, IsDetach(t, n, d),
         Mirrors(t), WellFounded(t.next)
  PROVE  WellFounded(d.next)
<1>. SUFFICES ASSUME NEW S \in SUBSET Node, S # {}
              PROVE  \E m \in S : d.next[m] \notin S
  BY DEF WellFounded
<1>1. CASE n \in S
  BY <1>1 DEF IsDetach
<1>2. CASE n \notin S /\ t.next[n] \notin S
  <2>1. PICK m \in S : t.next[m] \notin S
    BY DEF WellFounded
  <2>. QED
    BY <1>2, <2>1 DEF IsDetach
<1>3. CASE n \notin S /\ t.next[n] \in S
  <2>1. PICK m \in S \cup {n} : t.next[m] \notin S \cup {n}
    BY DEF WellFounded
  <2>2. m # n /\ m # t.prev[n]
    BY <1>3, <2>1 DEF Mirrors, SiblingsMirror, Tree
  <2>. QED
    BY <1>3, <2>1, <2>2 DEF IsDetach
<1>. QED
  BY <1>1, <1>2, <1>3

-----------------------------------------------------------------------------
(***************************************************************************)
(* A chain C from a to b that hangs off no parent, everything else         *)
(* mirrored among itself; and a gap of p's child list outside the chain.   *)
(***************************************************************************)
Loose(t, C, a, b) ==
  /\ a \in C /\ b \in C
  /\ \A m \in C :
       /\ t.parent[m] = Null
       /\ IF m = a THEN t.prev[m] = Null
          ELSE t.prev[m] \in C /\ t.next[t.prev[m]] = m
       /\ IF m = b THEN t.next[m] = Null
          ELSE t.next[m] \in C /\ t.prev[t.next[m]] = m
  /\ \A m \in Node \ C :
       /\ t.next[m] # Null => /\ t.next[m] \notin C
                             /\ t.prev[t.next[m]] = m
                             /\ t.parent[t.next[m]] = t.parent[m]
       /\ t.prev[m] # Null => /\ t.prev[m] \notin C
                             /\ t.next[t.prev[m]] = m
                             /\ t.parent[t.prev[m]] = t.parent[m]
       /\ t.parent[m] = Null => t.prev[m] = Null /\ t.next[m] = Null

Gap(t, p, C, pv, nx) ==
  /\ p \in Node \ C
  /\ IF pv = Null THEN t.first[p] = nx
     ELSE pv \in Node \ C /\ t.parent[pv] = p /\ t.next[pv] = nx
  /\ IF nx = Null THEN t.last[p] = pv
     ELSE nx \in Node \ C /\ t.parent[nx] = p /\ t.prev[nx] = pv

(***************************************************************************)
(* Linking a loose chain into a gap mirrors the lists.                     *)
(***************************************************************************)
LEMMA LinkMirrors ==
  ASSUME NEW t \in Tree, NEW C \in SUBSET Node, NEW a \in Node, NEW b \in Node,
         NEW p \in Node, NEW pv \in Link, NEW nx \in Link, NEW d \in Tree,
         Loose(t, C, a, b), EndsMirror(t), Gap(t, p, C, pv, nx),
         IsLink(t, p, C, a, b, pv, nx, d)
  PROVE  Mirrors(d)
<1>. USE DEF Loose, Gap, IsLink, Tree
<1>1. SiblingsMirror(d)
  <2>. SUFFICES ASSUME NEW m \in Node
                PROVE  /\ d.next[m] # Null =>
                            d.prev[d.next[m]] = m /\ d.parent[d.next[m]] = d.parent[m]
                       /\ d.prev[m] # Null =>
                            d.next[d.prev[m]] = m /\ d.parent[d.prev[m]] = d.parent[m]
                       /\ d.parent[m] = Null => d.prev[m] = Null /\ d.next[m] = Null
    BY DEF SiblingsMirror
  <2>1. d.next[m] # Null => d.prev[d.next[m]] = m
    OBVIOUS
  <2>2. d.next[m] # Null => d.parent[d.next[m]] = d.parent[m]
    OBVIOUS
  <2>3. d.prev[m] # Null => d.next[d.prev[m]] = m
    OBVIOUS
  <2>4. d.prev[m] # Null => d.parent[d.prev[m]] = d.parent[m]
    OBVIOUS
  <2>5. d.parent[m] = Null => d.prev[m] = Null /\ d.next[m] = Null
    OBVIOUS
  <2>. QED
    BY <2>1, <2>2, <2>3, <2>4, <2>5
<1>2. EndsMirror(d)
  <2>. SUFFICES ASSUME NEW m \in Node
                PROVE  /\ d.first[m] # Null => d.parent[d.first[m]] = m /\ d.prev[d.first[m]] = Null
                       /\ d.last[m] # Null => d.parent[d.last[m]] = m /\ d.next[d.last[m]] = Null
                       /\ d.first[m] = Null <=> d.last[m] = Null
                       /\ d.parent[m] # Null =>
                            /\ d.prev[m] = Null => d.first[d.parent[m]] = m
                            /\ d.next[m] = Null => d.last[d.parent[m]] = m
    BY DEF EndsMirror
  <2>1. d.first[m] # Null => d.parent[d.first[m]] = m
    BY DEF EndsMirror
  <2>2. d.first[m] # Null => d.prev[d.first[m]] = Null
    BY DEF EndsMirror
  <2>3. d.last[m] # Null => d.parent[d.last[m]] = m
    BY DEF EndsMirror
  <2>4. d.last[m] # Null => d.next[d.last[m]] = Null
    BY DEF EndsMirror
  <2>5. d.first[m] = Null <=> d.last[m] = Null
    BY DEF EndsMirror
  <2>6. d.parent[m] # Null /\ d.prev[m] = Null => d.first[d.parent[m]] = m
    BY DEF EndsMirror
  <2>7. d.parent[m] # Null /\ d.next[m] = Null => d.last[d.parent[m]] = m
    BY DEF EndsMirror
  <2>. QED
    BY <2>1, <2>2, <2>3, <2>4, <2>5, <2>6, <2>7
<1>. QED
  BY <1>1, <1>2 DEF Mirrors

(***************************************************************************)
(* Linking a loose chain into a gap closes no sibling chain.               *)
(***************************************************************************)
LEMMA LinkSiblingChain ==
  ASSUME NEW t \in Tree, NEW C \in SUBSET Node, NEW a \in Node, NEW b \in Node,
         NEW p \in Node, NEW pv \in Link, NEW nx \in Link, NEW d \in Tree,
         Loose(t, C, a, b), Gap(t, p, C, pv, nx), WellFounded(t.next),
         IsLink(t, p, C, a, b, pv, nx, d)
  PROVE  WellFounded(d.next)
<1>. SUFFICES ASSUME NEW S \in SUBSET Node, S # {}
              PROVE  \E m \in S : d.next[m] \notin S
  BY DEF WellFounded
<1>1. CASE S \cap C = {}
  <2>1. PICK m \in S : t.next[m] \notin S
    BY DEF WellFounded
  <2>. QED
    BY <1>1, <2>1 DEF Loose, IsLink
<1>2. CASE S \cap C # {}
  <2>1. PICK m \in S \cap C : t.next[m] \notin S \cap C
    BY <1>2 DEF WellFounded
  <2>2. m # pv /\ t.next[m] \notin S
    BY <2>1 DEF Loose, Gap
  <2>3. CASE m # b \/ nx \notin S
    BY <2>1, <2>2, <2>3 DEF IsLink
  <2>4. CASE m = b /\ nx \in S
    <3>1. nx \in S \ C
      BY <2>4 DEF Gap
    <3>2. PICK k \in S \ C : t.next[k] \notin S \ C
      BY <3>1 DEF WellFounded
    <3>3. k # pv /\ k # b /\ t.next[k] \notin S
      BY <3>1, <3>2 DEF Loose, Gap
    <3>. QED
      BY <3>2, <3>3 DEF IsLink
  <2>. QED
    BY <2>3, <2>4
<1>. QED
  BY <1>1, <1>2

(***************************************************************************)
(* Linking a chain under p closes no parent chain when p is not below it:  *)
(* some set holds p and the ancestors of p and nothing of the chain.       *)
(***************************************************************************)
LEMMA LinkParentChain ==
  ASSUME NEW t \in Tree, NEW C \in SUBSET Node, NEW a \in Node, NEW b \in Node,
         NEW p \in Node, NEW pv \in Link, NEW nx \in Link, NEW d \in Tree,
         WellFounded(t.parent), IsLink(t, p, C, a, b, pv, nx, d),
         NEW U \in SUBSET Node, p \in U, UpClosed(t, U), U \cap C = {}
  PROVE  WellFounded(d.parent)
<1>. SUFFICES ASSUME NEW S \in SUBSET Node, S # {}
              PROVE  \E m \in S : d.parent[m] \notin S
  BY DEF WellFounded
<1>1. CASE S \cap C = {}
  <2>1. PICK m \in S : t.parent[m] \notin S
    BY DEF WellFounded
  <2>. QED
    BY <1>1, <2>1 DEF IsLink
<1>2. CASE p \notin S /\ S \cap C # {}
  BY <1>2 DEF IsLink
<1>3. CASE p \in S
  <2>1. PICK m \in S \cap U : t.parent[m] \notin S \cap U
    BY <1>3 DEF WellFounded
  <2>2. t.parent[m] \notin S
    BY <2>1 DEF UpClosed
  <2>. QED
    BY <2>1, <2>2 DEF IsLink
<1>. QED
  BY <1>1, <1>2, <1>3

-----------------------------------------------------------------------------
(***************************************************************************)
(* What every call keeps.                                                  *)
(***************************************************************************)
Good(t) == Mirrors(t) /\ WellFounded(t.parent) /\ WellFounded(t.next)

LEMMA DetachGood ==
  ASSUME NEW t \in Tree, NEW n \in Node, Good(t)
  PROVE  Detach(t, n) \in Tree /\ Good(Detach(t, n))
BY DetachFields, DetachMirrors, DetachParentChain, DetachSiblingChain DEF Good

(***************************************************************************)
(* A node without a parent is a loose chain of its own.                    *)
(***************************************************************************)
LEMMA DetachedLoose ==
  ASSUME NEW t \in Tree, NEW n \in Node, Mirrors(t), t.parent[n] = Null
  PROVE  Loose(t, {n}, n, n)
BY DEF Loose, Mirrors, SiblingsMirror, Tree

(***************************************************************************)
(* The children taken off a fragment are a loose chain.                    *)
(***************************************************************************)
LEMMA UnhookLoose ==
  ASSUME NEW t \in Tree, NEW f \in Node, Mirrors(t), t.first[f] # Null,
         NEW u \in Tree, IsUnhook(t, f, u)
  PROVE  Loose(u, Kids(t, f), t.first[f], t.last[f]) /\ EndsMirror(u)
<1>1. t.first[f] \in Kids(t, f) /\ t.last[f] \in Kids(t, f)
  BY DEF Mirrors, EndsMirror, Kids, Tree
<1>2. ASSUME NEW m \in Kids(t, f)
      PROVE  /\ u.parent[m] = Null
             /\ IF m = t.first[f] THEN u.prev[m] = Null
                ELSE u.prev[m] \in Kids(t, f) /\ u.next[u.prev[m]] = m
             /\ IF m = t.last[f] THEN u.next[m] = Null
                ELSE u.next[m] \in Kids(t, f) /\ u.prev[u.next[m]] = m
  BY DEF IsUnhook, Mirrors, SiblingsMirror, EndsMirror, Kids, Tree
<1>3. ASSUME NEW m \in Node \ Kids(t, f)
      PROVE  /\ u.next[m] # Null => /\ u.next[m] \notin Kids(t, f)
                                   /\ u.prev[u.next[m]] = m
                                   /\ u.parent[u.next[m]] = u.parent[m]
             /\ u.prev[m] # Null => /\ u.prev[m] \notin Kids(t, f)
                                   /\ u.next[u.prev[m]] = m
                                   /\ u.parent[u.prev[m]] = u.parent[m]
             /\ u.parent[m] = Null => u.prev[m] = Null /\ u.next[m] = Null
  BY DEF IsUnhook, Mirrors, SiblingsMirror, Kids, Tree
<1>4. EndsMirror(u)
  <2>. SUFFICES ASSUME NEW m \in Node
                PROVE  /\ u.first[m] # Null => u.parent[u.first[m]] = m /\ u.prev[u.first[m]] = Null
                       /\ u.last[m] # Null => u.parent[u.last[m]] = m /\ u.next[u.last[m]] = Null
                       /\ u.first[m] = Null <=> u.last[m] = Null
                       /\ u.parent[m] # Null =>
                            /\ u.prev[m] = Null => u.first[u.parent[m]] = m
                            /\ u.next[m] = Null => u.last[u.parent[m]] = m
    BY DEF EndsMirror
  <2>1. u.first[m] # Null => u.parent[u.first[m]] = m /\ u.prev[u.first[m]] = Null
    BY DEF IsUnhook, Mirrors, EndsMirror, Tree
  <2>2. u.last[m] # Null => u.parent[u.last[m]] = m /\ u.next[u.last[m]] = Null
    BY DEF IsUnhook, Mirrors, EndsMirror, Tree
  <2>3. u.first[m] = Null <=> u.last[m] = Null
    BY DEF IsUnhook, Mirrors, EndsMirror, Tree
  <2>4. ASSUME u.parent[m] # Null
        PROVE  /\ u.prev[m] = Null => u.first[u.parent[m]] = m
               /\ u.next[m] = Null => u.last[u.parent[m]] = m
    <3>1. t.parent[m] # f /\ u.parent[m] = t.parent[m] /\ t.parent[m] \in Node
      BY <2>4 DEF IsUnhook, Tree
    <3>2. u.first[t.parent[m]] = t.first[t.parent[m]] /\ u.last[t.parent[m]] = t.last[t.parent[m]]
      BY <3>1 DEF IsUnhook
    <3>3. u.prev[m] = t.prev[m] /\ u.next[m] = t.next[m]
      BY DEF IsUnhook
    <3>. QED
      BY <2>4, <3>1, <3>2, <3>3 DEF Mirrors, EndsMirror
  <2>. QED
    BY <2>1, <2>2, <2>3, <2>4
<1>. QED
  BY <1>1, <1>2, <1>3, <1>4 DEF Loose

LEMMA UnhookChains ==
  ASSUME NEW t \in Tree, NEW f \in Node, NEW u \in Tree, IsUnhook(t, f, u),
         WellFounded(t.parent), WellFounded(t.next)
  PROVE  WellFounded(u.parent) /\ WellFounded(u.next)
BY DEF IsUnhook, WellFounded

(***************************************************************************)
(* The gap insert_detached_chain finds before ref, or at the end.          *)
(***************************************************************************)
LEMMA GapBeforeIsGap ==
  ASSUME NEW t \in Tree, NEW C \in SUBSET Node, NEW p \in Node \ C,
         NEW ref \in Link, EndsMirror(t),
         \A m \in C : t.parent[m] = Null,
         ref # Null => /\ t.parent[ref] = p
                       /\ t.prev[ref] # Null => /\ t.next[t.prev[ref]] = ref
                                                /\ t.parent[t.prev[ref]] = p
  PROVE  GapBefore(t, p, ref) \in Link /\ Gap(t, p, C, GapBefore(t, p, ref), ref)
<1>1. CASE ref = Null
  <2>1. t.last[p] \in Link /\ t.first[p] \in Link
    BY DEF Tree
  <2>2. t.last[p] = Null => t.first[p] = Null
    BY DEF EndsMirror
  <2>3. t.last[p] # Null => t.parent[t.last[p]] = p /\ t.next[t.last[p]] = Null
    BY DEF EndsMirror
  <2>4. t.last[p] # Null => t.last[p] \notin C
    BY <2>3
  <2>. QED
    BY <1>1, <2>1, <2>2, <2>3, <2>4 DEF GapBefore, Gap
<1>2. CASE ref # Null
  <2>1. t.prev[ref] \in Link
    BY <1>2 DEF Tree
  <2>2. t.prev[ref] = Null => t.first[p] = ref
    BY <1>2 DEF EndsMirror
  <2>3. ref \notin C /\ (t.prev[ref] # Null => t.prev[ref] \notin C)
    BY <1>2, <2>1
  <2>. QED
    BY <1>2, <2>1, <2>2, <2>3 DEF GapBefore, Gap
<1>. QED
  BY <1>1, <1>2

(***************************************************************************)
(* A loose chain linked into a gap under a node that is not below it.      *)
(***************************************************************************)
LEMMA LinkGood ==
  ASSUME NEW t \in Tree, NEW C \in SUBSET Node, NEW a \in Node, NEW b \in Node,
         NEW p \in Node, NEW pv \in Link, NEW nx \in Link,
         Loose(t, C, a, b), EndsMirror(t), Gap(t, p, C, pv, nx),
         WellFounded(t.parent), WellFounded(t.next),
         NEW U \in SUBSET Node, p \in U, UpClosed(t, U), U \cap C = {}
  PROVE  LET d == LinkChain(t, p, C, a, b, pv, nx) IN d \in Tree /\ Good(d)
<1>. DEFINE d == LinkChain(t, p, C, a, b, pv, nx)
<1>1. d \in Tree /\ IsLink(t, p, C, a, b, pv, nx, d)
  BY LinkFields
<1>. HIDE DEF d
<1>2. Mirrors(d)
  BY <1>1, LinkMirrors
<1>3. WellFounded(d.parent)
  BY <1>1, LinkParentChain
<1>4. WellFounded(d.next)
  BY <1>1, LinkSiblingChain
<1>. QED
  BY <1>1, <1>2, <1>3, <1>4 DEF Good, d

(***************************************************************************)
(* Single nodes and fragments, linked into a gap of the tree they were     *)
(* taken out of.                                                           *)
(***************************************************************************)
LEMMA LinkOneGood ==
  ASSUME NEW t \in Tree, Good(t), NEW n \in Node, t.parent[n] = Null,
         NEW p \in Node, NEW pv \in Link, NEW nx \in Link, Gap(t, p, {n}, pv, nx),
         NEW U \in SUBSET Node, p \in U, UpClosed(t, U), n \notin U
  PROVE  LinkOne(t, p, n, pv, nx) \in Tree /\ Good(LinkOne(t, p, n, pv, nx))
<1>1. Loose(t, {n}, n, n)
  BY DetachedLoose DEF Good
<1>2. EndsMirror(t) /\ WellFounded(t.parent) /\ WellFounded(t.next)
  BY DEF Good, Mirrors
<1>3. U \cap {n} = {}
  OBVIOUS
<1>4. {n} \in SUBSET Node
  OBVIOUS
<1>. QED
  BY <1>1, <1>2, <1>3, <1>4, LinkGood DEF LinkOne

LEMMA LinkKidsGood ==
  ASSUME NEW t \in Tree, Good(t), NEW f \in Node, t.first[f] # Null,
         NEW u \in Tree, IsUnhook(t, f, u),
         NEW p \in Node, NEW pv \in Link, NEW nx \in Link,
         Gap(u, p, Kids(t, f), pv, nx),
         NEW U \in SUBSET Node, p \in U, UpClosed(t, U), f \notin U
  PROVE  LET d == LinkChain(u, p, Kids(t, f), t.first[f], t.last[f], pv, nx)
         IN  d \in Tree /\ Good(d)
<1>1. Loose(u, Kids(t, f), t.first[f], t.last[f]) /\ EndsMirror(u)
  BY UnhookLoose DEF Good
<1>2. WellFounded(u.parent) /\ WellFounded(u.next)
  BY UnhookChains DEF Good
<1>3. UpClosed(u, U) /\ U \cap Kids(t, f) = {}
  BY DEF UpClosed, IsUnhook, Kids
<1>4. Kids(t, f) \in SUBSET Node /\ t.first[f] \in Node /\ t.last[f] \in Node
  BY <1>1 DEF Kids, Loose
<1>. QED
  BY <1>1, <1>2, <1>3, <1>4, LinkGood

-----------------------------------------------------------------------------
(***************************************************************************)
(* What validation leaves to the mutation phase: a set that holds p and    *)
(* its ancestors and not c.  A node without children needs no walk.        *)
(***************************************************************************)
LEMMA NotBelow ==
  ASSUME NEW t \in Tree, Good(t), NEW p \in Node, NEW c \in Node, p # c,
         ~ (t.first[c] # Null /\ IsDescendantOf(t, p, c))
  PROVE  \E U \in SUBSET Node : p \in U /\ UpClosed(t, U) /\ c \notin U
<1>1. CASE t.first[c] = Null
  <2>1. \A m \in Node : t.parent[m] # c
    BY <1>1, ParentHasFirst DEF Good
  <2>2. UpClosed(t, Node \ {c})
    BY <2>1 DEF UpClosed, Tree
  <2>. QED
    BY <2>2
<1>2. CASE ~ IsDescendantOf(t, p, c)
  BY <1>2 DEF IsDescendantOf
<1>. QED
  BY <1>1, <1>2

LEMMA NoShortCycle ==
  ASSUME NEW t \in Tree, Good(t), NEW m \in Node
  PROVE  /\ t.next[m] # m /\ t.prev[m] # m
         /\ \A n \in Node : ~ (t.next[m] = n /\ t.next[n] = m)
<1>1. t.next[m] # m
  <2>1. {m} \in SUBSET Node /\ {m} # {}
    OBVIOUS
  <2>. QED
    BY <2>1 DEF Good, WellFounded
<1>2. ASSUME NEW n \in Node PROVE ~ (t.next[m] = n /\ t.next[n] = m)
  <2>1. {m, n} \in SUBSET Node /\ {m, n} # {}
    OBVIOUS
  <2>2. PICK k \in {m, n} : t.next[k] \notin {m, n}
    BY <2>1 DEF Good, WellFounded
  <2>. QED
    BY <2>2
<1>3. t.prev[m] # m
  BY <1>1 DEF Good, Mirrors, SiblingsMirror
<1>. QED
  BY <1>1, <1>2, <1>3

(***************************************************************************)
(* detach opens no way up out of a closed set.                             *)
(***************************************************************************)
LEMMA DetachUpClosed ==
  ASSUME NEW t \in Tree, NEW n \in Node, NEW U \in SUBSET Node, UpClosed(t, U)
  PROVE  UpClosed(Detach(t, n), U)
<1>1. IsDetach(t, n, Detach(t, n))
  BY DetachFields
<1>2. \A m \in Node : Detach(t, n).parent[m] \in {Null, t.parent[m]}
  BY <1>1 DEF IsDetach
<1>. QED
  BY <1>2 DEF UpClosed

(***************************************************************************)
(* pre_insert of an ordinary node and of a fragment.                       *)
(***************************************************************************)
LEMMA InsertOneGood ==
  ASSUME NEW t \in Tree, Good(t), NEW p \in Node, NEW c \in Node, p # c,
         t.parent[c] = Null,
         NEW ref \in Link, ref # Null => t.parent[ref] = p,
         NEW U \in SUBSET Node, p \in U, UpClosed(t, U), c \notin U
  PROVE  LET d == LinkOne(t, p, c, GapBefore(t, p, ref), ref)
         IN  d \in Tree /\ Good(d)
<1>1. ref # Null => /\ t.parent[ref] = p
                    /\ t.prev[ref] # Null => /\ t.next[t.prev[ref]] = ref
                                             /\ t.parent[t.prev[ref]] = p
  BY DEF Good, Mirrors, SiblingsMirror
<1>2. p \in Node \ {c} /\ {c} \in SUBSET Node /\ \A m \in {c} : t.parent[m] = Null
  OBVIOUS
<1>3. EndsMirror(t)
  BY DEF Good, Mirrors
<1>4. GapBefore(t, p, ref) \in Link /\ Gap(t, p, {c}, GapBefore(t, p, ref), ref)
  BY <1>1, <1>2, <1>3, GapBeforeIsGap
<1>. QED
  BY <1>4, LinkOneGood

LEMMA InsertKidsGood ==
  ASSUME NEW t \in Tree, Good(t), NEW p \in Node, NEW f \in Node, p # f,
         t.first[f] # Null,
         NEW ref \in Link, ref # Null => t.parent[ref] = p,
         NEW U \in SUBSET Node, p \in U, UpClosed(t, U), f \notin U
  PROVE  LET u == Unhook(t, f)
             d == LinkChain(u, p, Kids(t, f), t.first[f], t.last[f],
                            GapBefore(u, p, ref), ref)
         IN  d \in Tree /\ Good(d)
<1>. DEFINE u == Unhook(t, f)
<1>1. u \in Tree /\ IsUnhook(t, f, u)
  BY UnhookFields
<1>. HIDE DEF u
<1>2. EndsMirror(u)
  BY <1>1, UnhookLoose DEF Good
<1>3. \A m \in Kids(t, f) : u.parent[m] = Null
  BY <1>1 DEF Kids, IsUnhook
<1>4. p \in Node \ Kids(t, f) /\ Kids(t, f) \in SUBSET Node
  BY DEF UpClosed, Kids
<1>5. ref # Null => /\ u.parent[ref] = p
                    /\ u.prev[ref] # Null => /\ u.next[u.prev[ref]] = ref
                                             /\ u.parent[u.prev[ref]] = p
  BY <1>1 DEF Good, Mirrors, SiblingsMirror, IsUnhook, Tree
<1>6. GapBefore(u, p, ref) \in Link
        /\ Gap(u, p, Kids(t, f), GapBefore(u, p, ref), ref)
  BY <1>1, <1>2, <1>3, <1>4, <1>5, GapBeforeIsGap
<1>7. LET d == LinkChain(u, p, Kids(t, f), t.first[f], t.last[f],
                         GapBefore(u, p, ref), ref)
      IN  d \in Tree /\ Good(d)
  BY <1>1, <1>6, LinkKidsGood
<1>. QED
  BY <1>7 DEF u

LEMMA InsertGood ==
  ASSUME NEW t \in Tree, Good(t), NEW p \in Node, NEW c \in Node, p # c,
         ~ (t.first[c] # Null /\ IsDescendantOf(t, p, c)),
         NEW ref \in Link, ref # c, ref # Null => t.parent[ref] = p,
         IsFragment(c) => t.first[c] # Null
  PROVE  Inserted(t, p, c, ref) \in Tree /\ Good(Inserted(t, p, c, ref))
<1>1. PICK U \in SUBSET Node : p \in U /\ UpClosed(t, U) /\ c \notin U
  BY NotBelow
<1>2. CASE IsFragment(c)
  BY <1>1, <1>2, InsertKidsGood DEF Inserted
<1>3. CASE ~ IsFragment(c)
  <2>. DEFINE u == IF t.parent[c] = Null THEN t ELSE Detach(t, c)
  <2>1. u \in Tree /\ Good(u) /\ UpClosed(u, U)
    BY <1>1, DetachGood, DetachUpClosed
  <2>2. u.parent[c] = Null /\ (ref # Null => u.parent[ref] = p)
    BY DetachFields DEF IsDetach
  <2>3. LET d == LinkOne(u, p, c, GapBefore(u, p, ref), ref) IN d \in Tree /\ Good(d)
    <3>. HIDE DEF u
    <3>. QED
      BY <1>1, <2>1, <2>2, InsertOneGood
  <2>. QED
    BY <1>3, <2>3 DEF Inserted
<1>. QED
  BY <1>2, <1>3

-----------------------------------------------------------------------------
(***************************************************************************)
(* replace_child: the anchors chosen before c and n are detached are the   *)
(* two sides of one gap afterwards, also when n is a neighbour of c.       *)
(***************************************************************************)
LEMMA ReplaceAnchorsAreGap ==
  ASSUME NEW t \in Tree, Good(t), NEW p \in Node, NEW c \in Node, NEW n \in Node,
         t.parent[c] = p, n # c, n # p,
         NEW u \in Tree, IsDetach(t, c, u), NEW w \in Tree, IsDetach(u, n, w),
         NEW q \in Link, q = IF n = t.prev[c] THEN t.prev[n] ELSE t.prev[c],
         NEW r \in Link, r = IF n = t.next[c] THEN t.next[n] ELSE t.next[c]
  PROVE  Gap(w, p, {n}, q, r)
<1>. USE DEF IsDetach, Mirrors, SiblingsMirror, Tree
<1>1. /\ t.prev[c] # c /\ t.next[c] # c /\ t.prev[n] # n /\ t.next[n] # n
      /\ ~ (t.next[c] = n /\ t.next[n] = c)
  BY NoShortCycle
<1>2. SiblingsMirror(t) /\ EndsMirror(t)
  BY DEF Good
<1>3. ~ (n = t.prev[c] /\ n = t.next[c])
  BY <1>1, <1>2
<1>4. q # n /\ r # n /\ q # c /\ r # c
  BY <1>1, <1>2, <1>3
<1>5. q # Null => w.parent[q] = p
  BY <1>2, <1>4
<1>6. r # Null => w.parent[r] = p
  BY <1>2, <1>4
<1>7. q # Null => w.next[q] = r
  BY <1>1, <1>2, <1>3, <1>4
<1>8. r # Null => w.prev[r] = q
  BY <1>1, <1>2, <1>3, <1>4
<1>9. q = Null => w.first[p] = r
  BY <1>1, <1>2, <1>3, <1>4 DEF EndsMirror
<1>10. r = Null => w.last[p] = q
  BY <1>1, <1>2, <1>3, <1>4 DEF EndsMirror
<1>. QED
  BY <1>4, <1>5, <1>6, <1>7, <1>8, <1>9, <1>10 DEF Gap

LEMMA ReplaceGood ==
  ASSUME NEW t \in Tree, Good(t), NEW p \in Node, NEW c \in Node, NEW n \in Node,
         t.parent[c] = p, n # c, n # p, ~ IsDescendantOf(t, p, n),
         IsFragment(n) => t.parent[n] = Null
  PROVE  Replaced(t, p, c, n) \in Tree /\ Good(Replaced(t, p, c, n))
<1>. DEFINE u == Detach(t, c)
            q == ReplaceAnchors(t, c, n).prev
            r == ReplaceAnchors(t, c, n).next
<1>1. u \in Tree /\ IsDetach(t, c, u) /\ Good(u)
  BY DetachFields, DetachGood
<1>2. PICK U \in SUBSET Node : p \in U /\ UpClosed(t, U) /\ n \notin U
  BY NotBelow
<1>3. UpClosed(u, U)
  BY <1>2, DetachUpClosed
<1>4. /\ q \in Link /\ q = IF n = t.prev[c] THEN t.prev[n] ELSE t.prev[c]
      /\ r \in Link /\ r = IF n = t.next[c] THEN t.next[n] ELSE t.next[c]
  BY DEF ReplaceAnchors, Tree
<1>. HIDE DEF u, q, r
<1>5. CASE ~ IsFragment(n)
  <2>. DEFINE w == Detach(u, n)
  <2>1. w \in Tree /\ IsDetach(u, n, w) /\ Good(w) /\ UpClosed(w, U) /\ w.parent[n] = Null
    <3>1. w \in Tree /\ IsDetach(u, n, w)
      BY <1>1, DetachFields
    <3>2. Good(w)
      BY <1>1, DetachGood
    <3>3. UpClosed(w, U)
      BY <1>1, <1>3, DetachUpClosed
    <3>4. w.parent[n] = Null
      BY <3>1 DEF IsDetach
    <3>. HIDE DEF w
    <3>. QED
      BY <3>1, <3>2, <3>3, <3>4
  <2>. HIDE DEF w
  <2>2. Gap(w, p, {n}, q, r)
    BY <1>1, <1>4, <2>1, ReplaceAnchorsAreGap
  <2>3. LinkOne(w, p, n, q, r) \in Tree /\ Good(LinkOne(w, p, n, q, r))
    BY <1>2, <1>4, <2>1, <2>2, LinkOneGood
  <2>. QED
    BY <1>5, <2>3 DEF Replaced, u, w, q, r
<1>6. CASE IsFragment(n) /\ u.first[n] = Null
  BY <1>1, <1>6 DEF Replaced, u
<1>7. CASE IsFragment(n) /\ u.first[n] # Null
  <2>. DEFINE w == Unhook(u, n)
              d == LinkChain(w, p, Kids(u, n), u.first[n], u.last[n], q, r)
  <2>1. w \in Tree /\ IsUnhook(u, n, w)
    BY <1>1, UnhookFields
  <2>. HIDE DEF w
  <2>2. Gap(w, p, Kids(u, n), q, r)
    <3>1. SiblingsMirror(t) /\ EndsMirror(t)
      BY DEF Good, Mirrors
    <3>2. t.prev[c] # c /\ t.next[c] # c
      BY NoShortCycle
    <3>3. q = t.prev[c] /\ r = t.next[c]
      BY <1>4, <1>7, <3>1 DEF SiblingsMirror
    <3>4. p \notin Kids(u, n)
      BY <1>2, <1>3 DEF UpClosed, Kids
    <3>5. q # Null => /\ q \in Node \ Kids(u, n)
                      /\ w.parent[q] = p /\ w.next[q] = r
      BY <1>1, <1>4, <2>1, <3>1, <3>2, <3>3 DEF SiblingsMirror, IsDetach, IsUnhook, Kids, Tree
    <3>6. r # Null => /\ r \in Node \ Kids(u, n)
                      /\ w.parent[r] = p /\ w.prev[r] = q
      BY <1>1, <1>4, <2>1, <3>1, <3>2, <3>3 DEF SiblingsMirror, IsDetach, IsUnhook, Kids, Tree
    <3>7. q = Null => w.first[p] = r
      <4>1. q = Null => t.first[p] = c
        BY <3>1, <3>3 DEF EndsMirror
      <4>2. q = Null => u.first[p] = r
        BY <1>1, <3>3, <4>1 DEF IsDetach
      <4>. QED
        BY <2>1, <4>2 DEF IsUnhook
    <3>8. r = Null => w.last[p] = q
      <4>1. r = Null => t.last[p] = c
        BY <3>1, <3>3 DEF EndsMirror
      <4>2. r = Null => u.last[p] = q
        BY <1>1, <3>3, <4>1 DEF IsDetach
      <4>. QED
        BY <2>1, <4>2 DEF IsUnhook
    <3>. QED
      BY <3>4, <3>5, <3>6, <3>7, <3>8 DEF Gap
  <2>3. d \in Tree /\ Good(d)
    BY <1>1, <1>2, <1>3, <1>4, <1>7, <2>1, <2>2, LinkKidsGood
  <2>. QED
    BY <1>7, <2>3 DEF Replaced, u, w, q, r
<1>. QED
  BY <1>5, <1>6, <1>7

(***************************************************************************)
(* set_text_content: the cleared list and the new text node in it.         *)
(***************************************************************************)
LEMMA ClearedGood ==
  ASSUME NEW t \in Tree, Good(t), NEW p \in Node
  PROVE  Cleared(t, p) \in Tree /\ Good(Cleared(t, p))
<1>. DEFINE d == Cleared(t, p)
<1>1. d \in Tree /\ IsCleared(t, p, d)
  BY ClearedFields
<1>. HIDE DEF d
<1>. USE DEF IsCleared, Tree
<1>2. SiblingsMirror(t) /\ EndsMirror(t)
  BY DEF Good, Mirrors
<1>3. SiblingsMirror(d)
  <2>. SUFFICES ASSUME NEW m \in Node
                PROVE  /\ d.next[m] # Null =>
                            d.prev[d.next[m]] = m /\ d.parent[d.next[m]] = d.parent[m]
                       /\ d.prev[m] # Null =>
                            d.next[d.prev[m]] = m /\ d.parent[d.prev[m]] = d.parent[m]
                       /\ d.parent[m] = Null => d.prev[m] = Null /\ d.next[m] = Null
    BY DEF SiblingsMirror
  <2>1. d.next[m] # Null => d.prev[d.next[m]] = m /\ d.parent[d.next[m]] = d.parent[m]
    BY <1>1, <1>2 DEF SiblingsMirror
  <2>2. d.prev[m] # Null => d.next[d.prev[m]] = m /\ d.parent[d.prev[m]] = d.parent[m]
    BY <1>1, <1>2 DEF SiblingsMirror
  <2>3. d.parent[m] = Null => d.prev[m] = Null /\ d.next[m] = Null
    BY <1>1, <1>2 DEF SiblingsMirror
  <2>. QED
    BY <2>1, <2>2, <2>3
<1>4. EndsMirror(d)
  <2>. SUFFICES ASSUME NEW m \in Node
                PROVE  /\ d.first[m] # Null => d.parent[d.first[m]] = m /\ d.prev[d.first[m]] = Null
                       /\ d.last[m] # Null => d.parent[d.last[m]] = m /\ d.next[d.last[m]] = Null
                       /\ d.first[m] = Null <=> d.last[m] = Null
                       /\ d.parent[m] # Null =>
                            /\ d.prev[m] = Null => d.first[d.parent[m]] = m
                            /\ d.next[m] = Null => d.last[d.parent[m]] = m
    BY DEF EndsMirror
  <2>1. d.first[m] # Null => d.parent[d.first[m]] = m /\ d.prev[d.first[m]] = Null
    BY <1>1, <1>2 DEF EndsMirror
  <2>2. d.last[m] # Null => d.parent[d.last[m]] = m /\ d.next[d.last[m]] = Null
    BY <1>1, <1>2 DEF EndsMirror
  <2>3. d.first[m] = Null <=> d.last[m] = Null
    BY <1>1, <1>2 DEF EndsMirror
  <2>4. d.parent[m] # Null =>
          /\ d.prev[m] = Null => d.first[d.parent[m]] = m
          /\ d.next[m] = Null => d.last[d.parent[m]] = m
    BY <1>1, <1>2 DEF EndsMirror
  <2>. QED
    BY <2>1, <2>2, <2>3, <2>4
<1>5. WellFounded(d.parent) /\ WellFounded(d.next)
  BY <1>1 DEF Good, WellFounded
<1>. QED
  BY <1>1, <1>3, <1>4, <1>5 DEF Good, Mirrors, d

-----------------------------------------------------------------------------
(***************************************************************************)
(* Who gets which parent: nobody but what the call moves gets a new one.   *)
(***************************************************************************)
LEMMA InsertedParents ==
  ASSUME NEW t \in Tree, Good(t), NEW p \in Node, NEW c \in Node, NEW ref \in Link,
         IsFragment(c) => t.first[c] # Null, NEW m \in Node
  PROVE  \/ Inserted(t, p, c, ref).parent[m] \in {Null, t.parent[m]}
         \/ /\ Inserted(t, p, c, ref).parent[m] = p
            /\ (m = c /\ ~ IsFragment(c)) \/ t.parent[m] = c
<1>1. CASE IsFragment(c)
  <2>1. Kids(t, c) \in SUBSET Node
    BY DEF Kids
  <2>2. ASSUME m \notin Kids(t, c)
        PROVE  Unhook(t, c).parent[m] \in {Null, t.parent[m]}
    <3>1. IsUnhook(t, c, Unhook(t, c))
      BY UnhookFields
    <3>. QED
      BY <3>1 DEF IsUnhook
  <2>. QED
    BY <1>1, <2>1, <2>2 DEF Inserted, LinkChain, Kids
<1>2. CASE ~ IsFragment(c)
  <2>1. Detach(t, c).parent[m] \in {Null, t.parent[m]}
    <3>1. IsDetach(t, c, Detach(t, c))
      BY DetachFields
    <3>. QED
      BY <3>1 DEF IsDetach
  <2>. QED
    BY <1>2, <2>1 DEF Inserted, LinkOne, LinkChain
<1>. QED
  BY <1>1, <1>2

LEMMA ReplacedParents ==
  ASSUME NEW t \in Tree, NEW p \in Node, NEW c \in Node, NEW n \in Node, NEW m \in Node
  PROVE  \/ Replaced(t, p, c, n).parent[m] \in {Null, t.parent[m]}
         \/ /\ Replaced(t, p, c, n).parent[m] = p
            /\ (m = n /\ ~ IsFragment(n)) \/ t.parent[m] = n
<1>. DEFINE u == Detach(t, c)
<1>1. u \in Tree /\ u.parent[m] \in {Null, t.parent[m]}
  <2>1. u \in Tree /\ IsDetach(t, c, u)
    BY DetachFields
  <2>. HIDE DEF u
  <2>. QED
    BY <2>1 DEF IsDetach
<1>. HIDE DEF u
<1>2. CASE ~ IsFragment(n)
  <2>1. Detach(u, n).parent[m] \in {Null, u.parent[m]}
    <3>1. IsDetach(u, n, Detach(u, n))
      BY <1>1, DetachFields
    <3>. QED
      BY <3>1 DEF IsDetach
  <2>. QED
    BY <1>1, <1>2, <2>1 DEF Replaced, LinkOne, LinkChain, u
<1>3. CASE IsFragment(n)
  <2>1. ASSUME m \notin Kids(u, n)
        PROVE  Unhook(u, n).parent[m] \in {Null, u.parent[m]}
    <3>1. IsUnhook(u, n, Unhook(u, n))
      BY <1>1, UnhookFields
    <3>. QED
      BY <3>1 DEF IsUnhook
  <2>2. m \in Kids(u, n) => t.parent[m] = n
    BY <1>1 DEF Kids
  <2>. QED
    BY <1>1, <1>3, <2>1, <2>2 DEF Replaced, LinkChain, u
<1>. QED
  BY <1>2, <1>3

-----------------------------------------------------------------------------
(***************************************************************************)
(* The inductive invariant.  Kinds are part of it because the surgery      *)
(* relies on them: a fragment that had a parent would leave it while its   *)
(* children move, and a fresh text node linked into a list must be nobody's*)
(* parent.                                                                 *)
(***************************************************************************)
Typed ==
  /\ tree \in Tree
  /\ live \in SUBSET Node
  /\ result \in {"ok", "error"}

IInv == Typed /\ Good(tree) /\ KindsRespected

LEMMA IInvInit == Init => IInv
<1>. SUFFICES ASSUME Init PROVE IInv
  OBVIOUS
<1>1. Typed
  BY DEF Init, Typed, EmptyTree, NoLinks, Tree
<1>2. tree.parent = NoLinks /\ tree.first = NoLinks /\ tree.last = NoLinks
        /\ tree.prev = NoLinks /\ tree.next = NoLinks
  BY DEF Init, EmptyTree
<1>3. Good(tree)
  BY <1>2 DEF NoLinks, Good, Mirrors, SiblingsMirror, EndsMirror, WellFounded
<1>4. KindsRespected
  BY <1>2 DEF NoLinks, KindsRespected
<1>. QED
  BY <1>1, <1>3, <1>4 DEF IInv

LEMMA PreInsertKeeps ==
  ASSUME IInv, NEW p \in Node, NEW c \in Node, NEW ref \in Link, PreInsert(p, c, ref)
  PROVE  IInv'
<1>. USE DEF IInv
<1>1. CASE InsertRejected(p, c, ref) /\ Rejected
  BY <1>1 DEF Rejected, Typed, KindsRespected, MayBeParent
<1>2. CASE ~ InsertRejected(p, c, ref) /\ InsertInPlace(p, c, ref)
           /\ result' = "ok" /\ tree' = tree /\ live' = live
  BY <1>2 DEF Typed, KindsRespected, MayBeParent
<1>3. CASE ~ InsertRejected(p, c, ref) /\ ~ InsertInPlace(p, c, ref)
           /\ result' = "ok" /\ tree' = Inserted(tree, p, c, ref) /\ live' = live
  <2>1. /\ MayBeParent(p) /\ c \in live /\ Kind[c] # "Document" /\ p # c
        /\ ~ (tree.first[c] # Null /\ IsDescendantOf(tree, p, c))
        /\ ref # c /\ (ref # Null => tree.parent[ref] = p)
        /\ IsFragment(c) => tree.first[c] # Null
    BY <1>3 DEF InsertRejected, InsertInPlace
  <2>2. tree \in Tree
    BY DEF Typed
  <2>3. tree' \in Tree /\ Good(tree')
    BY <1>3, <2>1, <2>2, InsertGood
  <2>4. Typed'
    BY <1>3, <2>3 DEF Typed
  <2>5. KindsRespected'
    <3>. SUFFICES ASSUME NEW m \in Node, tree'.parent[m] # Null
                  PROVE  /\ m \in live /\ Kind[m] \in {"Element", "Text"}
                         /\ MayBeParent(tree'.parent[m])
      BY <1>3 DEF KindsRespected, MayBeParent
    <3>1. \/ tree'.parent[m] = tree.parent[m]
          \/ tree'.parent[m] = p /\ ((m = c /\ ~ IsFragment(c)) \/ tree.parent[m] = c)
      BY <1>3, <2>1, <2>2, InsertedParents
    <3>2. Kind[c] \in NodeType
      BY KindAssumption
    <3>3. m = c /\ ~ IsFragment(c) => m \in live /\ Kind[m] \in {"Element", "Text"}
      BY <2>1, <3>2 DEF IsFragment, NodeType
    <3>. QED
      BY <2>1, <3>1, <3>3 DEF KindsRespected
  <2>. QED
    BY <2>3, <2>4, <2>5
<1>. QED
  BY <1>1, <1>2, <1>3 DEF PreInsert, Accepted

LEMMA RemoveChildKeeps ==
  ASSUME IInv, NEW p \in Node, NEW c \in Node, RemoveChild(p, c)
  PROVE  IInv'
<1>. USE DEF IInv
<1>1. CASE Rejected
  BY <1>1 DEF Rejected, Typed, KindsRespected, MayBeParent
<1>2. CASE result' = "ok" /\ tree' = Detach(tree, c) /\ live' = live
  <2>1. tree' \in Tree /\ IsDetach(tree, c, tree') /\ Good(tree')
    BY <1>2, DetachFields, DetachGood DEF Typed
  <2>2. Typed'
    BY <1>2, <2>1 DEF Typed
  <2>3. KindsRespected'
    BY <1>2, <2>1 DEF KindsRespected, MayBeParent, IsDetach
  <2>. QED
    BY <2>1, <2>2, <2>3
<1>. QED
  BY <1>1, <1>2 DEF RemoveChild, Accepted

LEMMA ReplaceChildKeeps ==
  ASSUME IInv, NEW p \in Node, NEW c \in Node, NEW n \in Node, ReplaceChild(p, c, n)
  PROVE  IInv'
<1>. USE DEF IInv
<1>1. CASE Rejected
  BY <1>1 DEF Rejected, Typed, KindsRespected, MayBeParent
<1>2. CASE result' = "ok" /\ tree' = tree /\ live' = live
  BY <1>2 DEF Typed, KindsRespected, MayBeParent
<1>3. CASE ~ ReplaceRejected(p, c, n) /\ n # c
           /\ result' = "ok" /\ tree' = Replaced(tree, p, c, n) /\ live' = live
  <2>1. /\ tree.parent[c] = p /\ c \in live
        /\ n \in live /\ Kind[n] # "Document"
        /\ n # p /\ ~ IsDescendantOf(tree, p, n)
    BY <1>3 DEF ReplaceRejected, NotChildOf
  <2>2. tree \in Tree /\ MayBeParent(p)
    BY <2>1 DEF Typed, KindsRespected
  <2>3. IsFragment(n) => tree.parent[n] = Null
    BY DEF IsFragment, KindsRespected
  <2>4. tree' \in Tree /\ Good(tree')
    BY <1>3, <2>1, <2>2, <2>3, ReplaceGood
  <2>5. Typed'
    BY <1>3, <2>4 DEF Typed
  <2>6. KindsRespected'
    <3>. SUFFICES ASSUME NEW m \in Node, tree'.parent[m] # Null
                  PROVE  /\ m \in live /\ Kind[m] \in {"Element", "Text"}
                         /\ MayBeParent(tree'.parent[m])
      BY <1>3 DEF KindsRespected, MayBeParent
    <3>1. \/ tree'.parent[m] = tree.parent[m]
          \/ tree'.parent[m] = p /\ ((m = n /\ ~ IsFragment(n)) \/ tree.parent[m] = n)
      BY <1>3, <2>2, ReplacedParents
    <3>2. Kind[n] \in NodeType
      BY KindAssumption
    <3>3. m = n /\ ~ IsFragment(n) => m \in live /\ Kind[m] \in {"Element", "Text"}
      BY <2>1, <3>2 DEF IsFragment, NodeType
    <3>. QED
      BY <2>2, <3>1, <3>3 DEF KindsRespected
  <2>. QED
    BY <2>4, <2>5, <2>6
<1>. QED
  BY <1>1, <1>2, <1>3 DEF ReplaceChild, Accepted

LEMMA SetTextContentKeeps ==
  ASSUME IInv, NEW p \in Node, NEW x \in Link, SetTextContent(p, x)
  PROVE  IInv'
<1>. DEFINE t == Cleared(tree, p)
<1>. USE DEF IInv
<1>1. tree \in Tree /\ t \in Tree /\ Good(t) /\ IsCleared(tree, p, t)
  BY ClearedFields, ClearedGood DEF Typed
<1>. HIDE DEF t
<1>2. \A m \in Node : t.parent[m] \in {Null, tree.parent[m]}
  BY <1>1 DEF IsCleared
<1>3. CASE x = Null
  <2>1. tree' = t /\ live' = live /\ result' = "ok"
    BY <1>3, NullAssumption DEF SetTextContent, Accepted, Fresh, t
  <2>2. Typed'
    BY <1>1, <2>1 DEF Typed
  <2>3. KindsRespected'
    BY <1>2, <2>1 DEF KindsRespected, MayBeParent
  <2>. QED
    BY <1>1, <2>1, <2>2, <2>3
<1>4. CASE x # Null
  <2>1. /\ MayBeParent(p) /\ x \in Node \ live /\ Kind[x] = "Text"
        /\ tree' = LinkOne(t, p, x, Null, Null)
        /\ live' = live \cup {x} /\ result' = "ok"
    BY <1>4 DEF SetTextContent, Accepted, Fresh, t
  <2>2. x # p /\ p \in live
    BY <2>1 DEF MayBeParent
  <2>3. t.parent[x] = Null /\ \A m \in Node : t.parent[m] # x
    BY <1>2, <2>1 DEF KindsRespected, MayBeParent
  <2>4. UpClosed(t, Node \ {x})
    BY <1>1, <2>3 DEF UpClosed, Tree
  <2>5. Gap(t, p, {x}, Null, Null)
    BY <1>1, <2>2 DEF Gap, IsCleared
  <2>6. tree' \in Tree /\ Good(tree')
    <3>1. p \in Node \ {x} /\ x \notin Node \ {x} /\ Node \ {x} \in SUBSET Node
      BY <2>2
    <3>. QED
      BY <1>1, <2>1, <2>3, <2>4, <2>5, <3>1, LinkOneGood
  <2>7. Typed'
    BY <2>1, <2>6 DEF Typed
  <2>8. KindsRespected'
    <3>1. \A m \in Node : tree'.parent[m] = IF m = x THEN p ELSE t.parent[m]
      BY <2>1 DEF LinkOne, LinkChain
    <3>. QED
      BY <1>2, <2>1, <3>1 DEF KindsRespected, MayBeParent
  <2>. QED
    BY <2>6, <2>7, <2>8
<1>. QED
  BY <1>3, <1>4

LEMMA SplitTextKeeps ==
  ASSUME IInv, NEW n \in Node, NEW x \in Node, SplitText(n, x)
  PROVE  IInv'
<1>. USE DEF IInv
<1>1. /\ n \in live /\ x \in Node \ live /\ Kind[x] = "Text"
      /\ live' = live \cup {x} /\ result' = "ok"
      /\ tree' = IF tree.parent[n] = Null THEN tree
                 ELSE LinkOne(tree, tree.parent[n], x, n, tree.next[n])
  BY DEF SplitText, Fresh, Accepted
<1>2. CASE tree.parent[n] = Null
  BY <1>1, <1>2 DEF Typed, KindsRespected, MayBeParent
<1>3. CASE tree.parent[n] # Null
  <2>. DEFINE p == tree.parent[n]
  <2>1. tree \in Tree /\ p \in Node /\ MayBeParent(p) /\ p # x
    BY <1>1, <1>3 DEF Typed, Tree, KindsRespected, MayBeParent
  <2>2. tree.parent[x] = Null /\ \A m \in Node : tree.parent[m] # x
    BY <1>1 DEF KindsRespected, MayBeParent
  <2>3. UpClosed(tree, Node \ {x})
    BY <2>1, <2>2 DEF UpClosed, Tree
  <2>4. tree.next[n] \in Link /\ tree.next[n] # x /\ n # x
    <3>1. tree.next[n] # Null => tree.parent[tree.next[n]] = p
      BY DEF Good, Mirrors, SiblingsMirror
    <3>. QED
      BY <1>1, <1>3, <2>1, <2>2, <3>1 DEF Tree
  <2>5. Gap(tree, p, {x}, n, tree.next[n])
    <3>1. tree.next[n] = Null => tree.last[p] = n
      BY <1>3 DEF Good, Mirrors, EndsMirror
    <3>2. tree.next[n] # Null =>
            tree.parent[tree.next[n]] = p /\ tree.prev[tree.next[n]] = n
      BY DEF Good, Mirrors, SiblingsMirror
    <3>. QED
      BY <2>1, <2>4, <3>1, <3>2 DEF Gap
  <2>6. tree' \in Tree /\ Good(tree')
    <3>1. p \in Node \ {x} /\ x \notin Node \ {x} /\ Node \ {x} \in SUBSET Node /\ n \in Link
      BY <2>1
    <3>2. tree' = LinkOne(tree, p, x, n, tree.next[n])
      BY <1>1, <1>3
    <3>. HIDE DEF p
    <3>. QED
      BY <2>1, <2>2, <2>3, <2>4, <2>5, <3>1, <3>2, LinkOneGood
  <2>7. Typed'
    BY <1>1, <2>6 DEF Typed
  <2>8. KindsRespected'
    <3>1. \A m \in Node : tree'.parent[m] = IF m = x THEN p ELSE tree.parent[m]
      BY <1>1, <1>3 DEF LinkOne, LinkChain
    <3>. QED
      BY <1>1, <2>1, <3>1 DEF KindsRespected, MayBeParent
  <2>. QED
    BY <2>6, <2>7, <2>8
<1>. QED
  BY <1>2, <1>3

(***************************************************************************)
(* Every call keeps the invariant.                                         *)
(***************************************************************************)
LEMMA IInvStep == IInv /\ [Next]_vars => IInv'
<1>. SUFFICES ASSUME IInv, [Next]_vars PROVE IInv'
  OBVIOUS
<1>1. ASSUME NEW n \in Node, Create(n) PROVE IInv'
  BY <1>1 DEF Create, Accepted, Fresh, IInv, Typed, KindsRespected, MayBeParent
<1>2. ASSUME NEW p \in Node, NEW c \in Node, AppendChild(p, c) PROVE IInv'
  BY <1>2, PreInsertKeeps DEF AppendChild
<1>3. ASSUME NEW p \in Node, NEW c \in Node, NEW ref \in Node, InsertBefore(p, c, ref)
      PROVE  IInv'
  BY <1>3, PreInsertKeeps DEF InsertBefore
<1>4. ASSUME NEW p \in Node, NEW c \in Node, RemoveChild(p, c) PROVE IInv'
  BY <1>4, RemoveChildKeeps
<1>5. ASSUME NEW p \in Node, NEW c \in Node, NEW n \in Node, ReplaceChild(p, c, n)
      PROVE  IInv'
  BY <1>5, ReplaceChildKeeps
<1>6. ASSUME NEW p \in Node, NEW x \in Link, SetTextContent(p, x) PROVE IInv'
  BY <1>6, SetTextContentKeeps
<1>7. ASSUME NEW n \in Node, NEW x \in Node, SplitText(n, x) PROVE IInv'
  BY <1>7, SplitTextKeeps
<1>8. CASE UNCHANGED vars
  BY <1>8 DEF vars, IInv, Typed, KindsRespected, MayBeParent
<1>. QED
  BY <1>1, <1>2, <1>3, <1>4, <1>5, <1>6, <1>7, <1>8 DEF Next

LEMMA Invariance == Spec => []IInv
<1>1. Init => IInv
  BY IInvInit
<1>2. IInv /\ [Next]_vars => IInv'
  BY IInvStep
<1>. QED
  BY <1>1, <1>2, PTL DEF Spec

-----------------------------------------------------------------------------
(***************************************************************************)
(* The relation fields keep their types, and only live handles are linked. *)
(***************************************************************************)
THEOREM TypeCorrect == Spec => []TypeOK
<1>1. IInv => TypeOK
  BY DEF IInv, Typed, TypeOK, KindsRespected
<1>. QED
  BY <1>1, Invariance, PTL

(***************************************************************************)
(* parent, first_child, last_child, previous_sibling and next_sibling      *)
(* mirror each other after every call (the contract of dom/tree.rs).       *)
(***************************************************************************)
THEOREM RelationsAlwaysMirror == Spec => []RelationsMirror
<1>1. IInv => RelationsMirror
  BY DEF IInv, Good, Mirrors, RelationsMirror
<1>. QED
  BY <1>1, Invariance, PTL

(***************************************************************************)
(* No call makes a node its own ancestor or closes a child list into a     *)
(* ring, the shortcut for childless nodes of pre_insert included.          *)
(***************************************************************************)
THEOREM AlwaysAcyclic == Spec => []Acyclic
<1>1. IInv => Acyclic
  BY DEF IInv, Good, Acyclic
<1>. QED
  BY <1>1, Invariance, PTL

(***************************************************************************)
(* Only live nodes are linked, and only where their types allow it.        *)
(***************************************************************************)
THEOREM KindsAlwaysRespected == Spec => []KindsRespected
<1>1. IInv => KindsRespected
  BY DEF IInv
<1>. QED
  BY <1>1, Invariance, PTL
=============================================================================
