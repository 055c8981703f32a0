---------------------------- MODULE ForestProofs ----------------------------
(***************************************************************************)
(* The pointer surgery of the tree mutation API implements the lists of    *)
(* children of DomForest, call by call and step by step.  The walk up the  *)
(* parent chain, capped at the number of live nodes, finds every ancestor  *)
(* there is: a chain longer than the cap would repeat a node, and no chain *)
(* of an acyclic tree does.                                                *)
(***************************************************************************)
EXTENDS MCDomTree, DomTreeProofs, ListProofs, FiniteSetTheorems

USE NullAssumption DEF Link

-----------------------------------------------------------------------------
(***************************************************************************)
(* A run of siblings: each is linked to the next, the last one to e.  The  *)
(* list from n is the run that starts there and ends with Null.            *)
(***************************************************************************)
HeadOr(s, e) == IF s = <<>> THEN e ELSE s[1]
LastOr(s, e) == IF s = <<>> THEN e ELSE s[Len(s)]

Run(t, s, e) == \A i \in DOMAIN s : t.next[s[i]] = IF i = Len(s) THEN e ELSE s[i + 1]

ListFrom(t, n, s) == s \in Seq(Node) /\ HeadOr(s, Null) = n /\ Run(t, s, Null)

LEMMA ListFromNull ==
  ASSUME NEW t PROVE ListFrom(t, Null, <<>>)
BY DEF ListFrom, HeadOr, Run

LEMMA ListFromNode ==
  ASSUME NEW t \in Tree, NEW n \in Node, NEW s, ListFrom(t, t.next[n], s)
  PROVE  ListFrom(t, n, <<n>> \o s)
<1>1. s \in Seq(Node) /\ HeadOr(s, Null) = t.next[n] /\ Run(t, s, Null) /\ Len(s) \in Nat
  BY DEF ListFrom
<1>2. PICK r : r = <<n>> \o s
  OBVIOUS
<1>3. r \in Seq(Node) /\ Len(r) = Len(s) + 1 /\ r[1] = n /\ \A i \in 1 .. Len(s) : r[i + 1] = s[i]
  BY <1>1, <1>2
<1>4. Run(t, r, Null)
  <2>. SUFFICES ASSUME NEW i \in DOMAIN r
                PROVE  t.next[r[i]] = IF i = Len(r) THEN Null ELSE r[i + 1]
    BY DEF Run
  <2>1. CASE i = 1
    <3>1. CASE s = <<>>
      BY <1>1, <1>3, <2>1, <3>1 DEF HeadOr
    <3>2. CASE s # <<>>
      <4>1. 1 \in 1 .. Len(s)
        BY <1>1, <3>2
      <4>. QED
        BY <1>1, <1>3, <2>1, <3>2, <4>1 DEF HeadOr
    <3>. QED
      BY <3>1, <3>2
  <2>2. CASE i # 1
    <3>1. PICK j \in DOMAIN s : j = i - 1 /\ i = j + 1
      BY <1>1, <1>3, <2>2
    <3>2. j \in 1 .. Len(s) /\ r[i] = s[j] /\ (j # Len(s) => r[i + 1] = s[j + 1])
      BY <1>1, <1>3, <3>1
    <3>3. t.next[s[j]] = IF j = Len(s) THEN Null ELSE s[j + 1]
      BY <1>1, <3>1 DEF Run
    <3>4. i = Len(r) <=> j = Len(s)
      BY <1>1, <1>3, <3>1
    <3>. QED
      BY <3>2, <3>3, <3>4
  <2>. QED
    BY <2>1, <2>2
<1>. QED
  BY <1>2, <1>3, <1>4 DEF ListFrom, HeadOr

(***************************************************************************)
(* There is one such list, whatever the links, and it exists if they are   *)
(* well founded.                                                           *)
(***************************************************************************)
Agree(s, r, i) == i \in DOMAIN s => i \in DOMAIN r /\ r[i] = s[i]

LEMMA ListPrefix ==
  ASSUME NEW t, NEW n, NEW s, NEW r, ListFrom(t, n, s), ListFrom(t, n, r)
  PROVE  \A i \in Nat : Agree(s, r, i)
<1>1. /\ s \in Seq(Node) /\ r \in Seq(Node) /\ HeadOr(s, Null) = n /\ HeadOr(r, Null) = n
      /\ Run(t, s, Null) /\ Run(t, r, Null)
  BY DEF ListFrom
<1>2. /\ Len(s) \in Nat /\ Len(r) \in Nat /\ DOMAIN s = 1 .. Len(s) /\ DOMAIN r = 1 .. Len(r)
      /\ (\A i \in DOMAIN s : s[i] # Null) /\ \A i \in DOMAIN r : r[i] # Null
  BY <1>1
<1>0. PICK a \in Nat : a = Len(s) /\ DOMAIN s = 1 .. a
  BY <1>2
<1>8. PICK b \in Nat : b = Len(r) /\ DOMAIN r = 1 .. b
  BY <1>2
<1>. DEFINE T == {j \in Nat : Agree(s, r, j)}
<1>3. 0 \in T
  BY <1>2 DEF Agree
<1>4. Agree(s, r, 1)
  <2>. SUFFICES ASSUME 1 \in DOMAIN s PROVE 1 \in DOMAIN r /\ r[1] = s[1]
    BY DEF Agree
  <2>1. s # <<>> /\ HeadOr(s, Null) = s[1] /\ s[1] # Null
    BY <1>1, <1>2 DEF HeadOr
  <2>2. r # <<>> /\ HeadOr(r, Null) = r[1]
    BY <1>1, <2>1 DEF HeadOr
  <2>. QED
    BY <1>1, <2>1, <2>2
<1>5. ASSUME NEW j \in Nat, j # 0, Agree(s, r, j), j + 1 \in DOMAIN s
      PROVE  j + 1 \in DOMAIN r /\ r[j + 1] = s[j + 1]
  <2>1. j \in DOMAIN s /\ j # Len(s)
    BY <1>0, <1>5
  <2>2. j \in DOMAIN r /\ r[j] = s[j]
    BY <1>5, <2>1 DEF Agree
  <2>3. t.next[s[j]] = s[j + 1] /\ s[j + 1] # Null
    BY <1>1, <1>2, <1>5, <2>1 DEF Run
  <2>4. t.next[r[j]] = IF j = Len(r) THEN Null ELSE r[j + 1]
    BY <1>1, <2>2 DEF Run
  <2>5. j # Len(r) /\ r[j + 1] = s[j + 1]
    BY <2>2, <2>3, <2>4
  <2>6. j + 1 \in DOMAIN r
    BY <1>8, <2>2, <2>5
  <2>. QED
    BY <2>5, <2>6
<1>6. ASSUME NEW j \in T PROVE j + 1 \in T
  BY <1>4, <1>5 DEF Agree
<1>7. T = Nat
  <2>. HIDE DEF T
  <2>1. T \in SUBSET Nat
    BY DEF T
  <2>. QED
    BY <1>3, <1>6, <2>1, SetInduction
<1>. QED
  BY <1>7

LEMMA ListUnique ==
  ASSUME NEW t, NEW n, NEW s, NEW r, ListFrom(t, n, s), ListFrom(t, n, r)
  PROVE  s = r
<1>1. /\ s \in Seq(Node) /\ r \in Seq(Node) /\ Len(s) \in Nat /\ Len(r) \in Nat
      /\ DOMAIN s = 1 .. Len(s) /\ DOMAIN r = 1 .. Len(r)
  BY DEF ListFrom
<1>2. (\A i \in Nat : Agree(s, r, i)) /\ \A i \in Nat : Agree(r, s, i)
  BY ListPrefix
<1>3. \A i \in 1 .. Len(s) : i \in 1 .. Len(r) /\ r[i] = s[i]
  BY <1>1, <1>2 DEF Agree
<1>4. \A i \in 1 .. Len(r) : i \in 1 .. Len(s)
  BY <1>1, <1>2 DEF Agree
<1>5. Len(s) = Len(r)
  <2>1. \A a, b \in Nat : 1 .. a \subseteq 1 .. b /\ 1 .. b \subseteq 1 .. a => a = b
    OBVIOUS
  <2>. QED
    BY <1>1, <1>3, <1>4, <2>1
<1>. QED
  BY <1>1, <1>3, <1>5, ListsEqual

LEMMA ListExists ==
  ASSUME NEW t \in Tree, WellFounded(t.next), NEW n \in Link
  PROVE  \E s : ListFrom(t, n, s)
<1>. DEFINE S == {m \in Node : \A s : ~ ListFrom(t, m, s)}
<1>1. S = {}
  <2>. SUFFICES ASSUME S # {} PROVE FALSE
    OBVIOUS
  <2>1. PICK m \in S : t.next[m] \notin S
    <3>1. S \in SUBSET Node
      OBVIOUS
    <3>. HIDE DEF S
    <3>. QED
      BY <3>1 DEF WellFounded
  <2>2. m \in Node /\ t.next[m] \in Link
    BY DEF Tree
  <2>3. \E s : ListFrom(t, t.next[m], s)
    BY <2>1, <2>2, ListFromNull
  <2>4. \E s : ListFrom(t, m, s)
    BY <2>2, <2>3, ListFromNode
  <2>. QED
    BY <2>4
<1>. QED
  BY <1>1, ListFromNull

(***************************************************************************)
(* The walk of Document::children finds it.                                *)
(***************************************************************************)
FromStep(t, f, n) == IF n = Null THEN <<>> ELSE <<n>> \o f[t.next[n]]

ListOf(t, n) == CHOOSE s : ListFrom(t, n, s)

IsFrom(t, f) == f = [n \in Link |-> FromStep(t, f, n)]

LEMMA ChildrenIsList ==
  ASSUME NEW t \in Tree, WellFounded(t.next), NEW p \in Node
  PROVE  ListFrom(t, t.first[p], Children(t, p))
<1>. DEFINE from == CHOOSE f : IsFrom(t, f)
            g == [n \in Link |-> ListOf(t, n)]
<1>1. Children(t, p) = from[t.first[p]]
  BY Zenon DEF Children, IsFrom, FromStep
<1>2. \E f : IsFrom(t, f)
  <2>1. ASSUME NEW n \in Link PROVE ListFrom(t, n, g[n])
    <3>1. \E s : ListFrom(t, n, s)
      BY ListExists
    <3>. QED
      BY <3>1 DEF ListOf
  <2>0. g = [n \in Link |-> g[n]]
    BY Zenon
  <2>. HIDE DEF g
  <2>2. ASSUME NEW n \in Link PROVE g[n] = FromStep(t, g, n)
    <3>1. CASE n = Null
      BY <2>1, <3>1, ListFromNull, ListUnique DEF FromStep
    <3>2. CASE n # Null
      <4>1. n \in Node /\ t.next[n] \in Link
        BY <3>2 DEF Tree
      <4>2. ListFrom(t, n, <<n>> \o g[t.next[n]])
        BY <2>1, <4>1, ListFromNode
      <4>3. g[n] = <<n>> \o g[t.next[n]]
        BY <2>1, <4>2, ListUnique
      <4>. QED
        BY <3>2, <4>3 DEF FromStep
    <3>. QED
      BY <3>1, <3>2
  <2>3. g = [n \in Link |-> FromStep(t, g, n)]
    BY <2>0, <2>2, Zenon
  <2>4. IsFrom(t, g)
    BY <2>3, Zenon DEF IsFrom
  <2>. QED
    BY <2>4
<1>3. IsFrom(t, from)
  BY <1>2
<1>. HIDE DEF from, g
<1>4. ASSUME NEW n \in Link PROVE from[n] = FromStep(t, from, n)
  BY <1>3, Zenon DEF IsFrom
<1>. DEFINE S == {m \in Node : ~ ListFrom(t, m, from[m])}
<1>5. from[Null] = <<>>
  BY <1>4 DEF FromStep
<1>6. S = {}
  <2>. SUFFICES ASSUME S # {} PROVE FALSE
    OBVIOUS
  <2>1. PICK m \in S : t.next[m] \notin S
    <3>1. S \in SUBSET Node
      OBVIOUS
    <3>. HIDE DEF S
    <3>. QED
      BY <3>1 DEF WellFounded
  <2>2. m \in Node /\ t.next[m] \in Link
    BY DEF Tree
  <2>3. ListFrom(t, t.next[m], from[t.next[m]])
    BY <1>5, <2>1, <2>2, ListFromNull
  <2>4. from[m] = <<m>> \o from[t.next[m]]
    BY <1>4, <2>2 DEF FromStep
  <2>5. ListFrom(t, m, from[m])
    BY <2>2, <2>3, <2>4, ListFromNode
  <2>. QED
    BY <2>5
<1>7. t.first[p] \in Link
  BY DEF Tree
<1>. QED
  BY <1>1, <1>5, <1>6, <1>7, ListFromNull

-----------------------------------------------------------------------------
(***************************************************************************)
(* A list read off a good tree names the children, each once, and the      *)
(* fields that the walk does not read mirror it.                           *)
(***************************************************************************)
LEMMA DomainOf ==
  ASSUME NEW X, NEW s \in Seq(X)
  PROVE  \E a \in Nat : a = Len(s) /\ DOMAIN s = 1 .. a
  OBVIOUS

LEMMA RunDistinct ==
  ASSUME NEW t, WellFounded(t.next), NEW s \in Seq(Node), NEW e, Run(t, s, e)
  PROVE  IsInjective(s)
<1>0. PICK a \in Nat : a = Len(s) /\ DOMAIN s = 1 .. a
  BY DomainOf
<1>1. ASSUME NEW i \in 1 .. a, NEW j \in 1 .. a, i < j, s[i] = s[j] PROVE FALSE
  <2>. DEFINE S == {s[k] : k \in i .. j - 1}
  <2>1. \A k \in i .. j - 1 : k \in 1 .. a /\ k # a /\ k + 1 \in 1 .. a /\ (k + 1 \in i .. j - 1 \/ k + 1 = j)
    BY <1>0, <1>1
  <2>2. S \in SUBSET Node
    BY <1>0, <2>1
  <2>3. i \in i .. j - 1
    BY <1>0, <1>1
  <2>4. \A k \in i .. j - 1 : t.next[s[k]] = s[k + 1]
    BY <1>0, <2>1 DEF Run
  <2>5. \A k \in i .. j - 1 : s[k + 1] \in S
    <3>. TAKE k \in i .. j - 1
    <3>1. CASE k + 1 = j
      BY <1>1, <2>3, <3>1
    <3>2. CASE k + 1 \in i .. j - 1
      BY <3>2
    <3>. QED
      BY <2>1, <3>1, <3>2
  <2>6. \A n \in S : t.next[n] \in S
    BY <2>4, <2>5
  <2>7. S # {}
    BY <2>3
  <2>. HIDE DEF S
  <2>. QED
    BY <2>2, <2>6, <2>7 DEF WellFounded
<1>2. \A i, j \in 1 .. a : i # j => i < j \/ j < i
  BY <1>0
<1>. QED
  BY <1>0, <1>1, <1>2 DEF IsInjective

LEMMA ListFacts ==
  ASSUME NEW t \in Tree, Good(t), NEW p \in Node, NEW s, ListFrom(t, t.first[p], s)
  PROVE  /\ s \in Seq(Node) /\ IsInjective(s) /\ ToSet(s) = Kids(t, p)
         /\ t.first[p] = HeadOr(s, Null) /\ t.last[p] = LastOr(s, Null) /\ Run(t, s, Null)
         /\ \A i \in DOMAIN s : t.prev[s[i]] = IF i = 1 THEN Null ELSE s[i - 1]
<1>1. s \in Seq(Node) /\ HeadOr(s, Null) = t.first[p] /\ Run(t, s, Null)
  BY DEF ListFrom
<1>0. PICK a \in Nat : a = Len(s) /\ DOMAIN s = 1 .. a
  BY <1>1, DomainOf
<1>2. IsInjective(s)
  BY <1>1, RunDistinct DEF Good
<1>3. (a = 0 <=> s = <<>>) /\ \A i \in 1 .. a : s[i] \in Node
  BY <1>0, <1>1
<1>4. \A i \in 1 .. a : t.next[s[i]] = IF i = a THEN Null ELSE s[i + 1]
  BY <1>0, <1>1 DEF Run
<1>5. ASSUME NEW i \in 1 .. a PROVE t.parent[s[i]] = p
  <2>. DEFINE T == {j \in Nat : j \in 1 .. a => t.parent[s[j]] = p}
  <2>1. 0 \in T
    OBVIOUS
  <2>2. ASSUME NEW j \in T, j + 1 \in 1 .. a PROVE t.parent[s[j + 1]] = p
    <3>1. CASE j = 0
      <4>1. 1 \in 1 .. a /\ s # <<>>
        BY <1>0, <1>3, <2>2
      <4>2. s[1] = t.first[p] /\ s[1] # Null
        BY <1>1, <1>3, <4>1 DEF HeadOr
      <4>. QED
        BY <3>1, <4>2 DEF Good, Mirrors, EndsMirror
    <3>2. CASE j # 0
      <4>1. j \in 1 .. a /\ j # a
        BY <1>0, <2>2, <3>2
      <4>2. t.next[s[j]] = s[j + 1] /\ t.parent[s[j]] = p /\ s[j] \in Node /\ s[j + 1] \in Node
        BY <1>3, <1>4, <2>2, <4>1
      <4>. QED
        BY <4>2 DEF Good, Mirrors, SiblingsMirror
    <3>. QED
      BY <3>1, <3>2
  <2>3. \A j \in T : j + 1 \in T
    BY <2>2
  <2>4. T = Nat
    <3>. HIDE DEF T
    <3>1. T \in SUBSET Nat
      BY DEF T
    <3>. QED
      BY <2>1, <2>3, <3>1, SetInduction
  <2>. QED
    BY <1>0, <2>4
<1>6. ASSUME NEW i \in 1 .. a PROVE t.prev[s[i]] = IF i = 1 THEN Null ELSE s[i - 1]
  <2>1. CASE i = 1
    <3>1. s # <<>>
      BY <1>0, <1>3
    <3>2. s[1] = t.first[p] /\ s[1] # Null
      BY <1>1, <1>3, <2>1, <3>1 DEF HeadOr
    <3>. QED
      BY <2>1, <3>2 DEF Good, Mirrors, EndsMirror
  <2>2. CASE i # 1
    <3>1. PICK j \in 1 .. a : j = i - 1 /\ j + 1 = i /\ j # a
      BY <1>0, <2>2
    <3>2. t.next[s[j]] = s[i] /\ s[i] \in Node /\ s[j] \in Node
      BY <1>3, <1>4, <3>1
    <3>3. t.prev[s[i]] = s[j]
      BY <3>2 DEF Good, Mirrors, SiblingsMirror
    <3>. QED
      BY <2>2, <3>1, <3>3
  <2>. QED
    BY <2>1, <2>2
<1>7. t.last[p] = LastOr(s, Null)
  <2>1. CASE s = <<>>
    BY <1>1, <2>1 DEF HeadOr, LastOr, Good, Mirrors, EndsMirror
  <2>2. CASE s # <<>>
    <3>1. a \in 1 .. a /\ t.next[s[a]] = Null /\ t.parent[s[a]] = p /\ s[a] \in Node
      BY <1>0, <1>3, <1>4, <1>5, <2>2
    <3>. QED
      BY <1>0, <2>2, <3>1 DEF LastOr, Good, Mirrors, EndsMirror
  <2>. QED
    BY <2>1, <2>2
<1>8. ToSet(s) = Kids(t, p)
  <2>1. ToSet(s) \subseteq Kids(t, p)
    BY <1>0, <1>3, <1>5 DEF ToSet, Kids
  <2>. DEFINE R == Kids(t, p) \ ToSet(s)
  <2>2. R = {}
    <3>. SUFFICES ASSUME R # {} PROVE FALSE
      OBVIOUS
    <3>1. PICK k \in R : t.next[k] \notin R
      <4>1. R \in SUBSET Node
        BY DEF Kids
      <4>. HIDE DEF R
      <4>. QED
        BY <4>1 DEF Good, WellFounded
    <3>2. k \in Node /\ t.parent[k] = p /\ k \notin ToSet(s) /\ t.next[k] \in Link
      BY DEF Kids, Tree
    <3>3. CASE t.next[k] = Null
      <4>1. t.last[p] = k
        BY <3>2, <3>3 DEF Good, Mirrors, EndsMirror
      <4>2. s # <<>> /\ k = s[a]
        BY <1>0, <1>7, <3>2, <4>1 DEF LastOr
      <4>3. a \in DOMAIN s
        BY <1>0, <1>3, <4>2
      <4>. QED
        BY <3>2, <4>2, <4>3 DEF ToSet
    <3>4. CASE t.next[k] # Null
      <4>1. t.next[k] \in Kids(t, p) /\ t.prev[t.next[k]] = k
        BY <3>2, <3>4 DEF Good, Mirrors, SiblingsMirror, Kids
      <4>2. t.next[k] \in ToSet(s)
        BY <3>1, <4>1
      <4>3. PICK i \in 1 .. a : t.next[k] = s[i]
        BY <1>0, <4>2 DEF ToSet
      <4>4. i # 1 /\ k = s[i - 1]
        BY <1>6, <3>2, <4>1, <4>3
      <4>5. i - 1 \in DOMAIN s
        BY <1>0, <4>4
      <4>. QED
        BY <3>2, <4>4, <4>5 DEF ToSet
    <3>. QED
      BY <3>3, <3>4
  <2>. QED
    BY <2>1, <2>2
<1>. QED
  BY <1>0, <1>1, <1>2, <1>6, <1>7, <1>8

-----------------------------------------------------------------------------
(***************************************************************************)
(* Lists put together and taken apart.                                     *)
(***************************************************************************)
LEMMA ConcatEntries ==
  ASSUME NEW X, NEW s \in Seq(X), NEW r \in Seq(X), NEW a, NEW b, a = Len(s), b = Len(r)
  PROVE  /\ a \in Nat /\ b \in Nat /\ s \o r \in Seq(X) /\ Len(s \o r) = a + b
         /\ DOMAIN s = 1 .. a /\ DOMAIN r = 1 .. b /\ DOMAIN (s \o r) = 1 .. a + b
         /\ (s = <<>> <=> a = 0) /\ (r = <<>> <=> b = 0)
         /\ \A i \in 1 .. a : (s \o r)[i] = s[i]
         /\ \A i \in 1 .. b : (s \o r)[a + i] = r[i]
  OBVIOUS

LEMMA ConcatAssociates ==
  ASSUME NEW X, NEW s \in Seq(X), NEW r \in Seq(X), NEW q \in Seq(X)
  PROVE  (s \o r) \o q = s \o (r \o q)
  OBVIOUS

Associative(S) == \A s, r, q \in S : (s \o r) \o q = s \o (r \o q)

LEMMA ConcatsAssociate ==
  ASSUME NEW X PROVE Associative(Seq(X))
<1>1. \A s, r, q \in Seq(X) : (s \o r) \o q = s \o (r \o q)
  BY ONLY ConcatAssociates
<1>. QED
  BY ONLY <1>1 DEF Associative

LEMMA ConcatEnds ==
  ASSUME NEW X, NEW s \in Seq(X), NEW r \in Seq(X), NEW e
  PROVE  /\ HeadOr(s \o r, e) = HeadOr(s, HeadOr(r, e))
         /\ LastOr(s \o r, e) = LastOr(r, LastOr(s, e))
<1>1. PICK a \in Nat : a = Len(s)
  OBVIOUS
<1>2. PICK b \in Nat : b = Len(r)
  OBVIOUS
<1>3. PICK q : q = s \o r
  OBVIOUS
<1>4. /\ q \in Seq(X) /\ Len(q) = a + b /\ (s = <<>> <=> a = 0) /\ (r = <<>> <=> b = 0)
      /\ (\A i \in 1 .. a : q[i] = s[i]) /\ \A i \in 1 .. b : q[a + i] = r[i]
  BY <1>1, <1>2, <1>3, ConcatEntries
<1>5. q = <<>> <=> a = 0 /\ b = 0
  BY <1>4
<1>6. HeadOr(q, e) = HeadOr(s, HeadOr(r, e))
  <2>1. a # 0 => 1 \in 1 .. a
    OBVIOUS
  <2>2. b # 0 => 1 \in 1 .. b
    OBVIOUS
  <2>3. a = 0 => a + 1 = 1
    OBVIOUS
  <2>. QED
    BY <1>4, <1>5, <2>1, <2>2, <2>3 DEF HeadOr
<1>7. LastOr(q, e) = LastOr(r, LastOr(s, e))
  <2>1. a # 0 => a \in 1 .. a
    OBVIOUS
  <2>2. b # 0 => b \in 1 .. b
    OBVIOUS
  <2>3. b = 0 => a + b = a
    OBVIOUS
  <2>. QED
    BY <1>1, <1>2, <1>4, <1>5, <2>1, <2>2, <2>3 DEF LastOr
<1>. QED
  BY <1>3, <1>6, <1>7

LEMMA RunConcat ==
  ASSUME NEW t, NEW s \in Seq(Node), NEW r \in Seq(Node), NEW e
  PROVE  Run(t, s \o r, e) <=> Run(t, s, HeadOr(r, e)) /\ Run(t, r, e)
<1>1. PICK a \in Nat : a = Len(s)
  OBVIOUS
<1>2. PICK b \in Nat : b = Len(r)
  OBVIOUS
<1>3. PICK q : q = s \o r
  OBVIOUS
<1>4. /\ q \in Seq(Node) /\ Len(q) = a + b /\ (r = <<>> <=> b = 0)
      /\ DOMAIN s = 1 .. a /\ DOMAIN r = 1 .. b /\ DOMAIN q = 1 .. a + b
      /\ (\A i \in 1 .. a : q[i] = s[i]) /\ \A i \in 1 .. b : q[a + i] = r[i]
  BY <1>1, <1>2, <1>3, ConcatEntries
<1>. DEFINE Next1(i) == t.next[s[i]] = IF i = a THEN HeadOr(r, e) ELSE s[i + 1]
            Next2(i) == t.next[r[i]] = IF i = b THEN e ELSE r[i + 1]
            NextQ(i) == t.next[q[i]] = IF i = a + b THEN e ELSE q[i + 1]
<1>5. ASSUME NEW i \in 1 .. a PROVE i \in 1 .. a + b /\ (NextQ(i) <=> Next1(i))
  <2>0. i \in 1 .. a + b /\ q[i] = s[i]
    BY <1>4
  <2>1. CASE i # a
    <3>1. i # a + b /\ i + 1 \in 1 .. a
      BY <2>1
    <3>. QED
      BY <1>4, <2>0, <2>1, <3>1
  <2>2. CASE i = a /\ b = 0
    <3>1. i = a + b
      BY <2>2
    <3>. QED
      BY <1>4, <2>0, <2>2, <3>1 DEF HeadOr
  <2>3. CASE i = a /\ b # 0
    <3>1. i # a + b /\ 1 \in 1 .. b
      BY <2>3
    <3>2. q[i + 1] = r[1] /\ HeadOr(r, e) = r[1]
      BY <1>4, <2>3, <3>1 DEF HeadOr
    <3>. QED
      BY <2>0, <2>3, <3>1, <3>2
  <2>. QED
    BY <2>1, <2>2, <2>3
<1>6. ASSUME NEW i \in 1 .. b PROVE a + i \in 1 .. a + b /\ (NextQ(a + i) <=> Next2(i))
  <2>0. a + i \in 1 .. a + b /\ q[a + i] = r[i] /\ (a + i = a + b <=> i = b)
    BY <1>4
  <2>1. i # b => i + 1 \in 1 .. b /\ a + (i + 1) = (a + i) + 1
    OBVIOUS
  <2>2. i # b => q[(a + i) + 1] = r[i + 1]
    BY <1>4, <2>1
  <2>. QED
    BY <2>0, <2>2
<1>7. ASSUME NEW i \in 1 .. a + b, i \notin 1 .. a PROVE \E j \in 1 .. b : i = a + j
  <2>1. i - a \in 1 .. b /\ i = a + (i - a)
    BY <1>7
  <2>. QED
    BY <2>1
<1>8. Run(t, q, e) <=> \A i \in 1 .. a + b : NextQ(i)
  BY <1>4 DEF Run
<1>9. (Run(t, s, HeadOr(r, e)) <=> \A i \in 1 .. a : Next1(i)) /\ (Run(t, r, e) <=> \A i \in 1 .. b : Next2(i))
  BY <1>1, <1>2, <1>4 DEF Run
<1>. HIDE DEF Next1, Next2, NextQ
<1>. QED
  BY <1>3, <1>5, <1>6, <1>7, <1>8, <1>9

(***************************************************************************)
(* A run is a run of another tree in which only the last node's link is    *)
(* another.                                                                *)
(***************************************************************************)
LEMMA RunAgain ==
  ASSUME NEW t, NEW d, NEW s \in Seq(Node), IsInjective(s), NEW e, NEW f, Run(t, s, e),
         \A m \in ToSet(s) : d.next[m] = IF m = LastOr(s, Null) THEN f ELSE t.next[m]
  PROVE  Run(d, s, f)
<1>0. PICK a \in Nat : a = Len(s) /\ DOMAIN s = 1 .. a
  BY DomainOf
<1>. SUFFICES ASSUME NEW i \in 1 .. a PROVE d.next[s[i]] = IF i = a THEN f ELSE s[i + 1]
  BY <1>0 DEF Run
<1>1. s # <<>> /\ a \in 1 .. a /\ LastOr(s, Null) = s[a]
  BY <1>0 DEF LastOr
<1>2. s[i] \in ToSet(s) /\ (s[i] = s[a] <=> i = a)
  BY <1>0, <1>1 DEF ToSet, IsInjective
<1>3. i # a => t.next[s[i]] = s[i + 1]
  BY <1>0 DEF Run
<1>. QED
  BY <1>1, <1>2, <1>3

LEMMA RunSame ==
  ASSUME NEW t, NEW d, NEW s \in Seq(Node), NEW e, Run(t, s, e),
         \A m \in ToSet(s) : d.next[m] = t.next[m]
  PROVE  Run(d, s, e)
BY DEF Run, ToSet

(***************************************************************************)
(* A list cut in two, and around one of its entries.                       *)
(***************************************************************************)
Cuts(X, s, m, l, r) == l \in Seq(X) /\ r \in Seq(X) /\ s = l \o r /\ Len(l) = m

LEMMA Cut ==
  ASSUME NEW X, NEW s \in Seq(X), NEW m \in Nat, NEW b \in Nat, Len(s) = m + b
  PROVE  \E l, r : Cuts(X, s, m, l, r) /\ Len(r) = b
<1>1. PICK l \in Seq(X) : Len(l) = m /\ \A k \in 1 .. m : l[k] = s[k]
  <2>. DEFINE l == SubSeq(s, 1, m)
  <2>1. l \in Seq(X) /\ Len(l) = m /\ \A k \in 1 .. m : l[k] = s[k]
    OBVIOUS
  <2>. QED
    BY <2>1
<1>2. PICK r \in Seq(X) : Len(r) = b /\ \A k \in 1 .. b : r[k] = s[m + k]
  <2>. DEFINE r == [k \in 1 .. b |-> s[m + k]]
  <2>1. \A k \in 1 .. b : m + k \in 1 .. Len(s)
    OBVIOUS
  <2>2. \A k \in 1 .. b : s[m + k] \in X
    BY <2>1
  <2>3. r \in [1 .. b -> X]
    BY <2>2
  <2>4. \A f \in [1 .. b -> X] : f \in Seq(X) /\ Len(f) = b
    OBVIOUS
  <2>. QED
    BY <2>3, <2>4
<1>4. PICK z : z = l \o r
  OBVIOUS
<1>5. /\ z \in Seq(X) /\ Len(z) = m + b
      /\ (\A k \in 1 .. m : z[k] = l[k]) /\ \A k \in 1 .. b : z[m + k] = r[k]
  <2>1. m = Len(l) /\ b = Len(r)
    BY <1>1, <1>2
  <2>. QED
    BY <1>4, <2>1, ConcatEntries
<1>6. ASSUME NEW k \in 1 .. m + b PROVE z[k] = s[k]
  <2>1. CASE k \in 1 .. m
    BY <1>1, <1>5, <2>1
  <2>2. CASE k \notin 1 .. m
    <3>1. PICK j \in 1 .. b : k = m + j
      <4>1. k - m \in 1 .. b /\ k = m + (k - m)
        BY <2>2
      <4>. QED
        BY <4>1
    <3>. QED
      BY <1>2, <1>5, <3>1
  <2>. QED
    BY <2>1, <2>2
<1>7. z = s
  BY <1>5, <1>6, ListsEqual
<1>. QED
  BY <1>1, <1>2, <1>4, <1>7 DEF Cuts

LEMMA Parts ==
  ASSUME NEW X, NEW l \in Seq(X), NEW r \in Seq(X)
  PROVE  /\ ToSet(l \o r) = ToSet(l) \cup ToSet(r)
         /\ IsInjective(l \o r) <=> IsInjective(l) /\ IsInjective(r) /\ ToSet(l) \cap ToSet(r) = {}
<1>1. PICK a \in Nat : a = Len(l)
  OBVIOUS
<1>2. PICK b \in Nat : b = Len(r)
  OBVIOUS
<1>3. PICK q : q = l \o r
  OBVIOUS
<1>4. /\ DOMAIN l = 1 .. a /\ DOMAIN r = 1 .. b /\ DOMAIN q = 1 .. a + b
      /\ (\A i \in 1 .. a : q[i] = l[i]) /\ \A i \in 1 .. b : q[a + i] = r[i]
  BY <1>1, <1>2, <1>3, ConcatEntries
<1>5. /\ ToSet(q) = ToSet(l) \cup ToSet(r)
      /\ IsInjective(l) /\ IsInjective(r) /\ ToSet(l) \cap ToSet(r) = {} => IsInjective(q)
  BY <1>3, ConcatFacts
<1>6. ASSUME IsInjective(q) PROVE IsInjective(l) /\ IsInjective(r) /\ ToSet(l) \cap ToSet(r) = {}
  <2>1. \A i, j \in 1 .. a + b : q[i] = q[j] => i = j
    BY <1>4, <1>6 DEF IsInjective
  <2>2. \A i \in 1 .. a : i \in 1 .. a + b
    OBVIOUS
  <2>3. \A i \in 1 .. b : a + i \in 1 .. a + b
    OBVIOUS
  <2>4. \A i, j \in 1 .. b : a + i = a + j => i = j
    OBVIOUS
  <2>5. \A i \in 1 .. a : \A j \in 1 .. b : i # a + j
    OBVIOUS
  <2>6. IsInjective(l)
    BY <1>4, <2>1, <2>2 DEF IsInjective
  <2>7. IsInjective(r)
    BY <1>4, <2>1, <2>3, <2>4 DEF IsInjective
  <2>8. ToSet(l) \cap ToSet(r) = {}
    BY <1>4, <2>1, <2>2, <2>3, <2>5 DEF ToSet
  <2>. QED
    BY <2>6, <2>7, <2>8
<1>. QED
  BY <1>3, <1>5, <1>6

LEMMA Single ==
  ASSUME NEW X, NEW c \in X
  PROVE  <<c>> \in Seq(X) /\ ToSet(<<c>>) = {c} /\ IsInjective(<<c>>) /\ <<c>> # <<>>
         /\ Len(<<c>>) = 1 /\ \A e : HeadOr(<<c>>, e) = c /\ LastOr(<<c>>, e) = c
BY DEF ToSet, IsInjective, HeadOr, LastOr

LEMMA FirstApart ==
  ASSUME NEW X, NEW s \in Seq(X), s # <<>>
  PROVE  \E r : r \in Seq(X) /\ s = <<s[1]>> \o r
<1>1. PICK b \in Nat : Len(s) = 1 + b
  <2>1. Len(s) - 1 \in Nat /\ Len(s) = 1 + (Len(s) - 1)
    OBVIOUS
  <2>. QED
    BY <2>1
<1>0. PICK m \in Nat : m = 1
  OBVIOUS
<1>2. PICK l \in Seq(X) : \E r \in Seq(X) : s = l \o r /\ Len(l) = 1
  <2>1. Len(s) = m + b
    BY <1>0, <1>1
  <2>2. \E l, r : Cuts(X, s, m, l, r) /\ Len(r) = b
    BY <2>1, Cut
  <2>. QED
    BY <1>0, <2>2 DEF Cuts
<1>3. PICK r \in Seq(X) : s = l \o r /\ Len(l) = 1
  BY <1>2
<1>4. PICK d \in X : d = l[1]
  <2>1. 1 \in 1 .. Len(l)
    BY <1>3
  <2>2. l[1] \in X
    BY <2>1
  <2>. QED
    BY <2>2
<1>5. <<d>> \in Seq(X) /\ Len(<<d>>) = 1 /\ \A i \in 1 .. 1 : <<d>>[i] = d
  OBVIOUS
<1>6. \A i \in 1 .. 1 : l[i] = d
  BY <1>4
<1>7. l = <<d>>
  BY <1>3, <1>5, <1>6, ListsEqual
<1>8. s[1] = d
  <2>1. PICK a \in Nat : a = Len(l) /\ 1 \in 1 .. a
    BY <1>3
  <2>2. PICK e \in Nat : e = Len(r)
    OBVIOUS
  <2>3. \A k \in 1 .. a : (l \o r)[k] = l[k]
    BY <2>1, <2>2, ConcatEntries
  <2>. QED
    BY <1>3, <1>4, <2>1, <2>3
<1>. QED
  BY <1>3, <1>7, <1>8

(***************************************************************************)
(* s is l, then c, then r.                                                 *)
(***************************************************************************)
Splits(s, l, c, r) == l \in Seq(Node) /\ r \in Seq(Node) /\ c \in Node /\ s = l \o (<<c>> \o r)

LEMMA SplitFacts ==
  ASSUME NEW s, NEW l, NEW c, NEW r, Splits(s, l, c, r), IsInjective(s)
  PROVE  /\ <<c>> \o r \in Seq(Node) /\ <<c>> \in Seq(Node) /\ s \in Seq(Node)
         /\ IsInjective(l) /\ IsInjective(r) /\ c \notin ToSet(l) /\ c \notin ToSet(r)
         /\ ToSet(l) \cap ToSet(r) = {} /\ ToSet(s) = ToSet(l) \cup {c} \cup ToSet(r)
<1>1. l \in Seq(Node) /\ r \in Seq(Node) /\ c \in Node /\ s = l \o (<<c>> \o r)
  BY DEF Splits
<1>2. PICK k \in Seq(Node) : k = <<c>> /\ ToSet(k) = {c}
  BY <1>1, Single
<1>3. PICK q \in Seq(Node) : q = k \o r /\ ToSet(q) = ToSet(k) \cup ToSet(r)
                          /\ (IsInjective(q) => IsInjective(r) /\ ToSet(k) \cap ToSet(r) = {})
  <2>1. k \o r \in Seq(Node)
    BY <1>1, ConcatFacts
  <2>. QED
    BY <1>1, <2>1, Parts
<1>4. /\ l \o q \in Seq(Node) /\ ToSet(l \o q) = ToSet(l) \cup ToSet(q)
      /\ IsInjective(l \o q) => IsInjective(l) /\ IsInjective(q) /\ ToSet(l) \cap ToSet(q) = {}
  BY <1>1, ConcatFacts, Parts
<1>. QED
  BY <1>1, <1>2, <1>3, <1>4

LEMMA SplitAt ==
  ASSUME NEW s \in Seq(Node), NEW c \in ToSet(s)
  PROVE  \E l, r : Splits(s, l, c, r)
<1>0. PICK a \in Nat : a = Len(s) /\ DOMAIN s = 1 .. a
  BY DomainOf
<1>1. PICK i \in 1 .. a : s[i] = c
  BY <1>0 DEF ToSet
<1>2. PICK m \in Nat : m + 1 = i
  <2>1. (i - 1) + 1 = i /\ i - 1 \in Nat
    OBVIOUS
  <2>. QED
    BY <2>1
<1>8. PICK b \in Nat : a = m + b /\ b # 0 /\ 1 \in 1 .. b
  <2>1. a - m \in Nat /\ a = m + (a - m) /\ a - m # 0 /\ 1 \in 1 .. a - m
    BY <1>2
  <2>. QED
    BY <2>1
<1>3. PICK l, q : Cuts(Node, s, m, l, q) /\ Len(q) = b
  <2>1. Len(s) = m + b
    BY <1>0, <1>8
  <2>. HIDE <1>0, <1>1
  <2>. QED
    BY <2>1, Cut
<1>4. l \in Seq(Node) /\ q \in Seq(Node) /\ s = l \o q /\ Len(l) = m
  BY <1>3 DEF Cuts
<1>5. q # <<>> /\ s[m + 1] = q[1]
  BY <1>3, <1>4, <1>8, ConcatEntries
<1>6. PICK r : r \in Seq(Node) /\ q = <<q[1]>> \o r
  BY <1>4, <1>5, FirstApart
<1>7. c \in Node
  BY <1>0, <1>1
<1>. QED
  BY <1>1, <1>2, <1>4, <1>5, <1>6, <1>7 DEF Splits

-----------------------------------------------------------------------------
(***************************************************************************)
(* A child in its list: what comes before and after it are its neighbours. *)
(***************************************************************************)
Around(t, s, l, c, r) ==
  /\ Splits(s, l, c, r)
  /\ t.prev[c] = LastOr(l, Null) /\ t.next[c] = HeadOr(r, Null)
  /\ Run(t, l, c) /\ Run(t, r, Null)

LEMMA EntryNotNull ==
  ASSUME NEW s \in Seq(Node)
  PROVE  /\ HeadOr(s, Null) \in Link /\ LastOr(s, Null) \in Link
         /\ (s = <<>> <=> HeadOr(s, Null) = Null) /\ (s = <<>> <=> LastOr(s, Null) = Null)
         /\ s # <<>> => /\ HeadOr(s, Null) \in ToSet(s) /\ LastOr(s, Null) \in ToSet(s)
                        /\ \A e : HeadOr(s, e) = HeadOr(s, Null) /\ LastOr(s, e) = LastOr(s, Null)
         /\ \A n \in ToSet(s) : n \in Node /\ n # Null
<1>0. PICK a \in Nat : a = Len(s) /\ DOMAIN s = 1 .. a
  BY DomainOf
<1>1. (s = <<>> <=> a = 0) /\ \A i \in 1 .. a : s[i] \in Node
  BY <1>0
<1>2. a # 0 => 1 \in 1 .. a /\ a \in 1 .. a
  OBVIOUS
<1>3. \A n \in ToSet(s) : n \in Node /\ n # Null
  BY <1>0, <1>1 DEF ToSet
<1>. QED
  BY <1>0, <1>1, <1>2, <1>3 DEF HeadOr, LastOr, ToSet

LEMMA ThreeParts ==
  ASSUME NEW l \in Seq(Node), NEW x \in Seq(Node), NEW r \in Seq(Node)
  PROVE  /\ l \o (x \o r) \in Seq(Node)
         /\ ToSet(l \o (x \o r)) = ToSet(l) \cup ToSet(x) \cup ToSet(r)
         /\ IsInjective(l \o (x \o r)) <=>
              /\ IsInjective(l) /\ IsInjective(x) /\ IsInjective(r)
              /\ ToSet(l) \cap ToSet(x) = {} /\ ToSet(l) \cap ToSet(r) = {} /\ ToSet(x) \cap ToSet(r) = {}
<1>1. PICK q \in Seq(Node) : q = x \o r
  BY ConcatFacts
<1>2. ToSet(q) = ToSet(x) \cup ToSet(r)
      /\ (IsInjective(q) <=> IsInjective(x) /\ IsInjective(r) /\ ToSet(x) \cap ToSet(r) = {})
  BY <1>1, Parts
<1>3. ToSet(l \o q) = ToSet(l) \cup ToSet(q) /\ l \o q \in Seq(Node)
      /\ (IsInjective(l \o q) <=> IsInjective(l) /\ IsInjective(q) /\ ToSet(l) \cap ToSet(q) = {})
  BY Parts, ConcatFacts
<1>. QED
  BY <1>1, <1>2, <1>3

LEMMA HeadThreeParts ==
  ASSUME NEW l \in Seq(Node), NEW x \in Seq(Node), NEW r \in Seq(Node), NEW e
  PROVE  HeadOr(l \o (x \o r), e) = HeadOr(l, HeadOr(x, HeadOr(r, e)))
<1>1. PICK q \in Seq(Node) : q = x \o r
  BY ConcatFacts
<1>2. HeadOr(q, e) = HeadOr(x, HeadOr(r, e))
  BY <1>1, ConcatEnds
<1>3. HeadOr(l \o q, e) = HeadOr(l, HeadOr(q, e))
  BY ConcatEnds
<1>. QED
  BY <1>1, <1>2, <1>3

LEMMA RunThreeParts ==
  ASSUME NEW t, NEW l \in Seq(Node), NEW x \in Seq(Node), NEW r \in Seq(Node), NEW e
  PROVE  Run(t, l \o (x \o r), e) <=>
           Run(t, l, HeadOr(x, HeadOr(r, e))) /\ Run(t, x, HeadOr(r, e)) /\ Run(t, r, e)
<1>1. PICK q \in Seq(Node) : q = x \o r
  BY ConcatFacts
<1>2. HeadOr(q, e) = HeadOr(x, HeadOr(r, e)) /\ (Run(t, q, e) <=> Run(t, x, HeadOr(r, e)) /\ Run(t, r, e))
  BY <1>1, ConcatEnds, RunConcat
<1>3. Run(t, l \o q, e) <=> Run(t, l, HeadOr(q, e)) /\ Run(t, q, e)
  BY RunConcat
<1>. QED
  BY <1>1, <1>2, <1>3

LEMMA AroundChild ==
  ASSUME NEW t \in Tree, Good(t), NEW c \in Node, NEW p \in Node, t.parent[c] = p,
         NEW s, ListFrom(t, t.first[p], s)
  PROVE  \E l, r \in Seq(Node) : Around(t, s, l, c, r)
<1>1. /\ s \in Seq(Node) /\ IsInjective(s) /\ ToSet(s) = Kids(t, p)
      /\ t.first[p] = HeadOr(s, Null) /\ Run(t, s, Null)
  BY ListFacts
<1>2. c \in ToSet(s)
  BY <1>1 DEF Kids
<1>3. PICK l \in Seq(Node), r \in Seq(Node) : Splits(s, l, c, r)
  <2>1. \E l, r : Splits(s, l, c, r)
    BY <1>1, <1>2, SplitAt
  <2>. QED
    BY <2>1 DEF Splits
<1>4. s = l \o (<<c>> \o r)
  BY <1>3 DEF Splits
<1>5. PICK x \in Seq(Node) : x = <<c>> /\ \A e : HeadOr(x, e) = c /\ LastOr(x, e) = c
  BY Single
<1>6. HeadOr(l \o (x \o r), Null) = HeadOr(l, HeadOr(x, HeadOr(r, Null)))
  BY HeadThreeParts
<1>7. Run(t, l \o (x \o r), Null) =>
        Run(t, l, HeadOr(x, HeadOr(r, Null))) /\ Run(t, x, HeadOr(r, Null)) /\ Run(t, r, Null)
  BY RunThreeParts
<1>8. Run(t, l, c) /\ Run(t, x, HeadOr(r, Null)) /\ Run(t, r, Null) /\ HeadOr(s, Null) = HeadOr(l, c)
  BY <1>1, <1>4, <1>5, <1>6, <1>7
<1>9. t.next[c] = HeadOr(r, Null)
  <2>1. x[1] = c /\ 1 \in DOMAIN x /\ Len(x) = 1
    BY <1>5
  <2>. QED
    BY <1>8, <2>1 DEF Run
<1>10. t.prev[c] = LastOr(l, Null)
  <2>1. CASE l = <<>>
    <3>1. t.first[p] = c /\ LastOr(l, Null) = Null
      BY <1>1, <1>8, <2>1 DEF HeadOr, LastOr
    <3>. QED
      BY <3>1 DEF Good, Mirrors, EndsMirror
  <2>2. CASE l # <<>>
    <3>1. PICK a \in Nat : a = Len(l) /\ DOMAIN l = 1 .. a
      BY DomainOf
    <3>2. a \in 1 .. a /\ LastOr(l, Null) = l[a] /\ l[a] \in Node
      BY <2>2, <3>1 DEF LastOr
    <3>3. t.next[l[a]] = c
      BY <1>8, <3>1, <3>2 DEF Run
    <3>. QED
      BY <3>2, <3>3 DEF Good, Mirrors, SiblingsMirror
  <2>. QED
    BY <2>1, <2>2
<1>. QED
  BY <1>3, <1>8, <1>9, <1>10 DEF Around

(***************************************************************************)
(* detach takes a node out of its parent's list.                           *)
(***************************************************************************)
LEMMA DetachOwnList ==
  ASSUME NEW t \in Tree, Good(t), NEW c \in Node, NEW p \in Node, t.parent[c] = p,
         NEW s, ListFrom(t, t.first[p], s), NEW l \in Seq(Node), NEW r \in Seq(Node),
         Around(t, s, l, c, r), NEW d, IsDetach(t, c, d)
  PROVE  ListFrom(d, d.first[p], l \o r)
<1>1. s \in Seq(Node) /\ IsInjective(s) /\ t.first[p] = HeadOr(s, Null)
  BY ListFacts
<1>2. /\ s = l \o (<<c>> \o r) /\ t.prev[c] = LastOr(l, Null) /\ t.next[c] = HeadOr(r, Null)
      /\ Run(t, l, c) /\ Run(t, r, Null)
  BY DEF Around, Splits
<1>3. PICK x \in Seq(Node) : x = <<c>> /\ ToSet(x) = {c} /\ \A e : HeadOr(x, e) = c
  BY Single
<1>4. /\ IsInjective(l) /\ IsInjective(r) /\ c \notin ToSet(l) /\ c \notin ToSet(r)
      /\ ToSet(l) \cap ToSet(r) = {}
  BY <1>1, <1>2, <1>3, ThreeParts
<1>5. d.first[p] = HeadOr(l \o r, Null)
  <2>1. HeadOr(l \o r, Null) = HeadOr(l, HeadOr(r, Null)) /\ HeadOr(s, Null) = HeadOr(l, c)
    <3>1. HeadOr(l \o r, Null) = HeadOr(l, HeadOr(r, Null))
      BY ConcatEnds
    <3>2. HeadOr(l \o (x \o r), Null) = HeadOr(l, HeadOr(x, HeadOr(r, Null)))
      BY HeadThreeParts
    <3>. QED
      BY <1>2, <1>3, <3>1, <3>2
  <2>2. d.first[p] = IF HeadOr(l, c) = c THEN HeadOr(r, Null) ELSE HeadOr(l, c)
    BY <1>1, <1>2, <2>1 DEF IsDetach
  <2>3. CASE l = <<>>
    BY <2>1, <2>2, <2>3 DEF HeadOr
  <2>4. CASE l # <<>>
    <3>1. HeadOr(l, Null) # c /\ HeadOr(l, c) = HeadOr(l, Null) /\ HeadOr(l, HeadOr(r, Null)) = HeadOr(l, Null)
      BY <1>4, <2>4, EntryNotNull
    <3>. QED
      BY <2>1, <2>2, <3>1
  <2>. QED
    BY <2>3, <2>4
<1>6. \A m \in ToSet(l) : d.next[m] = IF m = LastOr(l, Null) THEN HeadOr(r, Null) ELSE t.next[m]
  <2>1. \A m \in ToSet(l) : m \in Node /\ m # c
    BY <1>4, EntryNotNull
  <2>. QED
    BY <1>2, <2>1 DEF IsDetach
<1>7. \A m \in ToSet(r) : d.next[m] = t.next[m]
  <2>1. \A m \in ToSet(r) : m \in Node /\ m # c /\ m # Null
    BY <1>4, EntryNotNull
  <2>2. LastOr(l, Null) \in ToSet(l) \cup {Null}
    BY EntryNotNull
  <2>3. \A m \in ToSet(r) : m # LastOr(l, Null)
    BY <1>4, <2>1, <2>2
  <2>. QED
    BY <1>2, <2>1, <2>3 DEF IsDetach
<1>8. Run(d, l, HeadOr(r, Null))
  <2>1. PICK e : e = HeadOr(r, Null)
    OBVIOUS
  <2>2. \A m \in ToSet(l) : d.next[m] = IF m = LastOr(l, Null) THEN e ELSE t.next[m]
    BY <1>6, <2>1
  <2>3. Run(t, l, c) /\ IsInjective(l)
    BY <1>2, <1>4
  <2>4. Run(d, l, e)
    BY <2>2, <2>3, RunAgain
  <2>. QED
    BY <2>1, <2>4
<1>9. Run(d, r, Null)
  BY <1>2, <1>7, RunSame
<1>10. Run(d, l \o r, Null) /\ l \o r \in Seq(Node)
  BY <1>8, <1>9, RunConcat, ConcatFacts
<1>. QED
  BY <1>5, <1>10 DEF ListFrom

LEMMA DetachOtherList ==
  ASSUME NEW t \in Tree, Good(t), NEW c \in Node, NEW q \in Node, t.parent[c] # q,
         NEW s, ListFrom(t, t.first[q], s), NEW d, IsDetach(t, c, d)
  PROVE  ListFrom(d, d.first[q], s)
<1>1. s \in Seq(Node) /\ ToSet(s) = Kids(t, q) /\ t.first[q] = HeadOr(s, Null) /\ Run(t, s, Null)
  BY ListFacts
<1>2. \A m \in ToSet(s) : m \in Node /\ m # c /\ m # t.prev[c]
  BY <1>1 DEF Good, Mirrors, SiblingsMirror, Kids, Tree
<1>3. \A m \in ToSet(s) : d.next[m] = t.next[m]
  BY <1>2 DEF IsDetach
<1>4. Run(d, s, Null)
  BY <1>1, <1>3, RunSame
<1>5. d.first[q] = t.first[q]
  BY DEF IsDetach
<1>. QED
  BY <1>1, <1>4, <1>5 DEF ListFrom

(***************************************************************************)
(* Linking a chain into a gap of a list puts it there.                     *)
(***************************************************************************)
LEMMA LinkOwnList ==
  ASSUME NEW u, NEW d, NEW p \in Node, NEW C, NEW a, NEW b, NEW pv, NEW nx,
         IsLink(u, p, C, a, b, pv, nx, d),
         NEW l \in Seq(Node), NEW x \in Seq(Node), NEW r \in Seq(Node),
         IsInjective(l \o (x \o r)), x # <<>>,
         a = HeadOr(x, Null), b = LastOr(x, Null), pv = LastOr(l, Null), nx = HeadOr(r, Null),
         Run(u, x, Null), ListFrom(u, u.first[p], l \o r)
  PROVE  ListFrom(d, d.first[p], l \o (x \o r))
<1>1. /\ IsInjective(l) /\ IsInjective(x) /\ IsInjective(r)
      /\ ToSet(l) \cap ToSet(x) = {} /\ ToSet(l) \cap ToSet(r) = {} /\ ToSet(x) \cap ToSet(r) = {}
      /\ l \o (x \o r) \in Seq(Node)
  BY ThreeParts
<1>2. HeadOr(l \o r, Null) = u.first[p] /\ Run(u, l \o r, Null)
  BY DEF ListFrom
<1>3. HeadOr(l \o r, Null) = HeadOr(l, nx)
  BY ConcatEnds
<1>4. Run(u, l, nx) /\ Run(u, r, Null)
  BY <1>2, RunConcat
<1>5. a \in ToSet(x) /\ b \in ToSet(x) /\ \A e : HeadOr(x, e) = a
  BY EntryNotNull
<1>6. pv \in ToSet(l) \cup {Null} /\ (l = <<>> <=> pv = Null) /\ (l # <<>> => HeadOr(l, nx) = HeadOr(l, a))
  BY EntryNotNull
<1>7. HeadOr(l \o (x \o r), Null) = HeadOr(l, a)
  BY <1>5, HeadThreeParts
<1>8. d.first[p] = HeadOr(l, a)
  <2>1. d.first[p] = IF pv = Null THEN a ELSE u.first[p]
    BY DEF IsLink
  <2>2. CASE l = <<>>
    BY <1>6, <2>1, <2>2 DEF HeadOr
  <2>3. CASE l # <<>>
    BY <1>2, <1>3, <1>6, <2>1, <2>3
  <2>. QED
    BY <2>2, <2>3
<1>9. /\ \A m \in ToSet(l) : m \in Node /\ m # Null
      /\ \A m \in ToSet(x) : m \in Node /\ m # Null
      /\ \A m \in ToSet(r) : m \in Node /\ m # Null
  BY EntryNotNull
<1>10. Run(d, l, a)
  <2>1. \A m \in ToSet(l) : d.next[m] = IF m = LastOr(l, Null) THEN a ELSE u.next[m]
    <3>1. \A m \in ToSet(l) : m # b
      BY <1>1, <1>5
    <3>. QED
      BY <1>9, <3>1 DEF IsLink
  <2>2. Run(u, l, nx) /\ IsInjective(l)
    BY <1>1, <1>4
  <2>. QED
    BY <2>1, <2>2, RunAgain
<1>11. Run(d, x, nx)
  <2>1. \A m \in ToSet(x) : d.next[m] = IF m = LastOr(x, Null) THEN nx ELSE u.next[m]
    <3>1. \A m \in ToSet(x) : m # pv
      BY <1>1, <1>6, <1>9
    <3>. QED
      BY <1>9, <3>1 DEF IsLink
  <2>2. Run(u, x, Null) /\ IsInjective(x) /\ x \in Seq(Node)
    BY <1>1
  <2>. QED
    BY ONLY <2>1, <2>2, RunAgain
<1>12. Run(d, r, Null)
  <2>1. \A m \in ToSet(r) : d.next[m] = u.next[m]
    <3>1. \A m \in ToSet(r) : m # pv /\ m # b
      BY <1>1, <1>5, <1>6, <1>9
    <3>. QED
      BY <1>9, <3>1 DEF IsLink
  <2>. QED
    BY <1>4, <2>1, RunSame
<1>13. Run(d, l \o (x \o r), Null)
  <2>1. Run(d, l, HeadOr(x, HeadOr(r, Null))) /\ Run(d, x, HeadOr(r, Null))
    BY <1>5, <1>10, <1>11
  <2>. QED
    BY <1>12, <2>1, RunThreeParts
<1>. QED
  BY <1>1, <1>7, <1>8, <1>13 DEF ListFrom

LEMMA LinkOtherList ==
  ASSUME NEW u, NEW d, NEW p \in Node, NEW C, NEW a, NEW b, NEW pv, NEW nx,
         IsLink(u, p, C, a, b, pv, nx, d),
         NEW q \in Node, q # p, NEW s, ListFrom(u, u.first[q], s), pv \notin ToSet(s), b \notin ToSet(s)
  PROVE  ListFrom(d, d.first[q], s)
<1>1. s \in Seq(Node) /\ HeadOr(s, Null) = u.first[q] /\ Run(u, s, Null)
  BY DEF ListFrom
<1>2. \A m \in ToSet(s) : d.next[m] = u.next[m]
  <2>1. \A m \in ToSet(s) : m \in Node /\ m # pv /\ m # b
    BY <1>1, EntryNotNull
  <2>. QED
    BY <2>1 DEF IsLink
<1>3. Run(d, s, Null)
  BY <1>1, <1>2, RunSame
<1>4. d.first[q] = u.first[q]
  BY DEF IsLink
<1>. QED
  BY <1>1, <1>3, <1>4 DEF ListFrom

(***************************************************************************)
(* Keeping all but one entry.                                              *)
(***************************************************************************)
LEMMA NothingBetween ==
  ASSUME NEW X, NEW l \in Seq(X), NEW r \in Seq(X)
  PROVE  l \o (<<>> \o r) = l \o r /\ <<>> \o r = r /\ l \o <<>> = l
OBVIOUS

LEMMA KeepingApart ==
  ASSUME NEW l \in Seq(Node), NEW x \in Seq(Node), NEW r \in Seq(Node), NEW S \in SUBSET Node,
         ToSet(l) \cap S = {}, ToSet(r) \cap S = {}, ToSet(x) \subseteq S
  PROVE  Keeping(l \o (x \o r), Node \ S) = l \o r
<1>1. /\ \A m \in ToSet(l) : m \in Node
      /\ \A m \in ToSet(r) : m \in Node
  BY EntryNotNull
<1>2. ToSet(l) \subseteq Node \ S /\ ToSet(r) \subseteq Node \ S /\ ToSet(x) \cap (Node \ S) = {}
  BY <1>1
<1>3. Keeping(l, Node \ S) = l
  BY <1>2, KeepingAll
<1>4. Keeping(r, Node \ S) = r
  BY <1>2, KeepingAll
<1>5. Keeping(x, Node \ S) = <<>>
  BY <1>2, KeepingNone
<1>6. PICK q \in Seq(Node) : q = x \o r
  BY ConcatFacts
<1>7. PICK R : R = Node \ S
  OBVIOUS
<1>8. Keeping(q, R) = Keeping(x, R) \o Keeping(r, R)
  BY <1>6, KeepingConcat
<1>9. Keeping(l \o q, R) = Keeping(l, R) \o Keeping(q, R)
  BY KeepingConcat
<1>10. l \o (<<>> \o r) = l \o r
  BY NothingBetween
<1>. QED
  BY <1>3, <1>4, <1>5, <1>6, <1>7, <1>8, <1>9, <1>10


LEMMA KeepingTwice ==
  ASSUME NEW X, NEW s \in Seq(X), NEW A, NEW B
  PROVE  Keeping(Keeping(s, A), B) = Keeping(s, A \cap B)
<1>. DEFINE T == {r \in Seq(X) : Keeping(Keeping(r, A), B) = Keeping(r, A \cap B)}
<1>1. <<>> \in T
  <2>1. <<>> \in Seq(X)
    OBVIOUS
  <2>2. Keeping(<<>>, A) = <<>> /\ Keeping(<<>>, B) = <<>> /\ Keeping(<<>>, A \cap B) = <<>>
    BY KeepingEmpty
  <2>. QED
    BY <2>1, <2>2
<1>2. ASSUME NEW r \in T, NEW e \in X PROVE Append(r, e) \in T
  <2>0. r \in Seq(X) /\ Keeping(Keeping(r, A), B) = Keeping(r, A \cap B) /\ Append(r, e) \in Seq(X)
    OBVIOUS
  <2>1. Keeping(Append(r, e), A) = IF e \in A THEN Append(Keeping(r, A), e) ELSE Keeping(r, A)
    BY <2>0, KeepingAppend
  <2>2. Keeping(Append(r, e), A \cap B) = IF e \in A \cap B THEN Append(Keeping(r, A \cap B), e) ELSE Keeping(r, A \cap B)
    BY <2>0, KeepingAppend
  <2>3. PICK k \in Seq(X) : k = Keeping(r, A)
    BY <2>0, KeepingFacts
  <2>4. Keeping(Append(k, e), B) = IF e \in B THEN Append(Keeping(k, B), e) ELSE Keeping(k, B)
    BY KeepingAppend
  <2>. QED
    BY <2>0, <2>1, <2>2, <2>3, <2>4
<1>3. T \in SUBSET Seq(X)
  OBVIOUS
<1>. HIDE DEF T
<1>4. T = Seq(X)
  BY <1>1, <1>2, <1>3, AppendInduction
<1>. QED
  BY <1>4 DEF T

(***************************************************************************)
(* Where DomForest puts nodes: in the gap before ref, or at the end.       *)
(***************************************************************************)
LEMMA SubSeqParts ==
  ASSUME NEW X, NEW l \in Seq(X), NEW r \in Seq(X), NEW a \in Nat, a = Len(l), NEW q, q = l \o r
  PROVE  SubSeq(q, 1, a) = l /\ SubSeq(q, a + 1, Len(q)) = r
<1>1. PICK b \in Nat : b = Len(r)
  OBVIOUS
<1>2. /\ q \in Seq(X) /\ Len(q) = a + b
      /\ (\A i \in 1 .. a : q[i] = l[i]) /\ \A i \in 1 .. b : q[a + i] = r[i]
  BY <1>1, ConcatEntries
<1>3. SubSeq(q, 1, a) = l
  <2>1. SubSeq(q, 1, a) \in Seq(X) /\ Len(SubSeq(q, 1, a)) = a /\ \A i \in 1 .. a : SubSeq(q, 1, a)[i] = q[i]
    BY <1>2
  <2>. QED
    BY <1>2, <2>1, ListsEqual
<1>4. SubSeq(q, a + 1, a + b) = r
  <2>0. a + 1 \in 1 .. Len(q) + 1 /\ (a + b) + 1 - (a + 1) = b
    BY <1>2
  <2>1. PICK z : z = SubSeq(q, a + 1, a + b)
    OBVIOUS
  <2>2. z = [i \in 1 .. b |-> q[a + i]]
    <3>1. z = [i \in 1 .. ((a + b) - (a + 1)) + 1 |-> q[(a + 1) + i - 1]]
      BY <1>2, <2>1
    <3>2. ((a + b) - (a + 1)) + 1 = b /\ \A i \in 1 .. b : (a + 1) + i - 1 = a + i
      OBVIOUS
    <3>. QED
      BY <3>1, <3>2
  <2>3. \A i \in 1 .. b : a + i \in 1 .. Len(q)
    BY <1>2
  <2>4. z \in [1 .. b -> X]
    BY <1>2, <2>2, <2>3
  <2>5. \A f \in [1 .. b -> X] : f \in Seq(X) /\ Len(f) = b
    OBVIOUS
  <2>6. \A i \in 1 .. b : z[i] = r[i]
    BY <1>2, <2>2
  <2>. QED
    BY <1>1, <2>1, <2>4, <2>5, <2>6, ListsEqual
<1>. QED
  BY <1>2, <1>3, <1>4

LEMMA PositionAfter ==
  ASSUME NEW l \in Seq(Node), NEW r \in Seq(Node), NEW c \in Node, c \notin ToSet(l), HeadOr(r, Null) = c,
         NEW a \in Nat, a = Len(l)
  PROVE  Forest!Position(l \o r, c) = a + 1
<1>0. PICK q : q = l \o r
  OBVIOUS
<1>1. PICK b \in Nat : b = Len(r)
  OBVIOUS
<1>2. /\ q \in Seq(Node) /\ Len(q) = a + b /\ (r = <<>> <=> b = 0) /\ DOMAIN l = 1 .. a
      /\ (\A i \in 1 .. a : q[i] = l[i]) /\ \A i \in 1 .. b : q[a + i] = r[i]
  BY <1>0, <1>1, ConcatEntries
<1>3. b # 0 /\ 1 \in 1 .. b /\ q[a + 1] = c
  BY <1>2 DEF HeadOr
<1>4. \A i \in 1 .. a : q[i] # c
  BY <1>2 DEF ToSet
<1>. DEFINE I == {i \in 1 .. Len(q) : q[i] = c}
<1>5. a + 1 \in I /\ \A i \in I : a + 1 <= i
  <2>1. \A i \in 1 .. a + b : i \notin 1 .. a => a + 1 <= i
    OBVIOUS
  <2>2. a + 1 \in 1 .. a + b
    BY <1>3
  <2>. QED
    BY <1>2, <1>3, <1>4, <2>1, <2>2
<1>6. \A x \in I : (\A y \in I : x <= y) => x = a + 1
  BY <1>5
<1>7. Forest!Position(q, c) = CHOOSE x \in I : \A y \in I : x <= y
  BY <1>5 DEF Forest!Position, Forest!SelectInSeq, Forest!Min
<1>. HIDE DEF I
<1>. QED
  BY <1>0, <1>5, <1>6, <1>7

LEMMA PutInGap ==
  ASSUME NEW l \in Seq(Node), NEW r \in Seq(Node), NEW ref \in Link, HeadOr(r, Null) = ref,
         ref \notin ToSet(l), NEW x \in Seq(Node)
  PROVE  Forest!PutBefore(l \o r, ref, x) = l \o (x \o r)
<1>1. PICK q : q = l \o r
  OBVIOUS
<1>2. CASE ref = Null
  <2>1. r = <<>>
    BY <1>2, EntryNotNull
  <2>2. l \o r = l /\ x \o r = x
    BY <2>1, NothingBetween
  <2>. QED
    BY <1>2, <2>2 DEF Forest!PutBefore
<1>3. CASE ref # Null
  <2>1. PICK a \in Nat : a = Len(l)
    OBVIOUS
  <2>0. /\ l \in Seq(Node) /\ r \in Seq(Node) /\ ref \in Node /\ ref \notin ToSet(l)
        /\ HeadOr(r, Null) = ref
    BY <1>3
  <2>6. Forest!Position(l \o r, ref) = a + 1
    BY ONLY <2>0, <2>1, PositionAfter
  <2>2. Forest!Position(q, ref) = a + 1
    BY <1>1, <2>6
  <2>3. SubSeq(q, 1, a) = l /\ SubSeq(q, a + 1, Len(q)) = r
    BY <1>1, <2>1, SubSeqParts
  <2>4. Forest!PutBefore(q, ref, x) = SubSeq(q, 1, (a + 1) - 1) \o x \o SubSeq(q, a + 1, Len(q))
    BY <1>3, <2>2 DEF Forest!PutBefore
  <2>5. (a + 1) - 1 = a
    OBVIOUS
  <2>. QED
    <3>1. Forest!PutBefore(q, ref, x) = (l \o x) \o r
      BY <2>3, <2>4, <2>5
    <3>2. (l \o x) \o r = l \o (x \o r)
      BY ONLY <2>0, x \in Seq(Node), ConcatAssociates
    <3>. QED
      BY <1>1, <3>1, <3>2
<1>. QED
  BY <1>2, <1>3

InsertsAfter(s, l, c, r, n) ==
  Forest!InsertAt(s, Forest!Position(s, c) + 1, n) = (l \o <<c>>) \o (<<n>> \o r)

LEMMA InsertAfter ==
  ASSUME NEW l \in Seq(Node), NEW r \in Seq(Node), NEW c \in Node, c \notin ToSet(l), NEW n \in Node,
         NEW s, Splits(s, l, c, r)
  PROVE  InsertsAfter(s, l, c, r, n)
<1>0. PICK k \in Seq(Node) : k = <<c>> /\ Len(k) = 1 /\ HeadOr(k, HeadOr(r, Null)) = c
  BY Single
<1>1. PICK a \in Nat : a = Len(l)
  OBVIOUS
<1>2. PICK q \in Seq(Node) : q = k \o r
  BY ConcatFacts
<1>3. HeadOr(q, Null) = c
  <2>1. HeadOr(k \o r, Null) = HeadOr(k, HeadOr(r, Null))
    BY ConcatEnds
  <2>. QED
    BY <1>0, <1>2, <2>1
<1>4. Forest!Position(s, c) = a + 1
  <2>1. s = l \o q
    BY <1>0, <1>2 DEF Splits
  <2>. QED
    <3>1. Forest!Position(l \o q, c) = a + 1
      BY <1>1, <1>3, PositionAfter
    <3>. QED
      BY <2>1, <3>1
<1>5. PICK m \in Seq(Node) : m = l \o k
  BY ConcatFacts
<1>6. PICK b \in Nat : b = a + 1 /\ b = Len(m) /\ (b + 1) - 1 = b
  <2>1. Len(l \o k) = a + 1
    BY <1>0, <1>1, ConcatEntries
  <2>. QED
    BY <1>5, <2>1
<1>7. s = m \o r
  <2>1. (l \o k) \o r = l \o (k \o r)
    BY ConcatAssociates
  <2>. QED
    BY <1>0, <1>5, <2>1 DEF Splits
<1>8. SubSeq(s, 1, b) = m /\ SubSeq(s, b + 1, Len(s)) = r
  <2>1. b = Len(m)
    BY <1>6
  <2>. QED
    BY ONLY <1>7, <2>1, m \in Seq(Node), r \in Seq(Node), b \in Nat, SubSeqParts
<1>9. PICK x \in Seq(Node) : x = <<n>>
  BY Single
<1>10. Forest!InsertAt(s, b + 1, n) = (m \o x) \o r
  BY <1>6, <1>8, <1>9 DEF Forest!InsertAt
<1>11. (m \o x) \o r = m \o (x \o r)
  BY ConcatAssociates
<1>. QED
  BY <1>0, <1>4, <1>5, <1>6, <1>9, <1>10, <1>11 DEF InsertsAfter

-----------------------------------------------------------------------------
(***************************************************************************)
(* All lists of a tree at once.                                            *)
(***************************************************************************)
LEMMA ListsAre ==
  ASSUME NEW t \in Tree, WellFounded(t.next), NEW K, K = [q \in Node |-> K[q]],
         \A q \in Node : ListFrom(t, t.first[q], K[q])
  PROVE  Lists(t) = K
<1>1. ASSUME NEW q \in Node PROVE Children(t, q) = K[q]
  BY ChildrenIsList, ListUnique
<1>. QED
  BY <1>1 DEF Lists

LEMMA ListsFacts ==
  ASSUME NEW t \in Tree, Good(t)
  PROVE  /\ Lists(t) \in [Node -> Seq(Node)]
         /\ \A q \in Node : /\ Lists(t)[q] = Children(t, q) /\ ListFrom(t, t.first[q], Lists(t)[q])
                            /\ IsInjective(Lists(t)[q]) /\ ToSet(Lists(t)[q]) = Kids(t, q)
<1>1. \A q \in Node : Lists(t)[q] = Children(t, q) /\ Lists(t) = [n \in Node |-> Lists(t)[n]]
  BY DEF Lists
<1>2. ASSUME NEW q \in Node
      PROVE  /\ ListFrom(t, t.first[q], Lists(t)[q]) /\ Lists(t)[q] \in Seq(Node)
             /\ IsInjective(Lists(t)[q]) /\ ToSet(Lists(t)[q]) = Kids(t, q)
  <2>1. ListFrom(t, t.first[q], Children(t, q))
    BY ChildrenIsList DEF Good
  <2>2. PICK s : s = Children(t, q) /\ ListFrom(t, t.first[q], s)
    BY <2>1
  <2>3. s \in Seq(Node) /\ IsInjective(s) /\ ToSet(s) = Kids(t, q)
    BY <2>2, ListFacts
  <2>. QED
    BY <1>1, <2>2, <2>3
<1>3. Lists(t) \in [Node -> Seq(Node)]
  <2>1. \A K : K = [n \in Node |-> K[n]] /\ (\A n \in Node : K[n] \in Seq(Node)) => K \in [Node -> Seq(Node)]
    OBVIOUS
  <2>2. Lists(t) = [n \in Node |-> Lists(t)[n]]
    BY DEF Lists
  <2>. QED
    BY <1>2, <2>1, <2>2
<1>. QED
  BY <1>1, <1>2, <1>3

LEMMA WithoutIs ==
  ASSUME NEW K, NEW gone
  PROVE  Forest!Without(K, gone) = [q \in Node |-> Keeping(K[q], Node \ gone)]
<1>1. \A s, S : Forest!Keeping(s, S) = Keeping(s, S)
  BY Zenon DEF Forest!Keeping, Keeping
<1>. QED
  BY <1>1 DEF Forest!Without

LEMMA WithoutOthers ==
  ASSUME NEW s \in Seq(Node), NEW gone, ToSet(s) \cap gone = {}
  PROVE  Keeping(s, Node \ gone) = s
<1>1. \A m \in ToSet(s) : m \in Node
  BY EntryNotNull
<1>2. ToSet(s) \subseteq Node \ gone
  BY <1>1
<1>. QED
  BY <1>2, KeepingAll

(***************************************************************************)
(* A detached node is out of all lists, and no list is otherwise touched.  *)
(***************************************************************************)
LEMMA DetachLists ==
  ASSUME NEW t \in Tree, Good(t), NEW c \in Node
  PROVE  Forest!Without(Lists(t), {c}) = Lists(Detach(t, c))
<1>. DEFINE d == Detach(t, c)
            K == [q \in Node |-> Keeping(Lists(t)[q], Node \ {c})]
<1>1. d \in Tree /\ IsDetach(t, c, d) /\ Good(d)
  BY DetachFields, DetachGood
<1>. HIDE DEF d
<1>2. ASSUME NEW q \in Node PROVE ListFrom(d, d.first[q], Keeping(Lists(t)[q], Node \ {c}))
  <2>1. PICK s \in Seq(Node) : /\ s = Lists(t)[q] /\ ListFrom(t, t.first[q], s)
                               /\ IsInjective(s) /\ ToSet(s) = Kids(t, q)
    BY ListsFacts
  <2>2. CASE t.parent[c] = q
    <3>1. PICK l \in Seq(Node), r \in Seq(Node) : Around(t, s, l, c, r)
      BY <2>1, <2>2, AroundChild
    <3>2. ListFrom(d, d.first[q], l \o r)
      BY <1>1, <2>1, <2>2, <3>1, DetachOwnList
    <3>3. PICK x \in Seq(Node) : x = <<c>> /\ ToSet(x) = {c}
      BY Single
    <3>4. s = l \o (x \o r)
      BY <3>1, <3>3 DEF Around, Splits
    <3>5. ToSet(l) \cap {c} = {} /\ ToSet(r) \cap {c} = {}
      <4>1. IsInjective(l \o (x \o r))
        BY <2>1, <3>4
      <4>2. ToSet(l) \cap ToSet(x) = {} /\ ToSet(x) \cap ToSet(r) = {}
        BY <4>1, ThreeParts
      <4>. QED
        BY <3>3, <4>2
    <3>6. {c} \in SUBSET Node /\ ToSet(x) \subseteq {c}
      BY <3>3
    <3>7. Keeping(l \o (x \o r), Node \ {c}) = l \o r
      BY <3>5, <3>6, KeepingApart
    <3>. QED
      BY <2>1, <3>2, <3>4, <3>7
  <2>3. CASE t.parent[c] # q
    <3>1. ListFrom(d, d.first[q], s)
      BY <1>1, <2>1, <2>3, DetachOtherList
    <3>2. ToSet(s) \cap {c} = {}
      BY <2>1, <2>3 DEF Kids
    <3>3. Keeping(s, Node \ {c}) = s
      BY <3>2, WithoutOthers
    <3>. QED
      BY <2>1, <3>1, <3>3
  <2>. QED
    BY <2>2, <2>3
<1>3. Lists(d) = K
  <2>1. K = [q \in Node |-> K[q]] /\ \A q \in Node : ListFrom(d, d.first[q], K[q])
    BY <1>2
  <2>. HIDE DEF K
  <2>. QED
    BY <1>1, <2>1, ListsAre DEF Good
<1>. QED
  BY <1>3, WithoutIs DEF d

(***************************************************************************)
(* Taking out what is in no list changes nothing.                          *)
(***************************************************************************)
LEMMA WithoutStrangers ==
  ASSUME NEW t \in Tree, Good(t), NEW gone, \A m \in gone \cap Node : t.parent[m] = Null
  PROVE  Forest!Without(Lists(t), gone) = Lists(t)
<1>1. ASSUME NEW q \in Node PROVE Keeping(Lists(t)[q], Node \ gone) = Lists(t)[q]
  <2>1. PICK s \in Seq(Node) : s = Lists(t)[q] /\ ToSet(s) = Kids(t, q)
    BY ListsFacts
  <2>2. ToSet(s) \cap gone = {}
    BY <2>1 DEF Kids
  <2>. QED
    BY <2>1, <2>2, WithoutOthers
<1>2. Lists(t) = [q \in Node |-> Lists(t)[q]]
  BY DEF Lists
<1>3. Forest!Without(Lists(t), gone) = [q \in Node |-> Keeping(Lists(t)[q], Node \ gone)]
  BY WithoutIs
<1>. QED
  BY <1>1, <1>2, <1>3, Zenon

(***************************************************************************)
(* Taking a fragment's children out empties its list and no other.         *)
(***************************************************************************)
LEMMA WithoutKids ==
  ASSUME NEW t \in Tree, Good(t), NEW f \in Node
  PROVE  Forest!Without(Lists(t), Kids(t, f)) = [Lists(t) EXCEPT ![f] = <<>>]
<1>1. ASSUME NEW q \in Node, q # f PROVE Keeping(Lists(t)[q], Node \ Kids(t, f)) = Lists(t)[q]
  <2>1. PICK s \in Seq(Node) : s = Lists(t)[q] /\ ToSet(s) = Kids(t, q)
    BY ListsFacts
  <2>2. ToSet(s) \cap Kids(t, f) = {}
    BY <1>1, <2>1 DEF Kids
  <2>. QED
    BY <2>1, <2>2, WithoutOthers
<1>2. Keeping(Lists(t)[f], Node \ Kids(t, f)) = <<>>
  <2>1. PICK s \in Seq(Node) : s = Lists(t)[f] /\ ToSet(s) = Kids(t, f)
    BY ListsFacts
  <2>2. ToSet(s) \cap (Node \ Kids(t, f)) = {}
    BY <2>1
  <2>. QED
    BY <2>1, <2>2, KeepingNone
<1>3. Lists(t) \in [Node -> Seq(Node)]
  BY ListsFacts
<1>4. Forest!Without(Lists(t), Kids(t, f)) = [q \in Node |-> Keeping(Lists(t)[q], Node \ Kids(t, f))]
  BY WithoutIs
<1>5. [Lists(t) EXCEPT ![f] = <<>>] = [q \in Node |-> IF q = f THEN <<>> ELSE Lists(t)[q]]
  BY <1>3
<1>6. ASSUME NEW q \in Node
      PROVE  Keeping(Lists(t)[q], Node \ Kids(t, f)) = IF q = f THEN <<>> ELSE Lists(t)[q]
  BY <1>1, <1>2
<1>. QED
  BY <1>4, <1>5, <1>6, Zenon

(***************************************************************************)
(* A chain x on its own, and the place of its nodes among the lists K of a *)
(* tree: in none of them.                                                  *)
(***************************************************************************)
IsChain(u, x, a, b) ==
  /\ x \in Seq(Node) /\ x # <<>> /\ IsInjective(x) /\ Run(u, x, Null)
  /\ a = HeadOr(x, Null) /\ b = LastOr(x, Null)

ListsHold(u, K) ==
  /\ K \in [Node -> Seq(Node)]
  /\ \A q \in Node : ListFrom(u, u.first[q], K[q]) /\ IsInjective(K[q])
  /\ \A p, q \in Node : p # q => ToSet(K[p]) \cap ToSet(K[q]) = {}

NotListed(K, x) == \A q \in Node : ToSet(K[q]) \cap ToSet(x) = {}

\* The gap of s between l and r, and the siblings on its sides.
GapOf(s, l, r, pv, nx) ==
  l \in Seq(Node) /\ r \in Seq(Node) /\ s = l \o r /\ pv = LastOr(l, Null) /\ nx = HeadOr(r, Null)

(***************************************************************************)
(* link_detached_chain_between changes one list, and puts the chain there. *)
(***************************************************************************)
IsLinked(u, K, p, C, x, a, b, l, r, pv, nx, d) ==
  /\ p \in Node /\ ListsHold(u, K) /\ IsChain(u, x, a, b) /\ NotListed(K, x)
  /\ GapOf(K[p], l, r, pv, nx)
  /\ d \in Tree /\ IsLink(u, p, C, a, b, pv, nx, d) /\ WellFounded(d.next)

LEMMA LinkLists ==
  ASSUME NEW u, NEW K, NEW p, NEW C, NEW x, NEW a, NEW b, NEW l, NEW r, NEW pv, NEW nx, NEW d,
         IsLinked(u, K, p, C, x, a, b, l, r, pv, nx, d)
  PROVE  Lists(d) = [K EXCEPT ![p] = l \o (x \o r)]
<1>. p \in Node /\ ListsHold(u, K) /\ IsChain(u, x, a, b) /\ NotListed(K, x)
     /\ GapOf(K[p], l, r, pv, nx)
     /\ d \in Tree /\ IsLink(u, p, C, a, b, pv, nx, d) /\ WellFounded(d.next)
  BY DEF IsLinked
<1>1. /\ l \in Seq(Node) /\ r \in Seq(Node) /\ K[p] = l \o r /\ pv = LastOr(l, Null) /\ nx = HeadOr(r, Null)
      /\ x \in Seq(Node) /\ x # <<>> /\ IsInjective(x) /\ Run(u, x, Null)
      /\ a = HeadOr(x, Null) /\ b = LastOr(x, Null)
  BY DEF GapOf, IsChain
<1>2. /\ K \in [Node -> Seq(Node)]
      /\ \A q \in Node : /\ ListFrom(u, u.first[q], K[q]) /\ IsInjective(K[q])
                         /\ ToSet(K[q]) \cap ToSet(x) = {}
                         /\ q # p => ToSet(K[p]) \cap ToSet(K[q]) = {}
  BY DEF ListsHold, NotListed
<1>3. ToSet(K[p]) = ToSet(l) \cup ToSet(r) /\ IsInjective(l) /\ IsInjective(r) /\ ToSet(l) \cap ToSet(r) = {}
  <2>1. IsInjective(l \o r)
    BY <1>1, <1>2
  <2>. QED
    BY ONLY <1>1, <2>1, Parts
<1>4. IsInjective(l \o (x \o r))
  <2>1. ToSet(l) \cap ToSet(x) = {} /\ ToSet(x) \cap ToSet(r) = {}
    BY <1>2, <1>3
  <2>. QED
    BY ONLY <1>1, <1>3, <2>1, ThreeParts
<1>5. ListFrom(d, d.first[p], l \o (x \o r))
  <2>1. ListFrom(u, u.first[p], l \o r)
    BY <1>1, <1>2
  <2>. QED
    BY ONLY <1>1, <1>4, <2>1, p \in Node, IsLink(u, p, C, a, b, pv, nx, d), LinkOwnList
<1>6. pv \in ToSet(K[p]) \cup {Null} /\ b \in ToSet(x)
  <2>1. pv \in ToSet(l) \cup {Null} /\ b \in ToSet(x)
    BY <1>1, EntryNotNull
  <2>. QED
    BY <1>3, <2>1
<1>7. ASSUME NEW q \in Node, q # p PROVE ListFrom(d, d.first[q], K[q])
  <2>1. PICK s \in Seq(Node) : s = K[q]
    BY <1>2
  <2>2. \A m \in ToSet(s) : m # Null
    BY EntryNotNull
  <2>3. pv \notin ToSet(s) /\ b \notin ToSet(s)
    BY <1>2, <1>6, <1>7, <2>1, <2>2
  <2>4. ListFrom(u, u.first[q], s)
    BY <1>2, <2>1
  <2>5. ListFrom(d, d.first[q], s)
    BY ONLY <1>7, <2>3, <2>4, p \in Node, q \in Node, IsLink(u, p, C, a, b, pv, nx, d), LinkOtherList
  <2>. QED
    BY <2>1, <2>5
<1>. DEFINE L == [K EXCEPT ![p] = l \o (x \o r)]
<1>8. L = [q \in Node |-> IF q = p THEN l \o (x \o r) ELSE K[q]]
  BY <1>2
<1>9. L = [q \in Node |-> L[q]] /\ \A q \in Node : ListFrom(d, d.first[q], L[q])
  BY <1>5, <1>7, <1>8
<1>. HIDE DEF L
<1>10. Lists(d) = L
  BY <1>9, ListsAre
<1>. QED
  BY <1>10 DEF L

(***************************************************************************)
(* The lists of a good tree hold each node once.                           *)
(***************************************************************************)
LEMMA GoodHolds ==
  ASSUME NEW t \in Tree, Good(t)
  PROVE  ListsHold(t, Lists(t))
<1>1. /\ Lists(t) \in [Node -> Seq(Node)]
      /\ \A q \in Node : /\ ListFrom(t, t.first[q], Lists(t)[q])
                         /\ IsInjective(Lists(t)[q]) /\ ToSet(Lists(t)[q]) = Kids(t, q)
  BY ListsFacts
<1>2. \A p, q \in Node : p # q => Kids(t, p) \cap Kids(t, q) = {}
  BY DEF Kids
<1>. QED
  BY <1>1, <1>2 DEF ListsHold

(***************************************************************************)
(* A fragment whose children were unhooked has an empty list, the others   *)
(* are as they were, and its children are a chain.                         *)
(***************************************************************************)
LEMMA UnhookLists ==
  ASSUME NEW t \in Tree, Good(t), NEW f \in Node, t.first[f] # Null, NEW u \in Tree, IsUnhook(t, f, u)
  PROVE  /\ ListsHold(u, [Lists(t) EXCEPT ![f] = <<>>])
         /\ IsChain(u, Lists(t)[f], t.first[f], t.last[f])
         /\ NotListed([Lists(t) EXCEPT ![f] = <<>>], Lists(t)[f])
<1>. DEFINE K == [Lists(t) EXCEPT ![f] = <<>>]
<1>1. /\ Lists(t) \in [Node -> Seq(Node)]
      /\ \A q \in Node : /\ ListFrom(t, t.first[q], Lists(t)[q])
                         /\ IsInjective(Lists(t)[q]) /\ ToSet(Lists(t)[q]) = Kids(t, q)
  BY ListsFacts
<1>2. \A m \in Node : u.next[m] = t.next[m] /\ u.first[m] = IF m = f THEN Null ELSE t.first[m]
  BY DEF IsUnhook
<1>3. <<>> \in Seq(Node) /\ ToSet(<<>>) = {} /\ IsInjective(<<>>)
  BY DEF ToSet, IsInjective
<1>4. K \in [Node -> Seq(Node)] /\ \A q \in Node : K[q] = IF q = f THEN <<>> ELSE Lists(t)[q]
  BY <1>1, <1>3
<1>5. ASSUME NEW s, NEW q \in Node, ListFrom(t, t.first[q], s)
      PROVE  s \in Seq(Node) /\ HeadOr(s, Null) = t.first[q] /\ Run(u, s, Null)
  <2>1. s \in Seq(Node) /\ HeadOr(s, Null) = t.first[q] /\ Run(t, s, Null)
    BY <1>5 DEF ListFrom
  <2>2. \A m \in ToSet(s) : u.next[m] = t.next[m]
    BY <1>2, <2>1, EntryNotNull
  <2>. QED
    BY <2>1, <2>2, RunSame
<1>6. ASSUME NEW q \in Node PROVE ListFrom(u, u.first[q], K[q]) /\ IsInjective(K[q])
  <2>1. CASE q = f
    BY <1>2, <1>3, <1>4, <2>1, ListFromNull
  <2>2. CASE q # f
    BY <1>1, <1>2, <1>4, <1>5, <2>2 DEF ListFrom
  <2>. QED
    BY <2>1, <2>2
<1>7. \A q \in Node : ToSet(K[q]) = IF q = f THEN {} ELSE Kids(t, q)
  BY <1>1, <1>3, <1>4
<1>8. ListsHold(u, K)
  <2>1. ASSUME NEW p \in Node, NEW q \in Node, p # q PROVE ToSet(K[p]) \cap ToSet(K[q]) = {}
    <3>1. Kids(t, p) \cap Kids(t, q) = {}
      BY <2>1 DEF Kids
    <3>2. ToSet(K[p]) \subseteq Kids(t, p) /\ ToSet(K[q]) \subseteq Kids(t, q)
      BY <1>7
    <3>. QED
      BY <3>1, <3>2
  <2>. QED
    BY <1>4, <1>6, <2>1 DEF ListsHold
<1>9. NotListed(K, Lists(t)[f])
  BY <1>1, <1>7 DEF NotListed, Kids
<1>10. IsChain(u, Lists(t)[f], t.first[f], t.last[f])
  <2>1. PICK s : s = Lists(t)[f] /\ ListFrom(t, t.first[f], s) /\ IsInjective(s)
    BY <1>1
  <2>2. s \in Seq(Node) /\ HeadOr(s, Null) = t.first[f] /\ Run(u, s, Null)
    BY <1>5, <2>1
  <2>3. t.last[f] = LastOr(s, Null)
    BY <2>1, ListFacts
  <2>4. s # <<>>
    BY <2>2 DEF HeadOr
  <2>. QED
    BY <2>1, <2>2, <2>3, <2>4 DEF IsChain
<1>. QED
  BY <1>8, <1>9, <1>10

(***************************************************************************)
(* A node that has no parent is a chain of its own.                        *)
(***************************************************************************)
LEMMA SingleChain ==
  ASSUME NEW t \in Tree, Good(t), NEW n \in Node, t.parent[n] = Null
  PROVE  IsChain(t, <<n>>, n, n) /\ NotListed(Lists(t), <<n>>)
<1>1. PICK x \in Seq(Node) : /\ x = <<n>> /\ ToSet(x) = {n} /\ IsInjective(x) /\ x # <<>>
                             /\ Len(x) = 1 /\ HeadOr(x, Null) = n /\ LastOr(x, Null) = n
  BY Single
<1>2. t.next[n] = Null
  BY DEF Good, Mirrors, SiblingsMirror
<1>3. Run(t, x, Null)
  <2>1. DOMAIN x = {1} /\ x[1] = n
    BY <1>1
  <2>. QED
    BY <1>1, <1>2, <2>1 DEF Run
<1>4. NotListed(Lists(t), x)
  <2>1. \A q \in Node : ToSet(Lists(t)[q]) = Kids(t, q)
    BY ListsFacts
  <2>. QED
    BY <1>1, <2>1 DEF NotListed, Kids
<1>. QED
  BY <1>1, <1>3, <1>4 DEF IsChain

-----------------------------------------------------------------------------
(***************************************************************************)
(* The gap before ref, or at the end.                                      *)
(***************************************************************************)
LEMMA GapBeforeIsGapOf ==
  ASSUME NEW t \in Tree, Good(t), NEW p \in Node, NEW ref \in Link, ref # Null => t.parent[ref] = p
  PROVE  \E l, r : GapOf(Lists(t)[p], l, r, GapBefore(t, p, ref), ref) /\ ref \notin ToSet(l)
<1>1. PICK s \in Seq(Node) : s = Lists(t)[p] /\ ListFrom(t, t.first[p], s) /\ IsInjective(s)
  BY ListsFacts
<1>2. CASE ref = Null
  <2>1. t.last[p] = LastOr(s, Null)
    BY <1>1, ListFacts
  <2>2. <<>> \in Seq(Node) /\ s \o <<>> = s /\ HeadOr(<<>>, Null) = Null
    BY DEF HeadOr
  <2>3. Null \notin ToSet(s)
    BY EntryNotNull
  <2>. QED
    BY <1>1, <1>2, <2>1, <2>2, <2>3 DEF GapOf, GapBefore
<1>3. CASE ref # Null
  <2>1. PICK l \in Seq(Node), r \in Seq(Node) : Around(t, s, l, ref, r)
    BY <1>1, <1>3, AroundChild
  <2>2. PICK x \in Seq(Node) : x = <<ref>> /\ ToSet(x) = {ref} /\ \A e : HeadOr(x, e) = ref
    BY <1>3, Single
  <2>3. PICK q \in Seq(Node) : q = x \o r
    BY ConcatFacts
  <2>4. HeadOr(q, Null) = ref
    <3>1. HeadOr(x \o r, Null) = HeadOr(x, HeadOr(r, Null))
      BY ConcatEnds
    <3>. QED
      BY <2>2, <2>3, <3>1
  <2>5. s = l \o q /\ t.prev[ref] = LastOr(l, Null)
    BY <2>1, <2>2, <2>3 DEF Around, Splits
  <2>6. ref \notin ToSet(l)
    <3>1. IsInjective(l \o (x \o r))
      BY <1>1, <2>3, <2>5
    <3>2. ToSet(l) \cap ToSet(x) = {}
      BY <3>1, ThreeParts
    <3>. QED
      BY <2>2, <3>2
  <2>. QED
    BY <1>1, <1>3, <2>4, <2>5, <2>6 DEF GapOf, GapBefore
<1>. QED
  BY <1>2, <1>3

(***************************************************************************)
(* What DomForest's insertion is, once the moved nodes are out.            *)
(***************************************************************************)
LEMMA WithInsertedIs ==
  ASSUME NEW p, NEW n, NEW ref, ref # n, NEW x, x = Forest!Moved(n),
         NEW K, K = Forest!Without(Lists(tree), ToSet(x))
  PROVE  Forest!WithInserted(p, n, ref) = [K EXCEPT ![p] = Forest!PutBefore(K[p], ref, x)]
<1>1. \A s : Forest!ToSet(s) = ToSet(s)
  BY DEF Forest!ToSet, ToSet
<1>. QED
  BY <1>1, Zenon DEF Forest!WithInserted

LEMMA PutInGapOf ==
  ASSUME NEW s, NEW l, NEW r, NEW pv, NEW ref \in Link, GapOf(s, l, r, pv, ref), ref \notin ToSet(l),
         NEW x \in Seq(Node)
  PROVE  Forest!PutBefore(s, ref, x) = l \o (x \o r)
BY PutInGap DEF GapOf

(***************************************************************************)
(* pre_insert of an ordinary node and of a fragment.                       *)
(***************************************************************************)
LEMMA InsertOneLists ==
  ASSUME tree \in Tree, Good(tree), NEW p \in Node, NEW c \in Node, p # c, ~ IsFragment(c),
         NEW ref \in Link, ref # c, ref # Null => tree.parent[ref] = p,
         Good(Inserted(tree, p, c, ref))
  PROVE  Forest!WithInserted(p, c, ref) = Lists(Inserted(tree, p, c, ref))
<1>. DEFINE u == IF tree.parent[c] = Null THEN tree ELSE Detach(tree, c)
            pv == GapBefore(u, p, ref)
            d == LinkChain(u, p, {c}, c, c, pv, ref)
<1>1. u \in Tree /\ Good(u) /\ u.parent[c] = Null /\ (ref # Null => u.parent[ref] = p)
  BY DetachGood, DetachFields DEF IsDetach
<1>2. Forest!Without(Lists(tree), {c}) = Lists(u)
  <2>1. CASE tree.parent[c] = Null
    <3>1. \A m \in {c} \cap Node : tree.parent[m] = Null
      BY <2>1
    <3>. QED
      BY <2>1, <3>1, WithoutStrangers
  <2>2. CASE tree.parent[c] # Null
    BY <2>2, DetachLists
  <2>. QED
    BY <2>1, <2>2
<1>3. Inserted(tree, p, c, ref) = d
  BY DEF Inserted, LinkOne
<1>. HIDE DEF u
<1>4. PICK l, r : GapOf(Lists(u)[p], l, r, pv, ref) /\ ref \notin ToSet(l)
  BY <1>1, GapBeforeIsGapOf
<1>5. pv \in Link
  <2>1. u.last[p] \in Link /\ (ref # Null => u.prev[ref] \in Link)
    BY <1>1 DEF Tree
  <2>. QED
    BY <2>1 DEF GapBefore
<1>. HIDE DEF pv
<1>6. d \in Tree /\ IsLink(u, p, {c}, c, c, pv, ref, d)
  <2>1. {c} \in SUBSET Node
    OBVIOUS
  <2>. QED
    BY <1>1, <1>5, <2>1, LinkFields
<1>7. WellFounded(d.next)
  BY <1>3 DEF Good
<1>. HIDE DEF d
<1>8. PICK x \in Seq(Node) : x = <<c>> /\ ToSet(x) = {c}
  BY Single
<1>9. IsChain(u, x, c, c) /\ NotListed(Lists(u), x)
  BY <1>1, <1>8, SingleChain
<1>10. ListsHold(u, Lists(u))
  BY <1>1, GoodHolds
<1>11. Lists(d) = [Lists(u) EXCEPT ![p] = l \o (x \o r)]
  <2>1. IsLinked(u, Lists(u), p, {c}, x, c, c, l, r, pv, ref, d)
    BY <1>4, <1>6, <1>7, <1>9, <1>10 DEF IsLinked
  <2>. QED
    BY <2>1, LinkLists
<1>12. Forest!PutBefore(Lists(u)[p], ref, x) = l \o (x \o r)
  BY <1>4, PutInGapOf
<1>13. x = Forest!Moved(c) /\ Lists(u) = Forest!Without(Lists(tree), ToSet(x))
  BY <1>2, <1>8 DEF Forest!Moved, IsFragment
<1>14. Forest!WithInserted(p, c, ref) = [Lists(u) EXCEPT ![p] = Forest!PutBefore(Lists(u)[p], ref, x)]
  BY <1>13, WithInsertedIs
<1>. QED
  BY <1>3, <1>11, <1>12, <1>14

LEMMA InsertKidsLists ==
  ASSUME tree \in Tree, Good(tree), NEW p \in Node, NEW c \in Node, p # c, IsFragment(c),
         tree.first[c] # Null,
         NEW ref \in Link, ref # c, ref # Null => tree.parent[ref] = p,
         Good(Inserted(tree, p, c, ref))
  PROVE  Forest!WithInserted(p, c, ref) = Lists(Inserted(tree, p, c, ref))
<1>. DEFINE u == Unhook(tree, c)
            pv == GapBefore(tree, p, ref)
            C == Kids(tree, c)
            a == tree.first[c]
            b == tree.last[c]
            d == LinkChain(u, p, C, a, b, pv, ref)
            K == [Lists(tree) EXCEPT ![c] = <<>>]
<1>1. u \in Tree /\ IsUnhook(tree, c, u)
  BY UnhookFields
<1>2. Inserted(tree, p, c, ref) = LinkChain(u, p, C, a, b, GapBefore(u, p, ref), ref)
  BY DEF Inserted
<1>. HIDE DEF u
<1>3. GapBefore(u, p, ref) = pv
  BY <1>1 DEF GapBefore, IsUnhook
<1>4. PICK l, r : GapOf(Lists(tree)[p], l, r, pv, ref) /\ ref \notin ToSet(l)
  BY GapBeforeIsGapOf
<1>5. pv \in Link /\ a \in Node /\ b \in Node /\ C \in SUBSET Node
  <2>1. tree.last[p] \in Link /\ (ref # Null => tree.prev[ref] \in Link) /\ a \in Link /\ b \in Link
    BY DEF Tree
  <2>2. b # Null
    BY DEF Good, Mirrors, EndsMirror
  <2>. QED
    BY <2>1, <2>2 DEF GapBefore, Kids
<1>6. ListsHold(u, K) /\ IsChain(u, Lists(tree)[c], a, b) /\ NotListed(K, Lists(tree)[c])
  BY <1>1, UnhookLists
<1>7. K[p] = Lists(tree)[p] /\ K = Forest!Without(Lists(tree), ToSet(Lists(tree)[c]))
  <2>1. Lists(tree) \in [Node -> Seq(Node)] /\ ToSet(Lists(tree)[c]) = C
    BY ListsFacts
  <2>2. Forest!Without(Lists(tree), C) = K
    BY WithoutKids
  <2>. QED
    BY <2>1, <2>2
<1>8. d = Inserted(tree, p, c, ref)
  BY <1>2, <1>3
<1>. HIDE DEF pv, C, a, b, K
<1>9. d \in Tree /\ IsLink(u, p, C, a, b, pv, ref, d)
  BY <1>1, <1>5, LinkFields
<1>10. WellFounded(d.next)
  BY <1>8 DEF Good
<1>. HIDE DEF d
<1>11. PICK x \in Seq(Node) : x = Lists(tree)[c]
  BY <1>6 DEF IsChain
<1>12. Lists(d) = [K EXCEPT ![p] = l \o (x \o r)]
  <2>1. IsLinked(u, K, p, C, x, a, b, l, r, pv, ref, d)
    BY <1>4, <1>6, <1>7, <1>9, <1>10, <1>11 DEF IsLinked
  <2>. QED
    BY <2>1, LinkLists
<1>13. Forest!PutBefore(K[p], ref, x) = l \o (x \o r)
  BY <1>4, <1>7, PutInGapOf
<1>14. x = Forest!Moved(c)
  BY <1>11 DEF Forest!Moved, IsFragment
<1>15. Forest!WithInserted(p, c, ref) = [K EXCEPT ![p] = Forest!PutBefore(K[p], ref, x)]
  BY <1>7, <1>11, <1>14, WithInsertedIs
<1>. QED
  BY <1>8, <1>12, <1>13, <1>15

(***************************************************************************)
(* The early returns of pre_insert: the lists are what they should be.     *)
(***************************************************************************)
LEMMA PutNothing ==
  ASSUME NEW t \in Tree, Good(t), NEW p \in Node, NEW ref \in Link, ref # Null => t.parent[ref] = p
  PROVE  Forest!PutBefore(Lists(t)[p], ref, <<>>) = Lists(t)[p]
<1>1. PICK l, r : GapOf(Lists(t)[p], l, r, GapBefore(t, p, ref), ref) /\ ref \notin ToSet(l)
  BY GapBeforeIsGapOf
<1>2. PICK x \in Seq(Node) : x = <<>>
  <2>1. <<>> \in Seq(Node)
    OBVIOUS
  <2>. QED
    BY ONLY <2>1
<1>3. Forest!PutBefore(Lists(t)[p], ref, x) = l \o (x \o r)
  BY <1>1, PutInGapOf
<1>4. l \in Seq(Node) /\ r \in Seq(Node) /\ Lists(t)[p] = l \o r
  BY <1>1 DEF GapOf
<1>5. l \o (<<>> \o r) = l \o r
  BY <1>4, NothingBetween
<1>. QED
  BY <1>2, <1>3, <1>4, <1>5

LEMMA PutBack ==
  ASSUME NEW t \in Tree, Good(t), NEW p \in Node, NEW c \in Node, t.parent[c] = p
  PROVE  Forest!PutBefore(Keeping(Lists(t)[p], Node \ {c}), t.next[c], <<c>>) = Lists(t)[p]
<1>1. PICK s \in Seq(Node) : s = Lists(t)[p] /\ ListFrom(t, t.first[p], s) /\ IsInjective(s)
  BY ListsFacts
<1>2. PICK l \in Seq(Node), r \in Seq(Node) : Around(t, s, l, c, r)
  BY <1>1, AroundChild
<1>3. PICK x \in Seq(Node) : x = <<c>> /\ ToSet(x) = {c}
  BY Single
<1>4. s = l \o (x \o r) /\ t.next[c] = HeadOr(r, Null)
  BY <1>2, <1>3 DEF Around, Splits
<1>5. /\ ToSet(l) \cap {c} = {} /\ ToSet(r) \cap {c} = {} /\ ToSet(l) \cap ToSet(r) = {}
      /\ {c} \in SUBSET Node /\ ToSet(x) \subseteq {c}
  <2>1. IsInjective(l \o (x \o r))
    BY <1>1, <1>4
  <2>2. ToSet(l) \cap ToSet(x) = {} /\ ToSet(x) \cap ToSet(r) = {} /\ ToSet(l) \cap ToSet(r) = {}
    BY <2>1, ThreeParts
  <2>. QED
    BY <1>3, <2>2
<1>6. Keeping(l \o (x \o r), Node \ {c}) = l \o r
  BY <1>5, KeepingApart
<1>7. PICK ref \in Link : ref = t.next[c]
  BY DEF Tree
<1>8. ref \notin ToSet(l)
  <2>1. ref = Null \/ ref \in ToSet(r)
    BY <1>4, <1>7, EntryNotNull
  <2>2. Null \notin ToSet(l)
    BY EntryNotNull
  <2>. QED
    BY <1>5, <2>1, <2>2
<1>9. Forest!PutBefore(l \o r, ref, x) = l \o (x \o r)
  BY <1>4, <1>7, <1>8, PutInGap
<1>. QED
  BY <1>1, <1>3, <1>4, <1>6, <1>7, <1>9

LEMMA InPlaceLists ==
  ASSUME tree \in Tree, Good(tree), NEW p \in Node, NEW c \in Node, p # c,
         IsFragment(c) => tree.parent[c] = Null,
         NEW ref \in Link, ref # c /\ ref # Null => tree.parent[ref] = p,
         InsertInPlace(p, c, ref)
  PROVE  Forest!WithInserted(p, c, ref) = Lists(tree)
<1>1. CASE ref = c
  BY <1>1 DEF Forest!WithInserted
<1>2. Lists(tree) \in [Node -> Seq(Node)]
  BY ListsFacts
<1>3. CASE ref # c /\ IsFragment(c) /\ tree.first[c] = Null
  <2>1. Lists(tree)[c] = <<>>
    <3>1. ListFrom(tree, tree.first[c], Lists(tree)[c])
      BY ListsFacts
    <3>2. ListFrom(tree, tree.first[c], <<>>)
      BY <1>3, ListFromNull
    <3>. QED
      BY <3>1, <3>2, ListUnique
  <2>2. PICK x : x = Forest!Moved(c) /\ x = <<>>
    BY <1>3, <2>1 DEF Forest!Moved, IsFragment
  <2>3. Forest!Without(Lists(tree), ToSet(x)) = Lists(tree)
    <3>1. \A m \in ToSet(x) \cap Node : tree.parent[m] = Null
      BY <2>2 DEF ToSet
    <3>. QED
      BY <3>1, WithoutStrangers
  <2>4. PICK K : K = Lists(tree) /\ K = Forest!Without(Lists(tree), ToSet(x))
    BY <2>3
  <2>5. Forest!WithInserted(p, c, ref) = [K EXCEPT ![p] = Forest!PutBefore(K[p], ref, x)]
    <3>1. ref # c /\ x = Forest!Moved(c) /\ K = Forest!Without(Lists(tree), ToSet(x))
      BY <1>3, <2>2, <2>4
    <3>. QED
      BY ONLY <3>1, WithInsertedIs
  <2>6. Forest!PutBefore(Lists(tree)[p], ref, <<>>) = Lists(tree)[p]
    BY <1>3, PutNothing
  <2>. QED
    BY <1>2, <2>2, <2>4, <2>5, <2>6
<1>4. CASE ref # c /\ tree.parent[c] = p /\ tree.next[c] = ref
  <2>1. ~ IsFragment(c)
    BY <1>4
  <2>2. PICK x : x = Forest!Moved(c) /\ x = <<c>> /\ ToSet(x) = {c}
    BY <2>1, Single DEF Forest!Moved, IsFragment
  <2>3. PICK K : K = Forest!Without(Lists(tree), {c}) /\ K = [q \in Node |-> Keeping(Lists(tree)[q], Node \ {c})]
    BY WithoutIs
  <2>4. ASSUME NEW q \in Node, q # p PROVE K[q] = Lists(tree)[q]
    <3>1. PICK s \in Seq(Node) : s = Lists(tree)[q] /\ ToSet(s) = Kids(tree, q)
      BY ListsFacts
    <3>2. ToSet(s) \cap {c} = {}
      BY <1>4, <2>4, <3>1 DEF Kids
    <3>3. Keeping(s, Node \ {c}) = s
      BY <3>2, WithoutOthers
    <3>. QED
      BY <2>3, <3>1, <3>3
  <2>5. Forest!PutBefore(K[p], ref, x) = Lists(tree)[p]
    <3>1. Forest!PutBefore(Keeping(Lists(tree)[p], Node \ {c}), tree.next[c], <<c>>) = Lists(tree)[p]
      BY <1>4, PutBack
    <3>. QED
      BY <1>4, <2>2, <2>3, <3>1
  <2>6. Forest!WithInserted(p, c, ref) = [K EXCEPT ![p] = Forest!PutBefore(K[p], ref, x)]
    <3>1. ref # c /\ x = Forest!Moved(c) /\ K = Forest!Without(Lists(tree), ToSet(x))
      BY <1>4, <2>2, <2>3
    <3>. QED
      BY ONLY <3>1, WithInsertedIs
  <2>7. [K EXCEPT ![p] = Lists(tree)[p]] = Lists(tree)
    BY <1>2, <2>3, <2>4
  <2>. QED
    BY <2>5, <2>6, <2>7
<1>5. tree.parent[c] = p /\ ref = Null /\ tree.last[p] = c => tree.next[c] = ref
  BY DEF Good, Mirrors, EndsMirror
<1>. QED
  BY <1>1, <1>3, <1>4, <1>5 DEF InsertInPlace

LEMMA PutAtHead ==
  ASSUME NEW l \in Seq(Node), NEW q \in Seq(Node), NEW c \in Node, HeadOr(q, Null) = c,
         c \notin ToSet(l), NEW x \in Seq(Node)
  PROVE  Forest!PutBefore(l \o q, c, x) = l \o (x \o q)
<1>1. PICK ref \in Link : ref = c
  OBVIOUS
<1>. QED
  BY <1>1, PutInGap

HeadedBy(l, q, c, x) ==
  l \in Seq(Node) /\ q \in Seq(Node) /\ x \in Seq(Node) /\ c \in Node /\ HeadOr(q, Null) = c /\ c \notin ToSet(l)

LEMMA PutAtHeadOf ==
  ASSUME NEW l, NEW q, NEW c, NEW x, HeadedBy(l, q, c, x)
  PROVE  Forest!PutBefore(l \o q, c, x) = l \o (x \o q)
BY PutAtHead DEF HeadedBy

Replacing(s, l, x, c, r) == Splits(s, l, c, r) /\ x \in Seq(Node) /\ c \notin ToSet(l)

LEMMA PutAtChild ==
  ASSUME NEW s, NEW l, NEW x, NEW c, NEW r, Replacing(s, l, x, c, r)
  PROVE  Forest!PutBefore(s, c, x) = l \o (x \o (<<c>> \o r))
<1>1. l \in Seq(Node) /\ r \in Seq(Node) /\ x \in Seq(Node) /\ c \in Node /\ s = l \o (<<c>> \o r) /\ c \notin ToSet(l)
  BY DEF Replacing, Splits
<1>2. PICK k \in Seq(Node) : k = <<c>> /\ \A e : HeadOr(k, e) = c
  BY <1>1, Single
<1>3. PICK q \in Seq(Node) : q = k \o r
  BY <1>1, ConcatFacts
<1>5. HeadOr(q, Null) = c
  <2>1. HeadOr(k \o r, Null) = HeadOr(k, HeadOr(r, Null))
    BY <1>1, ConcatEnds
  <2>. QED
    BY <1>2, <1>3, <2>1
<1>6. Forest!PutBefore(l \o q, c, x) = l \o (x \o q)
  <2>1. HeadedBy(l, q, c, x)
    BY <1>1, <1>5 DEF HeadedBy
  <2>. QED
    BY ONLY <2>1, PutAtHeadOf
<1>. QED
  BY <1>1, <1>2, <1>3, <1>6

(***************************************************************************)
(* DomForest's replacement, once the new nodes are out: they take c's      *)
(* place.                                                                  *)
(***************************************************************************)
ReplacesIn(K, p, c, n, x, l, r) ==
  /\ p \in Node /\ c \in Node /\ c # n /\ x \in Seq(Node) /\ x = Forest!Moved(n) /\ c \notin ToSet(x)
  /\ K \in [Node -> Seq(Node)] /\ K = Forest!Without(Lists(tree), ToSet(x))
  /\ l \in Seq(Node) /\ r \in Seq(Node) /\ Splits(K[p], l, c, r) /\ c \notin ToSet(l) /\ c \notin ToSet(r)
  /\ \A q \in Node : q # p => c \notin ToSet(K[q])

LEMMA ReplacedIn ==
  ASSUME NEW K, NEW p, NEW c, NEW n, NEW x, NEW l, NEW r, ReplacesIn(K, p, c, n, x, l, r)
  PROVE  Forest!WithReplaced(p, c, n) = [K EXCEPT ![p] = l \o (x \o r)]
<1>. /\ p \in Node /\ c \in Node /\ c # n /\ x \in Seq(Node) /\ x = Forest!Moved(n) /\ c \notin ToSet(x)
     /\ K \in [Node -> Seq(Node)] /\ K = Forest!Without(Lists(tree), ToSet(x))
     /\ l \in Seq(Node) /\ r \in Seq(Node) /\ Splits(K[p], l, c, r) /\ c \notin ToSet(l) /\ c \notin ToSet(r)
     /\ \A q \in Node : q # p => c \notin ToSet(K[q])
  BY Zenon DEF ReplacesIn
<1>0. l \in Seq(Node) /\ r \in Seq(Node) /\ x \in Seq(Node) /\ c \in Node /\ c \notin ToSet(l)
  OBVIOUS
<1>1. PICK k \in Seq(Node) : k = <<c>> /\ ToSet(k) = {c} /\ \A e : HeadOr(k, e) = c
  BY Single
<1>2. PICK q \in Seq(Node) : q = k \o r
  BY ConcatFacts
<1>4. Forest!PutBefore(K[p], c, x) = l \o (x \o q)
  <2>1. Replacing(K[p], l, x, c, r)
    BY DEF Replacing
  <2>. QED
    <3>1. Forest!PutBefore(K[p], c, x) = l \o (x \o (<<c>> \o r))
      BY ONLY <2>1, PutAtChild
    <3>2. q = <<c>> \o r
      BY <1>1, <1>2
    <3>. QED
      BY ONLY <3>1, <3>2
<1>5. PICK M : M = Forest!WithInserted(p, n, c) /\ M = [K EXCEPT ![p] = l \o (x \o q)]
  <2>1. Forest!WithInserted(p, n, c) = [K EXCEPT ![p] = Forest!PutBefore(K[p], c, x)]
    BY WithInsertedIs
  <2>. QED
    BY <1>4, <2>1
<1>6. Forest!WithReplaced(p, c, n) = [m \in Node |-> Keeping(M[m], Node \ {c})]
  BY <1>5, WithoutIs DEF Forest!WithReplaced
<1>7. Keeping(l \o (x \o q), Node \ {c}) = l \o (x \o r)
  <2>1. PICK y \in Seq(Node) : y = l \o x /\ ToSet(y) = ToSet(l) \cup ToSet(x)
    <3>1. l \o x \in Seq(Node) /\ ToSet(l \o x) = ToSet(l) \cup ToSet(x)
      BY ONLY <1>0, ConcatFacts
    <3>. QED
      BY ONLY <3>1
  <2>2. y \o q = l \o (x \o q) /\ y \o r = l \o (x \o r)
    <3>1. l \in Seq(Node) /\ x \in Seq(Node) /\ q \in Seq(Node) /\ r \in Seq(Node)
      OBVIOUS
    <3>2. Associative(Seq(Node))
      BY ONLY ConcatsAssociate
    <3>3. PICK S : S = Seq(Node)
      OBVIOUS
    <3>4. l \in S /\ x \in S /\ q \in S /\ r \in S
      BY ONLY <3>1, <3>3
    <3>5. \A a, b, d \in S : (a \o b) \o d = a \o (b \o d)
      <4>1. Associative(S)
        BY ONLY <3>2, <3>3
      <4>. QED
        BY ONLY <4>1, Zenon DEF Associative
    <3>6. (l \o x) \o q = l \o (x \o q)
      BY ONLY <3>4, <3>5, Zenon
    <3>7. (l \o x) \o r = l \o (x \o r)
      BY ONLY <3>4, <3>5, Zenon
    <3>. QED
      BY <2>1, <3>6, <3>7
  <2>3. ToSet(y) \cap {c} = {} /\ ToSet(r) \cap {c} = {} /\ ToSet(k) \subseteq {c} /\ {c} \in SUBSET Node
    BY <1>1, <2>1
  <2>4. Keeping(y \o (k \o r), Node \ {c}) = y \o r
    BY <2>3, KeepingApart
  <2>. QED
    BY <1>2, <2>2, <2>4
<1>8. ASSUME NEW m \in Node PROVE Keeping(M[m], Node \ {c}) = IF m = p THEN l \o (x \o r) ELSE K[m]
  <2>1. CASE m = p
    BY <1>5, <1>7, <2>1
  <2>2. CASE m # p
    <3>1. PICK s \in Seq(Node) : s = K[m] /\ ToSet(s) \cap {c} = {}
      BY <2>2
    <3>2. Keeping(s, Node \ {c}) = s
      BY <3>1, WithoutOthers
    <3>3. M[m] = s
      BY <1>5, <2>2, <3>1
    <3>. QED
      BY <2>2, <3>1, <3>2, <3>3
  <2>. QED
    BY <2>1, <2>2
<1>9. [K EXCEPT ![p] = l \o (x \o r)] = [m \in Node |-> IF m = p THEN l \o (x \o r) ELSE K[m]]
  OBVIOUS
<1>. QED
  BY <1>6, <1>8, <1>9, Zenon

(***************************************************************************)
(* replace_child with an ordinary node: the anchors, read before anything  *)
(* is detached, are c's neighbours once the new node is out.               *)
(***************************************************************************)
LEMMA AnchorsAfter ==
  ASSUME NEW t \in Tree, Good(t), NEW c \in Node, NEW n \in Node, n # c, NEW v, IsDetach(t, n, v)
  PROVE  ReplaceAnchors(t, c, n).prev = v.prev[c] /\ ReplaceAnchors(t, c, n).next = v.next[c]
<1>1. n = t.prev[c] <=> c = t.next[n]
  BY DEF Good, Mirrors, SiblingsMirror
<1>2. n = t.next[c] <=> c = t.prev[n]
  BY DEF Good, Mirrors, SiblingsMirror
<1>. QED
  BY <1>1, <1>2 DEF ReplaceAnchors, IsDetach

LEMMA DetachBoth ==
  ASSUME NEW t \in Tree, Good(t), NEW c \in Node, NEW n \in Node
  PROVE  Lists(Detach(Detach(t, c), n)) = Forest!Without(Lists(Detach(t, n)), {c})
<1>1. Detach(t, c) \in Tree /\ Good(Detach(t, c))
  BY DetachGood
<1>2. Lists(Detach(t, c)) = Forest!Without(Lists(t), {c}) /\ Lists(Detach(t, n)) = Forest!Without(Lists(t), {n})
  BY DetachLists
<1>3. Lists(Detach(Detach(t, c), n)) = Forest!Without(Lists(Detach(t, c)), {n})
  BY <1>1, DetachLists
<1>4. ASSUME NEW q \in Node
      PROVE  Keeping(Keeping(Lists(t)[q], Node \ {c}), Node \ {n})
               = Keeping(Keeping(Lists(t)[q], Node \ {n}), Node \ {c})
  <2>1. PICK s \in Seq(Node) : s = Lists(t)[q]
    BY ListsFacts
  <2>2. PICK A : A = Node \ {c}
    OBVIOUS
  <2>3. PICK B : B = Node \ {n}
    OBVIOUS
  <2>4. Keeping(Keeping(s, A), B) = Keeping(s, A \cap B) /\ Keeping(Keeping(s, B), A) = Keeping(s, B \cap A)
    BY KeepingTwice
  <2>5. A \cap B = B \cap A
    OBVIOUS
  <2>. QED
    BY <2>1, <2>2, <2>3, <2>4, <2>5
<1>5. PICK F : F = Lists(t)
  OBVIOUS
<1>6. PICK G : G = Forest!Without(F, {c}) /\ G = [q \in Node |-> Keeping(F[q], Node \ {c})]
  BY WithoutIs
<1>7. PICK H : H = Forest!Without(F, {n}) /\ H = [q \in Node |-> Keeping(F[q], Node \ {n})]
  BY WithoutIs
<1>8. Forest!Without(G, {n}) = [q \in Node |-> Keeping(G[q], Node \ {n})]
  BY WithoutIs
<1>9. Forest!Without(H, {c}) = [q \in Node |-> Keeping(H[q], Node \ {c})]
  BY WithoutIs
<1>10. Forest!Without(G, {n}) = Forest!Without(H, {c})
  BY <1>4, <1>5, <1>6, <1>7, <1>8, <1>9
<1>. QED
  BY <1>2, <1>3, <1>5, <1>6, <1>7, <1>10

(***************************************************************************)
(* The place of a child among its siblings.                                *)
(***************************************************************************)
Place(t, p, l, c, r) ==
  /\ l \in Seq(Node) /\ r \in Seq(Node) /\ Splits(Lists(t)[p], l, c, r)
  /\ c \notin ToSet(l) /\ c \notin ToSet(r)
  /\ t.prev[c] = LastOr(l, Null) /\ t.next[c] = HeadOr(r, Null)
  /\ \A q \in Node : q # p => c \notin ToSet(Lists(t)[q])

LEMMA ChildPlace ==
  ASSUME NEW t \in Tree, Good(t), NEW p \in Node, NEW c \in Node, t.parent[c] = p
  PROVE  \E l, r : Place(t, p, l, c, r)
<1>1. PICK s \in Seq(Node) : s = Lists(t)[p] /\ ListFrom(t, t.first[p], s) /\ IsInjective(s)
  BY ListsFacts
<1>2. PICK l \in Seq(Node), r \in Seq(Node) : Around(t, s, l, c, r)
  BY <1>1, AroundChild
<1>3. Splits(s, l, c, r) /\ t.prev[c] = LastOr(l, Null) /\ t.next[c] = HeadOr(r, Null)
  BY <1>2 DEF Around
<1>4. c \notin ToSet(l) /\ c \notin ToSet(r)
  BY <1>1, <1>3, SplitFacts
<1>5. \A q \in Node : q # p => c \notin ToSet(Lists(t)[q])
  <2>1. \A q \in Node : ToSet(Lists(t)[q]) = Kids(t, q)
    BY ListsFacts
  <2>. QED
    BY <2>1 DEF Kids
<1>6. Place(t, p, l, c, r)
  BY <1>1, <1>3, <1>4, <1>5 DEF Place
<1>. QED
  BY <1>6

LEMMA KeepingAround ==
  ASSUME NEW l \in Seq(Node), NEW r \in Seq(Node), NEW c \in Node, c \notin ToSet(l), c \notin ToSet(r)
  PROVE  Keeping(l \o (<<c>> \o r), Node \ {c}) = l \o r
<1>1. PICK k \in Seq(Node) : k = <<c>> /\ ToSet(k) = {c}
  BY Single
<1>2. PICK S \in SUBSET Node : S = {c}
  OBVIOUS
<1>3. ToSet(l) \cap S = {} /\ ToSet(r) \cap S = {} /\ ToSet(k) \subseteq S
  BY <1>1, <1>2
<1>4. Keeping(l \o (k \o r), Node \ S) = l \o r
  BY <1>3, KeepingApart
<1>. QED
  BY <1>1, <1>2, <1>4

LEMMA ExceptTwice ==
  ASSUME NEW K, NEW p, NEW A, NEW B
  PROVE  [[K EXCEPT ![p] = A] EXCEPT ![p] = B] = [K EXCEPT ![p] = B]
OBVIOUS

LEMMA DetachPlace ==
  ASSUME NEW t \in Tree, Good(t), NEW p \in Node, NEW c \in Node, NEW l, NEW r, Place(t, p, l, c, r)
  PROVE  Lists(Detach(t, c)) = [Lists(t) EXCEPT ![p] = l \o r]
<1>1. /\ l \in Seq(Node) /\ r \in Seq(Node) /\ Lists(t)[p] = l \o (<<c>> \o r)
      /\ c \notin ToSet(l) /\ c \notin ToSet(r)
  BY DEF Place, Splits
<1>3. Keeping(Lists(t)[p], Node \ {c}) = l \o r
  BY <1>1, KeepingAround
<1>4. ASSUME NEW q \in Node, q # p PROVE Keeping(Lists(t)[q], Node \ {c}) = Lists(t)[q]
  <2>1. PICK s \in Seq(Node) : s = Lists(t)[q]
    BY ListsFacts
  <2>2. ToSet(s) \cap {c} = {}
    BY <1>4, <2>1 DEF Place
  <2>. QED
    BY <2>1, <2>2, WithoutOthers
<1>5. Lists(Detach(t, c)) = [q \in Node |-> Keeping(Lists(t)[q], Node \ {c})]
  <2>1. Forest!Without(Lists(t), {c}) = Lists(Detach(t, c))
    BY DetachLists
  <2>2. Forest!Without(Lists(t), {c}) = [q \in Node |-> Keeping(Lists(t)[q], Node \ {c})]
    BY WithoutIs
  <2>. QED
    BY <2>1, <2>2
<1>6. [Lists(t) EXCEPT ![p] = l \o r] = [q \in Node |-> IF q = p THEN l \o r ELSE Lists(t)[q]]
  BY DEF Lists
<1>7. ASSUME NEW q \in Node
      PROVE  Keeping(Lists(t)[q], Node \ {c}) = IF q = p THEN l \o r ELSE Lists(t)[q]
  BY <1>3, <1>4
<1>. QED
  BY <1>5, <1>6, <1>7, Zenon

(***************************************************************************)
(* replace_child with an ordinary node.                                    *)
(***************************************************************************)
LEMMA ReplaceOneLists ==
  ASSUME tree \in Tree, Good(tree), NEW p \in Node, NEW c \in Node, NEW n \in Node,
         tree.parent[c] = p, n # c, n # p, ~ IsFragment(n), Good(Replaced(tree, p, c, n))
  PROVE  Forest!WithReplaced(p, c, n) = Lists(Replaced(tree, p, c, n))
<1>. DEFINE v == Detach(tree, n)
            w == Detach(Detach(tree, c), n)
            pv == ReplaceAnchors(tree, c, n).prev
            nx == ReplaceAnchors(tree, c, n).next
            d == LinkChain(w, p, {n}, n, n, pv, nx)
<1>1. v \in Tree /\ Good(v) /\ IsDetach(tree, n, v) /\ v.parent[c] = p
  BY DetachGood, DetachFields DEF IsDetach
<1>2. w \in Tree /\ Good(w) /\ w.parent[n] = Null
  <2>1. PICK u : u = Detach(tree, c) /\ u \in Tree /\ Good(u)
    BY DetachGood
  <2>2. Detach(u, n) \in Tree /\ Good(Detach(u, n)) /\ Detach(u, n).parent[n] = Null
    <3>1. PICK e : e = Detach(u, n)
      OBVIOUS
    <3>2. e \in Tree /\ Good(e)
      BY <2>1, <3>1, DetachGood
    <3>3. IsDetach(u, n, e)
      BY <2>1, <3>1, DetachFields
    <3>4. e.parent[n] = Null
      BY <3>3 DEF IsDetach
    <3>. QED
      BY <3>1, <3>2, <3>4
  <2>. QED
    BY <2>1, <2>2
<1>3. PICK l, r : Place(v, p, l, c, r)
  BY <1>1, ChildPlace
<1>4. pv = LastOr(l, Null) /\ nx = HeadOr(r, Null)
  <2>1. pv = v.prev[c] /\ nx = v.next[c]
    BY <1>1, AnchorsAfter
  <2>. QED
    BY <1>3, <2>1 DEF Place
<1>5. Lists(w) = [Lists(v) EXCEPT ![p] = l \o r]
  <2>1. Lists(w) = Forest!Without(Lists(v), {c})
    BY DetachBoth
  <2>2. Lists(Detach(v, c)) = Forest!Without(Lists(v), {c})
    BY <1>1, DetachLists
  <2>3. Lists(Detach(v, c)) = [Lists(v) EXCEPT ![p] = l \o r]
    BY <1>1, <1>3, DetachPlace
  <2>. QED
    BY <2>1, <2>2, <2>3
<1>6. Replaced(tree, p, c, n) = d
  BY DEF Replaced, LinkOne
<1>7. Lists(v) = Forest!Without(Lists(tree), {n}) /\ Lists(v) \in [Node -> Seq(Node)]
  <2>1. Lists(v) \in [Node -> Seq(Node)]
    BY <1>1, ListsFacts
  <2>. QED
    BY <2>1, DetachLists
<1>8. pv \in Link /\ nx \in Link
  <2>1. l \in Seq(Node) /\ r \in Seq(Node)
    BY <1>3 DEF Place
  <2>. QED
    BY <1>4, <2>1, EntryNotNull
<1>. HIDE DEF v, w, pv, nx
<1>9. d \in Tree /\ IsLink(w, p, {n}, n, n, pv, nx, d)
  <2>1. {n} \in SUBSET Node
    OBVIOUS
  <2>. QED
    BY <1>2, <1>8, <2>1, LinkFields
<1>10. WellFounded(d.next)
  BY <1>6 DEF Good
<1>. HIDE DEF d
<1>11. PICK x \in Seq(Node) : x = <<n>> /\ ToSet(x) = {n}
  BY Single
<1>12. Lists(d) = [Lists(w) EXCEPT ![p] = l \o (x \o r)]
  <2>1. IsChain(w, x, n, n) /\ NotListed(Lists(w), x)
    BY <1>2, <1>11, SingleChain
  <2>2. ListsHold(w, Lists(w))
    BY <1>2, GoodHolds
  <2>3. GapOf(Lists(w)[p], l, r, pv, nx)
    BY <1>3, <1>4, <1>5, <1>7 DEF Place, GapOf
  <2>4. IsLinked(w, Lists(w), p, {n}, x, n, n, l, r, pv, nx, d)
    BY <1>9, <1>10, <2>1, <2>2, <2>3 DEF IsLinked
  <2>. QED
    BY <2>4, LinkLists
<1>13. Forest!WithReplaced(p, c, n) = [Lists(v) EXCEPT ![p] = l \o (x \o r)]
  <2>1. x = Forest!Moved(n)
    BY <1>11 DEF Forest!Moved, IsFragment
  <2>2. Lists(v) = Forest!Without(Lists(tree), ToSet(x)) /\ c \notin ToSet(x)
    BY <1>7, <1>11
  <2>3. ReplacesIn(Lists(v), p, c, n, x, l, r)
    BY <1>3, <1>7, <2>1, <2>2 DEF Place, ReplacesIn
  <2>. QED
    BY ONLY <2>3, ReplacedIn
<1>14. [Lists(w) EXCEPT ![p] = l \o (x \o r)] = [Lists(v) EXCEPT ![p] = l \o (x \o r)]
  BY ONLY <1>5, ExceptTwice
<1>. QED
  BY ONLY <1>6, <1>12, <1>13, <1>14

LEMMA ExceptCross ==
  ASSUME NEW K, NEW p, NEW n, n # p, NEW A, NEW B, NEW C
  PROVE  [[[K EXCEPT ![p] = A] EXCEPT ![n] = B] EXCEPT ![p] = C] = [[K EXCEPT ![n] = B] EXCEPT ![p] = C]
OBVIOUS

LEMMA EmptyList ==
  ASSUME NEW t \in Tree, Good(t), NEW n \in Node, t.first[n] = Null
  PROVE  Lists(t)[n] = <<>> /\ [Lists(t) EXCEPT ![n] = <<>>] = Lists(t)
<1>1. Lists(t)[n] = <<>>
  <2>1. ListFrom(t, t.first[n], Lists(t)[n])
    BY ListsFacts
  <2>2. ListFrom(t, t.first[n], <<>>)
    BY ListFromNull
  <2>. QED
    BY <2>1, <2>2, ListUnique
<1>. QED
  BY <1>1 DEF Lists

(***************************************************************************)
(* replace_child with a fragment.                                          *)
(***************************************************************************)
LEMMA ReplaceKidsLists ==
  ASSUME tree \in Tree, Good(tree), NEW p \in Node, NEW c \in Node, NEW n \in Node,
         tree.parent[c] = p, n # c, n # p, IsFragment(n), tree.parent[n] = Null,
         Good(Replaced(tree, p, c, n))
  PROVE  Forest!WithReplaced(p, c, n) = Lists(Replaced(tree, p, c, n))
<1>. DEFINE F == Lists(tree)
            K == [F EXCEPT ![n] = <<>>]
            u == Detach(tree, c)
            pv == ReplaceAnchors(tree, c, n).prev
            nx == ReplaceAnchors(tree, c, n).next
<1>1. u \in Tree /\ Good(u) /\ IsDetach(tree, c, u)
  BY DetachGood, DetachFields
<1>2. PICK l, r : Place(tree, p, l, c, r)
  BY ChildPlace
<1>3. F \in [Node -> Seq(Node)] /\ ToSet(F[n]) = Kids(tree, n)
  BY ListsFacts
<1>4. Lists(u) = [F EXCEPT ![p] = l \o r]
  BY <1>2, DetachPlace
<1>5. pv = LastOr(l, Null) /\ nx = HeadOr(r, Null)
  <2>1. n # tree.prev[c] /\ n # tree.next[c]
    BY DEF Good, Mirrors, SiblingsMirror
  <2>. QED
    BY <1>2, <2>1 DEF ReplaceAnchors, Place
<1>6. Replaced(tree, p, c, n) = IF u.first[n] = Null THEN u
                                ELSE LinkChain(Unhook(u, n), p, Kids(u, n), u.first[n], u.last[n], pv, nx)
  BY DEF Replaced
<1>. HIDE DEF u, pv, nx
<1>7. u.first[n] = tree.first[n]
  BY <1>1 DEF IsDetach
<1>8. PICK x \in Seq(Node) : x = F[n]
  BY <1>3
<1>9. ReplacesIn(K, p, c, n, x, l, r)
  <2>1. x = Forest!Moved(n)
    BY <1>8 DEF Forest!Moved, IsFragment
  <2>2. K \in [Node -> Seq(Node)] /\ K[p] = F[p] /\ \A q \in Node : K[q] = F[q] \/ K[q] = <<>>
    BY <1>3
  <2>3. K = Forest!Without(Lists(tree), ToSet(x))
    BY <1>3, <1>8, WithoutKids
  <2>4. c \notin ToSet(x) /\ c \notin ToSet(<<>>)
    BY <1>3, <1>8 DEF Kids, ToSet
  <2>. HIDE DEF K
  <2>5. Splits(K[p], l, c, r) /\ c \notin ToSet(l) /\ c \notin ToSet(r) /\ l \in Seq(Node) /\ r \in Seq(Node)
    BY <1>2, <2>2 DEF Place
  <2>6. \A q \in Node : q # p => c \notin ToSet(K[q])
    BY <1>2, <2>2, <2>4 DEF Place
  <2>. QED
    BY <2>1, <2>2, <2>3, <2>4, <2>5, <2>6 DEF ReplacesIn
<1>10. Forest!WithReplaced(p, c, n) = [K EXCEPT ![p] = l \o (x \o r)]
  <2>. HIDE DEF K
  <2>. QED
    BY ONLY <1>9, ReplacedIn
<1>11. CASE u.first[n] = Null
  <2>1. x = <<>> /\ K = F
    BY <1>7, <1>8, <1>11, EmptyList
  <2>2. l \o (<<>> \o r) = l \o r
    BY <1>2, NothingBetween DEF Place
  <2>3. [F EXCEPT ![p] = l \o (x \o r)] = [F EXCEPT ![p] = l \o r]
    BY ONLY <2>1, <2>2
  <2>. QED
    BY <1>4, <1>6, <1>10, <1>11, <2>1, <2>3
<1>12. CASE u.first[n] # Null
  <2>. DEFINE w == Unhook(u, n)
              C == Kids(u, n)
              a == u.first[n]
              b == u.last[n]
              d == LinkChain(w, p, C, a, b, pv, nx)
              L == [Lists(u) EXCEPT ![n] = <<>>]
  <2>1. w \in Tree /\ IsUnhook(u, n, w)
    BY <1>1, UnhookFields
  <2>2. Replaced(tree, p, c, n) = d
    BY <1>6, <1>12
  <2>. HIDE DEF w
  <2>3. ListsHold(w, L) /\ IsChain(w, Lists(u)[n], a, b) /\ NotListed(L, Lists(u)[n])
    BY <1>1, <1>12, <2>1, UnhookLists
  <2>4. Lists(u)[n] = x /\ L[p] = l \o r
    BY <1>3, <1>4, <1>8
  <2>5. a \in Node /\ b \in Node /\ C \in SUBSET Node
    <3>1. a \in Link /\ b \in Link /\ b # Null
      BY <1>1, <1>12 DEF Tree, Good, Mirrors, EndsMirror
    <3>. QED
      BY <1>12, <3>1 DEF Kids
  <2>6. pv \in Link /\ nx \in Link
    <3>1. l \in Seq(Node) /\ r \in Seq(Node)
      BY <1>2 DEF Place
    <3>. QED
      BY <1>5, <3>1, EntryNotNull
  <2>7. GapOf(L[p], l, r, pv, nx)
    BY <1>2, <1>5, <2>4 DEF Place, GapOf
  <2>8. L = [[F EXCEPT ![p] = l \o r] EXCEPT ![n] = <<>>]
    BY <1>4
  <2>. HIDE DEF a, b, C, L
  <2>9. d \in Tree /\ IsLink(w, p, C, a, b, pv, nx, d)
    BY <2>1, <2>5, <2>6, LinkFields
  <2>10. WellFounded(d.next)
    BY <2>2 DEF Good
  <2>. HIDE DEF d
  <2>11. Lists(d) = [L EXCEPT ![p] = l \o (x \o r)]
    <3>1. IsLinked(w, L, p, C, x, a, b, l, r, pv, nx, d)
      BY <2>3, <2>4, <2>7, <2>9, <2>10 DEF IsLinked
    <3>. QED
      BY <3>1, LinkLists
  <2>12. [L EXCEPT ![p] = l \o (x \o r)] = [K EXCEPT ![p] = l \o (x \o r)]
    BY ONLY n # p, <2>8, ExceptCross DEF K
  <2>. QED
    BY ONLY <1>10, <2>2, <2>11, <2>12
<1>. QED
  BY <1>11, <1>12

(***************************************************************************)
(* The removals of set_text_content, and the text node appended then.      *)
(***************************************************************************)
LEMMA ClearedLists ==
  ASSUME NEW t \in Tree, Good(t), NEW p \in Node
  PROVE  Lists(Cleared(t, p)) = [Lists(t) EXCEPT ![p] = <<>>]
<1>. DEFINE d == Cleared(t, p)
            K == [Lists(t) EXCEPT ![p] = <<>>]
<1>1. d \in Tree /\ Good(d) /\ IsCleared(t, p, d)
  BY ClearedGood, ClearedFields
<1>. HIDE DEF d
<1>2. \A q \in Node : K[q] = IF q = p THEN <<>> ELSE Lists(t)[q]
  BY DEF Lists
<1>3. K = [q \in Node |-> K[q]]
  BY DEF Lists
<1>. HIDE DEF K
<1>4. ASSUME NEW q \in Node PROVE ListFrom(d, d.first[q], K[q])
  <2>1. CASE q = p
    BY <1>1, <1>2, <2>1, ListFromNull DEF IsCleared
  <2>2. CASE q # p
    <3>1. PICK s : s = Lists(t)[q] /\ ListFrom(t, t.first[q], s) /\ ToSet(s) = Kids(t, q)
      BY ListsFacts
    <3>2. s \in Seq(Node) /\ HeadOr(s, Null) = t.first[q] /\ Run(t, s, Null)
      BY <3>1 DEF ListFrom
    <3>3. \A m \in ToSet(s) : d.next[m] = t.next[m]
      BY <1>1, <2>2, <3>1 DEF IsCleared, Kids
    <3>4. Run(d, s, Null)
      BY <3>2, <3>3, RunSame
    <3>5. d.first[q] = t.first[q]
      BY <1>1, <2>2 DEF IsCleared
    <3>. QED
      BY <1>2, <2>2, <3>1, <3>2, <3>4, <3>5 DEF ListFrom
  <2>. QED
    BY <2>1, <2>2
<1>5. Lists(d) = K
  BY <1>1, <1>3, <1>4, ListsAre DEF Good
<1>. QED
  BY <1>5 DEF d, K

LEMMA SetTextLists ==
  ASSUME NEW t \in Tree, Good(t), NEW p \in Node, NEW x \in Node, t.parent[x] = Null,
         Good(LinkOne(Cleared(t, p), p, x, Null, Null))
  PROVE  Lists(LinkOne(Cleared(t, p), p, x, Null, Null)) = [Lists(t) EXCEPT ![p] = <<x>>]
<1>. DEFINE u == Cleared(t, p)
            d == LinkChain(u, p, {x}, x, x, Null, Null)
<1>1. u \in Tree /\ Good(u) /\ u.parent[x] = Null
  BY ClearedGood, ClearedFields DEF IsCleared
<1>2. Lists(u) = [Lists(t) EXCEPT ![p] = <<>>]
  BY ClearedLists
<1>3. LinkOne(Cleared(t, p), p, x, Null, Null) = d
  BY DEF LinkOne
<1>. HIDE DEF u
<1>4. d \in Tree /\ IsLink(u, p, {x}, x, x, Null, Null, d)
  <2>1. {x} \in SUBSET Node /\ Null \in Link
    OBVIOUS
  <2>. QED
    BY <1>1, <2>1, LinkFields
<1>5. WellFounded(d.next)
  BY <1>3 DEF Good
<1>. HIDE DEF d
<1>6. IsChain(u, <<x>>, x, x) /\ NotListed(Lists(u), <<x>>)
  BY <1>1, SingleChain
<1>7. GapOf(Lists(u)[p], <<>>, <<>>, Null, Null)
  <2>1. Lists(u)[p] = <<>>
    BY <1>2 DEF Lists
  <2>2. <<>> \in Seq(Node) /\ <<>> \o <<>> = <<>>
    OBVIOUS
  <2>. QED
    BY <2>1, <2>2 DEF GapOf, LastOr, HeadOr
<1>8. Lists(d) = [Lists(u) EXCEPT ![p] = <<>> \o (<<x>> \o <<>>)]
  <2>1. ListsHold(u, Lists(u))
    BY <1>1, GoodHolds
  <2>2. IsLinked(u, Lists(u), p, {x}, <<x>>, x, x, <<>>, <<>>, Null, Null, d)
    BY <1>4, <1>5, <1>6, <1>7, <2>1 DEF IsLinked
  <2>. QED
    BY <2>2, LinkLists
<1>9. <<>> \o (<<x>> \o <<>>) = <<x>>
  <2>1. <<x>> \in Seq(Node)
    OBVIOUS
  <2>. QED
    BY <2>1
<1>. QED
  BY ONLY <1>2, <1>3, <1>8, <1>9, ExceptTwice

(***************************************************************************)
(* split_text: the tail follows n.                                         *)
(***************************************************************************)
ListsAfter(F, n, x) ==
  [q \in Node |-> IF Forest!ChildOf(F, n, q)
                  THEN LET i == Forest!Position(F[q], n) IN Forest!InsertAt(F[q], i + 1, x)
                  ELSE F[q]]

LEMMA ChildOfIs ==
  ASSUME NEW t \in Tree, Good(t), NEW n \in Node, NEW q \in Node
  PROVE  Forest!ChildOf(Lists(t), n, q) <=> t.parent[n] = q
<1>1. ToSet(Lists(t)[q]) = Kids(t, q)
  BY ListsFacts
<1>2. Forest!ToSet(Lists(t)[q]) = ToSet(Lists(t)[q])
  BY DEF Forest!ToSet, ToSet
<1>. QED
  BY <1>1, <1>2 DEF Forest!ChildOf, Kids

LEMMA SplitNothing ==
  ASSUME NEW t \in Tree, Good(t), NEW n \in Node, t.parent[n] = Null, NEW x
  PROVE  ListsAfter(Lists(t), n, x) = Lists(t)
<1>1. \A q \in Node : ~ Forest!ChildOf(Lists(t), n, q)
  BY ChildOfIs
<1>2. ListsAfter(Lists(t), n, x) = [q \in Node |-> Lists(t)[q]]
  BY <1>1 DEF ListsAfter
<1>. QED
  BY <1>2 DEF Lists

Follows(s, l, c, r, n) ==
  l \in Seq(Node) /\ r \in Seq(Node) /\ c \in Node /\ c \notin ToSet(l) /\ n \in Node /\ Splits(s, l, c, r)

LEMMA InsertAfterIn ==
  ASSUME NEW s, NEW l, NEW c, NEW r, NEW n, Follows(s, l, c, r, n)
  PROVE  InsertsAfter(s, l, c, r, n)
BY InsertAfter DEF Follows

LEMMA SplitLists ==
  ASSUME NEW t \in Tree, Good(t), NEW p \in Node, NEW n \in Node, NEW x \in Node,
         t.parent[n] = p, t.parent[x] = Null, Good(LinkOne(t, p, x, n, t.next[n]))
  PROVE  ListsAfter(Lists(t), n, x) = Lists(LinkOne(t, p, x, n, t.next[n]))
<1>. DEFINE d == LinkChain(t, p, {x}, x, x, n, t.next[n])
<1>1. PICK l, r : Place(t, p, l, n, r)
  BY ChildPlace
<1>2. l \in Seq(Node) /\ r \in Seq(Node) /\ Splits(Lists(t)[p], l, n, r) /\ n \notin ToSet(l)
      /\ t.next[n] = HeadOr(r, Null)
  BY <1>1 DEF Place
<1>10. Forest!InsertAt(Lists(t)[p], Forest!Position(Lists(t)[p], n) + 1, x) = (l \o <<n>>) \o (<<x>> \o r)
  <2>1. Follows(Lists(t)[p], l, n, r, x)
    BY <1>2 DEF Follows
  <2>2. InsertsAfter(Lists(t)[p], l, n, r, x)
    BY ONLY <2>1, InsertAfterIn
  <2>. QED
    BY ONLY <2>2 DEF InsertsAfter
<1>3. LinkOne(t, p, x, n, t.next[n]) = d
  BY DEF LinkOne
<1>4. d \in Tree /\ IsLink(t, p, {x}, x, x, n, t.next[n], d)
  <2>1. {x} \in SUBSET Node /\ t.next[n] \in Link
    BY DEF Tree
  <2>. QED
    BY <2>1, LinkFields
<1>5. WellFounded(d.next)
  BY <1>3 DEF Good
<1>. HIDE DEF d
<1>6. PICK k \in Seq(Node) : k = <<n>> /\ \A e : LastOr(k, e) = n
  BY Single
<1>7. PICK L \in Seq(Node) : L = l \o k
  BY <1>2, ConcatFacts
<1>8. GapOf(Lists(t)[p], L, r, n, t.next[n])
  <2>1. LastOr(l \o k, Null) = LastOr(k, LastOr(l, Null))
    BY ONLY <1>2, k \in Seq(Node), ConcatEnds
  <2>2. (l \o k) \o r = l \o (k \o r)
    BY ONLY <1>2, k \in Seq(Node), ConcatAssociates
  <2>. QED
    BY <1>2, <1>6, <1>7, <2>1, <2>2 DEF GapOf, Splits
<1>9. Lists(d) = [Lists(t) EXCEPT ![p] = L \o (<<x>> \o r)]
  <2>0. PICK y, nx : y = <<x>> /\ nx = t.next[n]
    OBVIOUS
  <2>1. IsChain(t, y, x, x) /\ NotListed(Lists(t), y)
    BY <2>0, SingleChain
  <2>2. ListsHold(t, Lists(t))
    BY GoodHolds
  <2>3. IsLinked(t, Lists(t), p, {x}, y, x, x, L, r, n, nx, d)
    BY <1>4, <1>5, <1>8, <2>0, <2>1, <2>2 DEF IsLinked
  <2>. QED
    <3>1. Lists(d) = [Lists(t) EXCEPT ![p] = L \o (y \o r)]
      BY ONLY <2>3, LinkLists
    <3>. QED
      BY ONLY <2>0, <3>1
<1>11. L \o (<<x>> \o r) = (l \o <<n>>) \o (<<x>> \o r)
  BY <1>6, <1>7
<1>12. ASSUME NEW q \in Node
       PROVE  (IF Forest!ChildOf(Lists(t), n, q)
               THEN LET i == Forest!Position(Lists(t)[q], n) IN Forest!InsertAt(Lists(t)[q], i + 1, x)
               ELSE Lists(t)[q])
              = IF q = p THEN L \o (<<x>> \o r) ELSE Lists(t)[q]
  <2>1. Forest!ChildOf(Lists(t), n, q) <=> q = p
    BY ChildOfIs
  <2>. QED
    BY <1>10, <1>11, <2>1
<1>13. [Lists(t) EXCEPT ![p] = L \o (<<x>> \o r)] = [q \in Node |-> IF q = p THEN L \o (<<x>> \o r) ELSE Lists(t)[q]]
  BY DEF Lists
<1>14. ListsAfter(Lists(t), n, x) = [q \in Node |-> IF q = p THEN L \o (<<x>> \o r) ELSE Lists(t)[q]]
  BY <1>12, Zenon DEF ListsAfter
<1>. QED
  BY ONLY <1>3, <1>9, <1>13, <1>14

-----------------------------------------------------------------------------
(***************************************************************************)
(* Above, on the lists, is what is_descendant_of answers, or equality.     *)
(***************************************************************************)
OwnedIn(K) == UNION {{p} \X Forest!ToSet(K[p]) : p \in Node}

LEMMA OwnedIs ==
  ASSUME NEW t \in Tree, Good(t), NEW e
  PROVE  e \in OwnedIn(Lists(t)) <=> \E c \in Node : t.parent[c] # Null /\ e = <<t.parent[c], c>>
<1>1. ASSUME NEW q \in Node, NEW c PROVE c \in Forest!ToSet(Lists(t)[q]) <=> c \in Node /\ t.parent[c] = q
  <2>1. Forest!ToSet(Lists(t)[q]) = ToSet(Lists(t)[q])
    BY DEF Forest!ToSet, ToSet
  <2>2. ToSet(Lists(t)[q]) = Kids(t, q)
    BY ListsFacts
  <2>. QED
    BY <2>1, <2>2 DEF Kids
<1>2. e \in OwnedIn(Lists(t)) <=> \E q \in Node : \E c : c \in Forest!ToSet(Lists(t)[q]) /\ e = <<q, c>>
  BY DEF OwnedIn
<1>3. \A c \in Node : t.parent[c] # Null <=> t.parent[c] \in Node
  BY DEF Tree
<1>. QED
  BY <1>1, <1>2, <1>3

LEMMA AboveIs ==
  ASSUME NEW t \in Tree, Good(t), NEW a \in Node, NEW n \in Node
  PROVE  Forest!Above(Lists(t), a, n) <=> a = n \/ IsDescendantOf(t, n, a)
<1>1. ASSUME NEW S \in SUBSET Node
      PROVE  (\A e \in OwnedIn(Lists(t)) : e[2] \in S => e[1] \in S) <=> UpClosed(t, S)
  <2>1. ASSUME \A e \in OwnedIn(Lists(t)) : e[2] \in S => e[1] \in S, NEW c \in S
        PROVE  t.parent[c] \in S \cup {Null}
    <3>1. CASE t.parent[c] # Null
      <4>1. PICK e : e = <<t.parent[c], c>>
        OBVIOUS
      <4>2. e \in OwnedIn(Lists(t))
        BY <3>1, <4>1, OwnedIs
      <4>3. e[2] = c /\ e[1] = t.parent[c]
        BY <4>1
      <4>. QED
        BY <2>1, <4>2, <4>3
    <3>. QED
      BY <3>1
  <2>2. ASSUME UpClosed(t, S), NEW e \in OwnedIn(Lists(t)), e[2] \in S PROVE e[1] \in S
    <3>1. PICK c \in Node : t.parent[c] # Null /\ e = <<t.parent[c], c>>
      BY OwnedIs
    <3>2. e[2] = c /\ e[1] = t.parent[c]
      BY <3>1
    <3>. QED
      BY <2>2, <3>1, <3>2 DEF UpClosed
  <2>. QED
    BY <2>1, <2>2 DEF UpClosed
<1>2. Forest!Above(Lists(t), a, n)
        <=> \A S \in SUBSET Node : n \in S /\ (\A e \in OwnedIn(Lists(t)) : e[2] \in S => e[1] \in S) => a \in S
  BY Zenon DEF Forest!Above, OwnedIn
<1>3. Forest!Above(Lists(t), a, n) <=> \A S \in SUBSET Node : n \in S /\ UpClosed(t, S) => a \in S
  BY <1>1, <1>2
<1>. QED
  BY <1>3 DEF IsDescendantOf

(***************************************************************************)
(* The walks pre_insert and replace_child do not make: a node without      *)
(* children is above nothing, and what a fragment's child is above the     *)
(* fragment is above.                                                      *)
(***************************************************************************)
LEMMA ChildlessAboveNothing ==
  ASSUME NEW t \in Tree, Good(t), NEW p \in Node, NEW c \in Node, IsDescendantOf(t, p, c)
  PROVE  t.first[c] # Null
<1>1. p # c
  BY DEF IsDescendantOf
<1>2. ASSUME t.first[c] = Null PROVE FALSE
  <2>1. PICK U \in SUBSET Node : p \in U /\ UpClosed(t, U) /\ c \notin U
    BY <1>1, <1>2, NotBelow
  <2>. QED
    BY <2>1 DEF IsDescendantOf
<1>. QED
  BY <1>2

LEMMA CycleIsBelow ==
  ASSUME NEW p \in Node, NEW c \in Node, p # c, FragmentWouldCycle(p, c)
  PROVE  IsDescendantOf(tree, p, c)
<1>1. PICK k \in Node : tree.parent[k] = c /\ (k = p \/ IsDescendantOf(tree, p, k))
  BY DEF FragmentWouldCycle, Kids
<1>2. ASSUME NEW S \in SUBSET Node, p \in S, UpClosed(tree, S) PROVE c \in S
  <2>1. k \in S
    BY <1>1, <1>2 DEF IsDescendantOf
  <2>. QED
    BY <1>1, <1>2, <2>1 DEF UpClosed
<1>. QED
  BY <1>2 DEF IsDescendantOf

LEMMA MayHoldIs ==
  ASSUME IInv, NEW p \in Node, NEW c \in Node
  PROVE  Forest!MayHold(p, c) <=>
           /\ MayBeParent(p) /\ c \in live /\ Kind[c] # "Document"
           /\ p # c /\ ~ IsDescendantOf(tree, p, c)
<1>1. Forest!Above(Lists(tree), c, p) <=> c = p \/ IsDescendantOf(tree, p, c)
  BY AboveIs DEF IInv, Typed
<1>. QED
  BY <1>1 DEF Forest!MayHold, MayBeParent

(***************************************************************************)
(* A call is refused exactly when the lists say it must be.                *)
(***************************************************************************)
LEMMA InsertRefused ==
  ASSUME IInv, NEW p \in Node, NEW c \in Node, NEW ref \in Link
  PROVE  InsertRejected(p, c, ref) <=> ~ Forest!MayInsert(p, c, ref)
<1>1. ref # Null => (Forest!ChildOf(Lists(tree), ref, p) <=> tree.parent[ref] = p)
  BY ChildOfIs DEF IInv, Typed
<1>2. Forest!MayPrecede(ref, p, c) <=> ref \in {Null, c} \/ (ref \in live /\ tree.parent[ref] = p)
  BY <1>1 DEF Forest!MayPrecede
<1>3. p # c /\ FragmentWouldCycle(p, c) => IsDescendantOf(tree, p, c)
  BY CycleIsBelow
<1>4. IsDescendantOf(tree, p, c) => tree.first[c] # Null
  BY ChildlessAboveNothing DEF IInv, Typed
<1>. QED
  BY <1>2, <1>3, <1>4, MayHoldIs DEF InsertRejected, Forest!MayInsert

LEMMA ReplaceRefused ==
  ASSUME IInv, NEW p \in Node, NEW c \in Node, NEW n \in Node
  PROVE  ReplaceRejected(p, c, n) <=> ~ Forest!MayReplace(p, c, n)
<1>1. Forest!ChildOf(Lists(tree), c, p) <=> tree.parent[c] = p
  BY ChildOfIs DEF IInv, Typed
<1>2. tree.parent[c] = p => p \in live /\ c \in live /\ MayBeParent(p)
  BY DEF IInv, KindsRespected, MayBeParent
<1>3. p # n /\ FragmentWouldCycle(p, n) => IsDescendantOf(tree, p, n)
  BY CycleIsBelow
<1>. QED
  BY <1>1, <1>2, <1>3, MayHoldIs DEF ReplaceRejected, NotChildOf, Forest!MayReplace

(***************************************************************************)
(* And otherwise it leaves the lists the same call of DomForest leaves.    *)
(***************************************************************************)
LEMMA InsertedLists ==
  ASSUME IInv, NEW p \in Node, NEW c \in Node, NEW ref \in Link, ~ InsertRejected(p, c, ref)
  PROVE  Forest!WithInserted(p, c, ref) =
           IF InsertInPlace(p, c, ref) THEN Lists(tree) ELSE Lists(Inserted(tree, p, c, ref))
<1>1. tree \in Tree /\ Good(tree) /\ p # c /\ (ref # c /\ ref # Null => tree.parent[ref] = p)
  BY DEF IInv, Typed, InsertRejected
<1>2. IsFragment(c) => tree.parent[c] = Null
  BY DEF IInv, KindsRespected, IsFragment
<1>3. CASE InsertInPlace(p, c, ref)
  BY <1>1, <1>2, <1>3, InPlaceLists
<1>4. CASE ~ InsertInPlace(p, c, ref)
  <2>1. ref # c /\ (IsFragment(c) => tree.first[c] # Null)
    BY <1>4 DEF InsertInPlace
  <2>2. Good(Inserted(tree, p, c, ref))
    <3>1. ~ (tree.first[c] # Null /\ IsDescendantOf(tree, p, c))
      BY DEF InsertRejected
    <3>. QED
      BY <1>1, <2>1, <3>1, InsertGood
  <2>3. CASE IsFragment(c)
    BY <1>1, <1>4, <2>1, <2>2, <2>3, InsertKidsLists
  <2>4. CASE ~ IsFragment(c)
    BY <1>1, <1>4, <2>1, <2>2, <2>4, InsertOneLists
  <2>. QED
    BY <2>3, <2>4
<1>. QED
  BY <1>3, <1>4

LEMMA ReplacedLists ==
  ASSUME IInv, NEW p \in Node, NEW c \in Node, NEW n \in Node, ~ ReplaceRejected(p, c, n), n # c
  PROVE  Forest!WithReplaced(p, c, n) = Lists(Replaced(tree, p, c, n))
<1>1. /\ tree \in Tree /\ Good(tree) /\ tree.parent[c] = p /\ n # p /\ ~ IsDescendantOf(tree, p, n)
  BY DEF IInv, Typed, ReplaceRejected, NotChildOf
<1>2. IsFragment(n) => tree.parent[n] = Null
  BY DEF IInv, KindsRespected, IsFragment
<1>3. Good(Replaced(tree, p, c, n))
  BY <1>1, <1>2, ReplaceGood
<1>4. CASE IsFragment(n)
  BY <1>1, <1>2, <1>3, <1>4, ReplaceKidsLists
<1>5. CASE ~ IsFragment(n)
  BY <1>1, <1>3, <1>5, ReplaceOneLists
<1>. QED
  BY <1>4, <1>5

(***************************************************************************)
(* Call by call, insertions and replacements are the ones of the lists:    *)
(* the validation of pre_insert and replace_child is exact, and so is what *)
(* their pointer surgery leaves.                                           *)
(***************************************************************************)
THEOREM CallsAlwaysExact == Spec => []CallsExact
<1>1. IInv => CallsExact
  <2>. SUFFICES ASSUME IInv PROVE CallsExact
    OBVIOUS
  <2>1. ASSUME NEW p \in Node, NEW c \in Node, NEW ref \in Link
        PROVE  IF InsertRejected(p, c, ref) THEN ~ Forest!MayInsert(p, c, ref)
               ELSE /\ Forest!MayInsert(p, c, ref)
                    /\ Forest!WithInserted(p, c, ref) =
                         IF InsertInPlace(p, c, ref) THEN Lists(tree) ELSE Lists(Inserted(tree, p, c, ref))
    BY InsertRefused, InsertedLists
  <2>2. ASSUME NEW p \in Node, NEW c \in Node, NEW n \in Node
        PROVE  IF ReplaceRejected(p, c, n) THEN ~ Forest!MayReplace(p, c, n)
               ELSE /\ Forest!MayReplace(p, c, n)
                    /\ n # c => Forest!WithReplaced(p, c, n) = Lists(Replaced(tree, p, c, n))
    BY ReplaceRefused, ReplacedLists
  <2>. QED
    BY <2>1, <2>2 DEF CallsExact
<1>. QED
  BY <1>1, Invariance, PTL

-----------------------------------------------------------------------------
(***************************************************************************)
(* The calls of DomTree as the calls of DomForest.                         *)
(***************************************************************************)
LEMMA ListsThen == (Lists(tree))' = Lists(tree')
BY Zenon DEF Lists, Children

LEMMA ForestInit == Init => Forest!Init
<1>. SUFFICES ASSUME Init PROVE Forest!Init
  OBVIOUS
<1>1. tree \in Tree /\ Good(tree) /\ \A n \in Node : tree.first[n] = Null
  BY IInvInit DEF IInv, Typed, Init, EmptyTree, NoLinks
<1>2. \A n \in Node : Lists(tree)[n] = <<>>
  BY <1>1, EmptyList
<1>3. Lists(tree) = [n \in Node |-> <<>>]
  BY <1>2 DEF Lists
<1>. QED
  BY <1>3 DEF Init, Forest!Init, Forest!NoKids

LEMMA ForestRefuse ==
  ASSUME Rejected PROVE Forest!Next
<1>1. Forest!Refuse
  BY ListsThen DEF Rejected, Forest!Refuse
<1>. QED
  BY <1>1 DEF Forest!Next

LEMMA ForestAccepts ==
  ASSUME NEW t, NEW K, Accepted(t), K = Lists(t) PROVE Forest!Accepted(K)
BY ListsThen DEF Accepted, Forest!Accepted

LEMMA ForestCreate ==
  ASSUME NEW n \in Node, Create(n) PROVE Forest!Next
<1>1. Forest!Create(n)
  BY ForestAccepts DEF Create, Fresh, Forest!Create
<1>. QED
  BY <1>1 DEF Forest!Next

LEMMA ForestInsert ==
  ASSUME IInv, NEW p \in Node, NEW c \in Node, NEW ref \in Link, PreInsert(p, c, ref)
  PROVE  Forest!Next
<1>1. CASE InsertRejected(p, c, ref) /\ Rejected
  BY <1>1, ForestRefuse
<1>2. CASE ~ InsertRejected(p, c, ref)
  <2>1. PICK t : Accepted(t) /\ t = IF InsertInPlace(p, c, ref) THEN tree ELSE Inserted(tree, p, c, ref)
    BY <1>2 DEF PreInsert
  <2>2. Forest!WithInserted(p, c, ref) = Lists(t)
    BY <1>2, <2>1, InsertedLists
  <2>3. Forest!Insert(p, c, ref)
    BY <1>2, <2>1, <2>2, InsertRefused, ForestAccepts DEF PreInsert, Forest!Insert
  <2>. QED
    BY <2>3 DEF Forest!Next
<1>. QED
  BY <1>1, <1>2 DEF PreInsert

LEMMA ForestRemove ==
  ASSUME IInv, NEW p \in Node, NEW c \in Node, RemoveChild(p, c)
  PROVE  Forest!Next
<1>1. CASE NotChildOf(p, c) /\ Rejected
  BY <1>1, ForestRefuse
<1>2. CASE ~ NotChildOf(p, c)
  <2>1. Accepted(Detach(tree, c)) /\ UNCHANGED live
    BY <1>2 DEF RemoveChild
  <2>2. Forest!Without(Lists(tree), {c}) = Lists(Detach(tree, c))
    BY DetachLists DEF IInv, Typed
  <2>3. Forest!ChildOf(Lists(tree), c, p)
    BY <1>2, ChildOfIs DEF IInv, Typed, NotChildOf
  <2>4. Forest!Delete(p, c)
    BY <2>1, <2>2, <2>3, ForestAccepts DEF Forest!Delete
  <2>. QED
    BY <2>4 DEF Forest!Next
<1>. QED
  BY <1>1, <1>2 DEF RemoveChild

LEMMA ForestReplace ==
  ASSUME IInv, NEW p \in Node, NEW c \in Node, NEW n \in Node, ReplaceChild(p, c, n)
  PROVE  Forest!Next
<1>1. CASE ReplaceRejected(p, c, n) /\ Rejected
  BY <1>1, ForestRefuse
<1>2. CASE ~ ReplaceRejected(p, c, n)
  <2>1. PICK t : Accepted(t) /\ t = IF n = c THEN tree ELSE Replaced(tree, p, c, n)
    BY <1>2 DEF ReplaceChild
  <2>2. Forest!WithReplaced(p, c, n) = Lists(t)
    <3>1. CASE n = c
      BY <2>1, <3>1 DEF Forest!WithReplaced
    <3>2. CASE n # c
      BY <1>2, <2>1, <3>2, ReplacedLists
    <3>. QED
      BY <3>1, <3>2
  <2>3. Forest!Replace(p, c, n)
    BY <1>2, <2>1, <2>2, ReplaceRefused, ForestAccepts DEF ReplaceChild, Forest!Replace
  <2>. QED
    BY <2>3 DEF Forest!Next
<1>. QED
  BY <1>1, <1>2 DEF ReplaceChild

LEMMA ForestSetText ==
  ASSUME IInv, NEW p \in Node, NEW x \in Link, SetTextContent(p, x)
  PROVE  Forest!Next
<1>1. tree \in Tree /\ Good(tree)
  BY DEF IInv, Typed
<1>2. p \in live /\ Kind[p] \in {"Element", "DocumentFragment"}
  BY DEF SetTextContent, MayBeParent
<1>3. CASE x = Null
  <2>1. Accepted(Cleared(tree, p)) /\ live' = live
    BY <1>3 DEF SetTextContent, Fresh
  <2>2. Lists(Cleared(tree, p)) = [Lists(tree) EXCEPT ![p] = <<>>]
    BY <1>1, ClearedLists
  <2>3. Forest!Accepted([Lists(tree) EXCEPT ![p] = <<>>])
    BY <2>1, <2>2, ForestAccepts
  <2>4. Forest!SetChildren(p, <<>>)
    BY <1>2, <2>1, <2>3 DEF Forest!SetChildren, Forest!ToSet
  <2>. QED
    BY <2>4 DEF Forest!Next
<1>4. CASE x # Null
  <2>1. /\ x \in Node /\ x \notin live /\ Kind[x] = "Text" /\ live' = live \cup {x}
        /\ Accepted(LinkOne(Cleared(tree, p), p, x, Null, Null))
    BY <1>4 DEF SetTextContent, Fresh
  <2>2. Good(LinkOne(Cleared(tree, p), p, x, Null, Null))
    <3>1. IInv'
      BY SetTextContentKeeps
    <3>. QED
      BY <2>1, <3>1 DEF IInv, Accepted
  <2>3. tree.parent[x] = Null
    BY <2>1 DEF IInv, KindsRespected
  <2>4. Lists(LinkOne(Cleared(tree, p), p, x, Null, Null)) = [Lists(tree) EXCEPT ![p] = <<x>>]
    BY <1>1, <2>1, <2>2, <2>3, SetTextLists
  <2>5. Forest!Accepted([Lists(tree) EXCEPT ![p] = <<x>>])
    BY <2>1, <2>4, ForestAccepts
  <2>6. Forest!ToSet(<<x>>) = {x}
    BY DEF Forest!ToSet
  <2>7. Forest!SetChildren(p, <<x>>)
    BY <1>2, <2>1, <2>5, <2>6 DEF Forest!SetChildren
  <2>. QED
    BY <2>1, <2>7 DEF Forest!Next
<1>. QED
  BY <1>3, <1>4

LEMMA ForestSplit ==
  ASSUME IInv, NEW n \in Node, NEW x \in Node, SplitText(n, x)
  PROVE  Forest!Next
<1>1. tree \in Tree /\ Good(tree) /\ tree.parent[n] \in Link
  BY DEF IInv, Typed, Tree
<1>2. PICK t : /\ Accepted(t)
               /\ t = IF tree.parent[n] = Null THEN tree ELSE LinkOne(tree, tree.parent[n], x, n, tree.next[n])
  BY DEF SplitText
<1>3. n \in live /\ x \notin live /\ Kind[n] = "Text" /\ Kind[x] = "Text" /\ live' = live \cup {x}
  BY DEF SplitText, Fresh
<1>4. ListsAfter(Lists(tree), n, x) = Lists(t)
  <2>1. CASE tree.parent[n] = Null
    BY <1>1, <1>2, <2>1, SplitNothing
  <2>2. CASE tree.parent[n] # Null
    <3>1. PICK p \in Node : tree.parent[n] = p
      BY <1>1, <2>2
    <3>2. Good(LinkOne(tree, p, x, n, tree.next[n]))
      <4>1. IInv'
        BY SplitTextKeeps
      <4>. QED
        BY <1>2, <2>2, <3>1, <4>1 DEF IInv, Accepted
    <3>3. tree.parent[x] = Null
      BY <1>3 DEF IInv, KindsRespected
    <3>4. ListsAfter(Lists(tree), n, x) = Lists(LinkOne(tree, p, x, n, tree.next[n]))
      BY <1>1, <3>1, <3>2, <3>3, SplitLists
    <3>. QED
      BY <1>2, <2>2, <3>1, <3>4
  <2>. QED
    BY <2>1, <2>2
<1>5. Forest!Accepted(ListsAfter(Lists(tree), n, x))
  BY <1>2, <1>4, ForestAccepts
<1>6. Forest!Split(n, x)
  BY <1>3, <1>5 DEF Forest!Split, ListsAfter
<1>. QED
  BY <1>6 DEF Forest!Next

LEMMA ForestStep == IInv /\ [Next]_vars => [Forest!Next]_Forest!vars
<1>. SUFFICES ASSUME IInv, [Next]_vars PROVE Forest!Next \/ UNCHANGED Forest!vars
  OBVIOUS
<1>1. ASSUME NEW n \in Node, Create(n) PROVE Forest!Next
  BY <1>1, ForestCreate
<1>2. ASSUME NEW p \in Node, NEW c \in Node, AppendChild(p, c) PROVE Forest!Next
  BY <1>2, ForestInsert DEF AppendChild
<1>3. ASSUME NEW p \in Node, NEW c \in Node, NEW ref \in Node, InsertBefore(p, c, ref) PROVE Forest!Next
  BY <1>3, ForestInsert DEF InsertBefore
<1>4. ASSUME NEW p \in Node, NEW c \in Node, RemoveChild(p, c) PROVE Forest!Next
  BY <1>4, ForestRemove
<1>5. ASSUME NEW p \in Node, NEW c \in Node, NEW n \in Node, ReplaceChild(p, c, n) PROVE Forest!Next
  BY <1>5, ForestReplace
<1>6. ASSUME NEW p \in Node, NEW x \in Link, SetTextContent(p, x) PROVE Forest!Next
  BY <1>6, ForestSetText
<1>7. ASSUME NEW n \in Node, NEW x \in Node, SplitText(n, x) PROVE Forest!Next
  BY <1>7, ForestSplit
<1>8. CASE UNCHANGED vars
  BY <1>8, ListsThen DEF vars, Forest!vars
<1>. QED
  BY <1>1, <1>2, <1>3, <1>4, <1>5, <1>6, <1>7, <1>8 DEF Next

(***************************************************************************)
(* Read as lists of children, every behaviour of the tree mutation API is  *)
(* one DomForest allows: every call does to the lists what it promises.    *)
(***************************************************************************)
THEOREM ImplementsForest == Spec => ListSemantics
<1>1. Init => Forest!Init
  BY ForestInit
<1>2. IInv /\ [Next]_vars => [Forest!Next]_Forest!vars
  BY ForestStep
<1>. QED
  BY <1>1, <1>2, Invariance, PTL DEF Spec, ListSemantics, Forest!Spec

-----------------------------------------------------------------------------
(***************************************************************************)
(* The walk: f is where n has got to after each of the first steps.        *)
(***************************************************************************)
Up(t, n) == IF n = Null THEN Null ELSE t.parent[n]

IsWalk(t, n, len, f) ==
  f = [k \in 0 .. len |-> IF k = 0 THEN n ELSE Up(t, f[k - 1])]

LEMMA WalkExists ==
  ASSUME NEW t \in Tree, NEW n \in Node, NEW len \in Nat
  PROVE  \E f : IsWalk(t, n, len, f)
<1>. DEFINE T == {j \in Nat : \E f : IsWalk(t, n, j, f)}
<1>1. 0 \in T
  <2>1. IsWalk(t, n, 0, [k \in 0 .. 0 |-> n])
    BY DEF IsWalk
  <2>. QED
    BY <2>1
<1>2. ASSUME NEW j \in T PROVE j + 1 \in T
  <2>1. PICK f : IsWalk(t, n, j, f)
    OBVIOUS
  <2>. DEFINE g == [k \in 0 .. j + 1 |-> IF k = 0 THEN n ELSE Up(t, f[k - 1])]
  <2>2. \A k \in 0 .. j : g[k] = f[k]
    BY <2>1 DEF IsWalk
  <2>3. \A k \in 0 .. j + 1 : k # 0 => k - 1 \in 0 .. j
    OBVIOUS
  <2>4. g = [k \in 0 .. j + 1 |-> IF k = 0 THEN n ELSE Up(t, g[k - 1])]
    BY <2>2, <2>3
  <2>5. IsWalk(t, n, j + 1, g)
    BY <2>4 DEF IsWalk
  <2>. QED
    BY <2>5
<1>3. T = Nat
  BY <1>1, <1>2, SetInduction
<1>. QED
  BY <1>3

LEMMA WalkSteps ==
  ASSUME NEW t \in Tree, NEW n \in Node, NEW len \in Nat, NEW f, IsWalk(t, n, len, f)
  PROVE  /\ f \in [0 .. len -> Link] /\ f[0] = n
         /\ \A k \in 0 .. len : k # 0 => f[k] = Up(t, f[k - 1])
<1>1. f[0] = n /\ \A k \in 0 .. len : k # 0 => f[k] = Up(t, f[k - 1])
  BY DEF IsWalk
<1>. DEFINE T == {j \in Nat : j <= len => f[j] \in Link}
<1>2. 0 \in T
  BY <1>1 DEF Link
<1>3. ASSUME NEW j \in T PROVE j + 1 \in T
  <2>. SUFFICES ASSUME j + 1 <= len PROVE f[j + 1] \in Link
    OBVIOUS
  <2>1. f[j] \in Link /\ f[j + 1] = Up(t, f[j])
    BY <1>1
  <2>. QED
    BY <2>1 DEF Up, Link, Tree
<1>4. T = Nat
  BY <1>2, <1>3, SetInduction
<1>5. \A k \in 0 .. len : f[k] \in Link
  BY <1>4
<1>6. f = [k \in 0 .. len |-> f[k]]
  BY DEF IsWalk
<1>. QED
  BY <1>1, <1>5, <1>6

(***************************************************************************)
(* Once at None, the walk stays there.                                     *)
(***************************************************************************)
LEMMA WalkNotNull ==
  ASSUME NEW t \in Tree, NEW n \in Node, NEW len \in Nat, NEW f, IsWalk(t, n, len, f),
         NEW k \in 0 .. len, f[k] # Null
  PROVE  \A i \in 0 .. k : f[i] \in Node
<1>1. f \in [0 .. len -> Link] /\ \A i \in 0 .. len : i # 0 => f[i] = Up(t, f[i - 1])
  BY WalkSteps
<1>. DEFINE T == {j \in Nat : j <= k => f[k - j] # Null}
<1>2. 0 \in T
  OBVIOUS
<1>3. ASSUME NEW j \in T PROVE j + 1 \in T
  <2>. SUFFICES ASSUME j + 1 <= k PROVE f[k - (j + 1)] # Null
    OBVIOUS
  <2>1. f[k - j] # Null /\ k - j \in 0 .. len /\ k - j # 0 /\ (k - j) - 1 = k - (j + 1)
    OBVIOUS
  <2>2. f[k - j] = Up(t, f[(k - j) - 1])
    BY <1>1, <2>1
  <2>. QED
    BY <2>1, <2>2 DEF Up
<1>4. T = Nat
  BY <1>2, <1>3, SetInduction
<1>5. ASSUME NEW i \in 0 .. k PROVE f[i] \in Node
  <2>a. k - i \in Nat /\ k - (k - i) = i /\ k - i <= k
    OBVIOUS
  <2>b. k - i \in T
    BY ONLY <1>4, <2>a
  <2>1. k - i \in T /\ k - (k - i) = i /\ k - i <= k
    BY ONLY <2>a, <2>b
  <2>2. f[i] # Null
    BY <2>1
  <2>. QED
    BY <1>1, <2>2 DEF Link
<1>. QED
  BY <1>5

(***************************************************************************)
(* Where the tree is acyclic, the walk meets no node twice.                *)
(***************************************************************************)
LEMMA WalkInjective ==
  ASSUME NEW t \in Tree, WellFounded(t.parent), NEW n \in Node, NEW len \in Nat,
         NEW f, IsWalk(t, n, len, f), f[len] # Null
  PROVE  \A i, j \in 0 .. len : i < j => f[i] # f[j]
<1>. SUFFICES ASSUME NEW i \in 0 .. len, NEW j \in 0 .. len, i < j, f[i] = f[j]
              PROVE  FALSE
  OBVIOUS
<1>1. \A k \in 0 .. len : f[k] \in Node
  BY WalkNotNull
<1>2. \A k \in 0 .. len : k # 0 => f[k] = t.parent[f[k - 1]]
  BY <1>1, WalkSteps, NullAssumption DEF Up
<1>. DEFINE S == {f[k] : k \in i .. j - 1}
<1>3. S \in SUBSET Node /\ S # {}
  BY <1>1
<1>4. ASSUME NEW k \in i .. j - 1 PROVE t.parent[f[k]] \in S
  <2>1. k + 1 \in 0 .. len /\ (k + 1) - 1 = k /\ k + 1 # 0
    OBVIOUS
  <2>2. t.parent[f[k]] = f[k + 1]
    BY <1>2, <2>1
  <2>3. CASE k + 1 = j
    BY <2>2, <2>3
  <2>4. CASE k + 1 # j
    BY <2>2, <2>4
  <2>. QED
    BY <2>3, <2>4
<1>. QED
  BY <1>3, <1>4 DEF WellFounded

-----------------------------------------------------------------------------
(***************************************************************************)
(* What the walk of is_descendant_of answers.                              *)
(***************************************************************************)
LEMMA WalkAnswers ==
  ASSUME NEW t \in Tree, NEW len \in Nat, NEW m \in Node, NEW n \in Node
  PROVE  \E f : /\ IsWalk(t, m, Steps(len), f)
                /\ WalkIsDescendantOf(t, len, m, n) <=> m # n /\ \E k \in 1 .. Steps(len) : f[k] = n
<1>. DEFINE up == CHOOSE f : IsWalk(t, m, Steps(len), f)
<1>1. Steps(len) \in Nat
  BY DEF Steps
<1>2. IsWalk(t, m, Steps(len), up)
  BY <1>1, WalkExists
<1>3. WalkIsDescendantOf(t, len, m, n) <=> m # n /\ \E k \in 1 .. Steps(len) : up[k] = n
  BY Zenon DEF WalkIsDescendantOf, IsWalk, Up
<1>. QED
  BY <1>2, <1>3

(***************************************************************************)
(* Every step the walk takes stays in any set closed under parents.        *)
(***************************************************************************)
LEMMA WalkStaysIn ==
  ASSUME NEW t \in Tree, NEW m \in Node, NEW len \in Nat, NEW f, IsWalk(t, m, len, f),
         NEW S \in SUBSET Node, m \in S, UpClosed(t, S)
  PROVE  \A k \in 0 .. len : f[k] \in S \cup {Null}
<1>1. f[0] = m /\ \A k \in 0 .. len : k # 0 => f[k] = Up(t, f[k - 1])
  BY WalkSteps
<1>. DEFINE T == {j \in Nat : j <= len => f[j] \in S \cup {Null}}
<1>2. 0 \in T
  BY <1>1
<1>3. ASSUME NEW j \in T PROVE j + 1 \in T
  <2>. SUFFICES ASSUME j + 1 <= len PROVE f[j + 1] \in S \cup {Null}
    OBVIOUS
  <2>1. f[j] \in S \cup {Null} /\ f[j + 1] = Up(t, f[j])
    BY <1>1
  <2>. QED
    BY <2>1 DEF Up, UpClosed
<1>4. T = Nat
  BY <1>2, <1>3, SetInduction
<1>. QED
  BY <1>4

(***************************************************************************)
(* A walk of live nodes that may take one step more than there are of them *)
(* has come to its end.                                                    *)
(***************************************************************************)
LEMMA WalkEnds ==
  ASSUME NEW t \in Tree, WellFounded(t.parent), NEW L \in SUBSET Node, IsFiniteSet(L),
         \A n \in Node : t.parent[n] # Null => n \in L /\ t.parent[n] \in L,
         NEW m \in Node, NEW f, IsWalk(t, m, Steps(Cardinality(L)), f)
  PROVE  f[Steps(Cardinality(L))] = Null
<1>. DEFINE len == Steps(Cardinality(L))
<1>. SUFFICES ASSUME f[len] # Null PROVE FALSE
  OBVIOUS
<1>1. Cardinality(L) \in Nat /\ len = Cardinality(L) + 1 /\ len \in Nat
  BY FS_CardinalityType DEF Steps
<1>2. f \in [0 .. len -> Link] /\ \A k \in 0 .. len : k # 0 => f[k] = Up(t, f[k - 1])
  BY <1>1, WalkSteps
<1>3. \A k \in 0 .. len : f[k] \in Node
  BY <1>1, WalkNotNull
<1>4. ASSUME NEW k \in 0 .. len PROVE f[k] \in L
  <2>1. CASE k = 0
    <3>1. f[1] = t.parent[f[0]] /\ f[1] # Null
      BY <1>1, <1>2, <1>3, NullAssumption DEF Up
    <3>. QED
      BY <1>3, <2>1, <3>1
  <2>2. CASE k # 0
    <3>1. f[k] = t.parent[f[k - 1]] /\ f[k] # Null /\ f[k - 1] \in Node
      BY <1>1, <1>2, <1>3, <2>2, NullAssumption DEF Up
    <3>. QED
      BY <3>1
  <2>. QED
    BY <2>1, <2>2
<1>5. f \in Injection(0 .. len, L)
  <2>1. \A i, j \in 0 .. len : i < j => f[i] # f[j]
    BY <1>1, WalkInjective
  <2>2. \A i, j \in 0 .. len : f[i] = f[j] => i = j
    BY <1>1, <2>1
  <2>. QED
    BY <1>2, <1>4, <2>2 DEF Injection, IsInjective
<1>6. Cardinality(0 .. len) = len + 1
  BY <1>1, FS_Interval
<1>7. Cardinality(0 .. len) <= Cardinality(L)
  BY <1>5, FS_Injection
<1>. QED
  BY <1>1, <1>6, <1>7

LEMMA CappedWalkExact ==
  ASSUME NEW t \in Tree, WellFounded(t.parent), NEW L \in SUBSET Node, IsFiniteSet(L),
         \A n \in Node : t.parent[n] # Null => n \in L /\ t.parent[n] \in L,
         NEW m \in Node, NEW n \in Node
  PROVE  IsDescendantOf(t, m, n) <=> WalkIsDescendantOf(t, Cardinality(L), m, n)
<1>. DEFINE len == Steps(Cardinality(L))
<1>1. Cardinality(L) \in Nat /\ len \in Nat
  BY FS_CardinalityType DEF Steps
<1>2. PICK f : /\ IsWalk(t, m, len, f)
               /\ WalkIsDescendantOf(t, Cardinality(L), m, n) <=> m # n /\ \E k \in 1 .. len : f[k] = n
  BY <1>1, WalkAnswers
<1>3. f[len] = Null
  BY <1>2, WalkEnds
<1>. HIDE DEF len
<1>4. /\ f \in [0 .. len -> Link] /\ f[0] = m
      /\ \A k \in 0 .. len : k # 0 => f[k] = Up(t, f[k - 1])
  BY <1>1, <1>2, WalkSteps
<1>5. ASSUME m # n, NEW k \in 1 .. len, f[k] = n PROVE IsDescendantOf(t, m, n)
  <2>1. ASSUME NEW S \in SUBSET Node, m \in S, UpClosed(t, S) PROVE n \in S
    BY <1>1, <1>2, <1>5, <2>1, WalkStaysIn, NullAssumption
  <2>. QED
    BY <1>5, <2>1 DEF IsDescendantOf
<1>6. ASSUME IsDescendantOf(t, m, n) PROVE m # n /\ \E k \in 1 .. len : f[k] = n
  <2>. DEFINE S == {f[k] : k \in 0 .. len} \ {Null}
  <2>1. S \in SUBSET Node /\ m \in S
    BY <1>1, <1>4, NullAssumption DEF Link
  <2>2. ASSUME NEW k \in 0 .. len, f[k] # Null PROVE t.parent[f[k]] \in S \cup {Null}
    <3>1. k # len /\ k + 1 \in 0 .. len /\ (k + 1) - 1 = k /\ k + 1 # 0
      BY <1>1, <1>3, <2>2
    <3>2. f[k + 1] = t.parent[f[k]]
      BY <1>4, <2>2, <3>1 DEF Up
    <3>. QED
      BY <3>1, <3>2
  <2>3. UpClosed(t, S)
    BY <2>2 DEF UpClosed
  <2>4. n \in S /\ m # n
    BY <1>6, <2>1, <2>3 DEF IsDescendantOf
  <2>. QED
    BY <1>1, <1>4, <2>4
<1>. QED
  BY <1>2, <1>5, <1>6

-----------------------------------------------------------------------------
(***************************************************************************)
(* The handles the arena accepts are finitely many, whatever Node is: each *)
(* call brings at most one.                                                *)
(***************************************************************************)
LEMMA LiveFinite == Spec => []IsFiniteSet(live)
<1>1. Init => IsFiniteSet(live)
  BY FS_EmptySet DEF Init
<1>2. IsFiniteSet(live) /\ [Next]_vars => IsFiniteSet(live)'
  <2>. SUFFICES ASSUME IsFiniteSet(live), [Next]_vars PROVE IsFiniteSet(live')
    OBVIOUS
  <2>1. live' = live \/ \E x : live' = live \cup {x}
    BY DEF Next, vars, Create, AppendChild, InsertBefore, PreInsert, RemoveChild, ReplaceChild,
           SetTextContent, SplitText, Rejected
  <2>. QED
    BY <2>1, FS_AddElement
<1>. QED
  BY <1>1, <1>2, PTL DEF Spec

(***************************************************************************)
(* The cap of is_descendant_of, the number of live nodes and one more      *)
(* step, never cuts a walk short: whatever calls made the tree, the capped *)
(* walk answers whether there is an ancestor.                              *)
(***************************************************************************)
THEOREM WalkAlwaysExact == Spec => []WalkExact
<1>1. IInv /\ IsFiniteSet(live) => WalkExact
  <2>. SUFFICES ASSUME IInv, IsFiniteSet(live) PROVE WalkExact
    OBVIOUS
  <2>1. tree \in Tree /\ WellFounded(tree.parent) /\ live \in SUBSET Node
    BY DEF IInv, Typed, Good
  <2>2. \A n \in Node : tree.parent[n] # Null => n \in live /\ tree.parent[n] \in live
    BY DEF IInv, KindsRespected, MayBeParent
  <2>. QED
    BY <2>1, <2>2, CappedWalkExact DEF WalkExact
<1>. QED
  BY <1>1, Invariance, LiveFinite, PTL
=============================================================================
