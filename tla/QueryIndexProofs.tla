-------------------------- MODULE QueryIndexProofs --------------------------
(***************************************************************************)
(* The query index holds, after any history, exactly what the document     *)
(* holds, so that live collections and getElementById answer what a        *)
(* traversal would.  The argument has four parts: what Preorder lists is a *)
(* subtree (Sub), every operation of the mutation API moves subtrees       *)
(* (Moved), the chokepoints update the lists as the trees move (Exact),    *)
(* and reads of exact lists find what traversals find.                     *)
(***************************************************************************)
EXTENDS QueryIndex, ListProofs, FiniteSetTheorems

-----------------------------------------------------------------------------
(***************************************************************************)
(* Trees without cycle, as every set of nodes has a lowest one, and in     *)
(* which a node is a child once at most.                                   *)
(***************************************************************************)
Grounded(k) == \A S \in SUBSET Node : S # {} => \E n \in S : ToSet(k[n]) \cap S = {}

SingleOwner(k) ==
  /\ \A p \in Node : IsInjective(k[p])
  /\ \A p, q \in Node : p # q => ToSet(k[p]) \cap ToSet(k[q]) = {}

Forest(k) == k \in [Node -> Seq(Node)] /\ Grounded(k) /\ SingleOwner(k)

Closed(k, S) == S \in SUBSET Node /\ \A n \in S : ToSet(k[n]) \subseteq S

\* Children are nodes.
LEMMA KidsTyped ==
  ASSUME NEW k \in [Node -> Seq(Node)], NEW n \in Node
  PROVE  /\ k[n] \in Seq(Node) /\ ToSet(k[n]) \subseteq Node
         /\ \A i \in DOMAIN k[n] : k[n][i] \in Node /\ k[n][i] \in ToSet(k[n])
BY EntriesTyped

\* What passes from the children of a node to the node holds of every node.
LEMMA GroundInduction ==
  ASSUME NEW k \in [Node -> Seq(Node)], Grounded(k), NEW T \in SUBSET Node,
         \A m \in Node : ToSet(k[m]) \subseteq T => m \in T
  PROVE  T = Node
<1>1. Bottomed(Node, k)
  BY Zenon DEF Grounded, Bottomed
<1>. QED
  BY <1>1, BottomInduction

-----------------------------------------------------------------------------
(***************************************************************************)
(* What Preorder lists, without its recursion: the least set that holds    *)
(* the node and is closed under taking children.                           *)
(***************************************************************************)
Sub(k, a) == ToSet(Preorder(k, a))

\* Which is what DepthFirst reaches.
LEMMA SubIs ==
  ASSUME NEW k, Grounded(k)
  PROVE  /\ Bottomed(Node, k)
         /\ \A n : Preorder(k, n) = DepthFirst(Node, k, n) /\ Sub(k, n) = Reach(Node, k, n)
         /\ \A S : Closed(k, S) <=> ClosedIn(Node, k, S)
<1>1. Bottomed(Node, k)
  BY Zenon DEF Grounded, Bottomed
<1>2. \A n : Preorder(k, n) = DepthFirst(Node, k, n)
  BY Zenon DEF Preorder, DepthFirst
<1>3. \A n : Sub(k, n) = Reach(Node, k, n)
  BY <1>2, Zenon DEF Sub, Reach
<1>4. \A S : Closed(k, S) <=> ClosedIn(Node, k, S)
  BY Zenon DEF Closed, ClosedIn
<1>. QED
  BY <1>1, <1>2, <1>3, <1>4

\* Preorder is the node before the preorders of its children.
LEMMA PreorderUnfolds ==
  ASSUME NEW k \in [Node -> Seq(Node)], Grounded(k), NEW a \in Node
  PROVE  \E t \in [DOMAIN k[a] -> Seq(Node)] :
           /\ \A i \in DOMAIN k[a] : t[i] = Preorder(k, k[a][i])
           /\ Preorder(k, a) = Rooted(a, t)
<1>1. \A n : Preorder(k, n) = DepthFirst(Node, k, n)
  BY SubIs
<1>2. PICK t \in [DOMAIN k[a] -> Seq(Node)] :
        (\A i \in DOMAIN k[a] : t[i] = DepthFirst(Node, k, k[a][i])) /\ DepthFirst(Node, k, a) = Rooted(a, t)
  BY SubIs, DepthFirstUnfolds
<1>3. (\A i \in DOMAIN k[a] : t[i] = Preorder(k, k[a][i])) /\ Preorder(k, a) = Rooted(a, t)
  BY <1>1, <1>2, Zenon
<1>. QED
  BY <1>3, Zenon

\* A subtree is its node and the subtrees of the node's children.
LEMMA SubUnfolds ==
  ASSUME NEW k \in [Node -> Seq(Node)], Grounded(k), NEW a \in Node
  PROVE  /\ Preorder(k, a) \in Seq(Node) /\ Preorder(k, a) # <<>> /\ Head(Preorder(k, a)) = a
         /\ Sub(k, a) \subseteq Node /\ a \in Sub(k, a)
         /\ Sub(k, a) = {a} \cup UNION {Sub(k, c) : c \in ToSet(k[a])}
<1>1. /\ Preorder(k, a) = DepthFirst(Node, k, a) /\ \A n : Sub(k, n) = Reach(Node, k, n)
      /\ DepthFirst(Node, k, a) \in Seq(Node) /\ DepthFirst(Node, k, a) # <<>> /\ Head(DepthFirst(Node, k, a)) = a
      /\ Reach(Node, k, a) \subseteq Node /\ a \in Reach(Node, k, a)
      /\ Reach(Node, k, a) = {a} \cup UNION {Reach(Node, k, c) : c \in ToSet(k[a])}
  BY SubIs, ReachUnfolds
<1>2. UNION {Reach(Node, k, c) : c \in ToSet(k[a])} = UNION {Sub(k, c) : c \in ToSet(k[a])}
  BY ONLY <1>1
<1>. QED
  BY ONLY <1>1, <1>2

\* Inside is to be in the subtree.
LEMMA InsideIs ==
  ASSUME NEW k \in [Node -> Seq(Node)], Grounded(k), NEW a \in Node, NEW n
  PROVE  Inside(k, a, n) <=> n \in Sub(k, a)
<1>1. PICK order : order = Preorder(k, a)
  OBVIOUS
<1>2. order \in Seq(Node) /\ order # <<>> /\ Head(order) = a /\ a \in ToSet(order)
  BY <1>1, SubUnfolds, Zenon DEF Sub
<1>3. ToSet(order) = {a} \cup ToSet(Tail(order))
  BY ONLY <1>2, TailFacts
<1>. QED
  BY <1>1, <1>3, Zenon DEF Inside, Below, Sub

\* A subtree holds the children of its nodes.
LEMMA SubClosed ==
  ASSUME NEW k \in [Node -> Seq(Node)], Grounded(k), NEW a \in Node
  PROVE  Closed(k, Sub(k, a))
BY SubIs, ReachClosed

\* A subtree is within every set that does so.
LEMMA SubLeast ==
  ASSUME NEW k \in [Node -> Seq(Node)], Grounded(k), NEW S, Closed(k, S), NEW a \in S
  PROVE  Sub(k, a) \subseteq S
BY SubIs, ReachLeast

\* The subtree of a node in a subtree is part of it.
LEMMA SubInside ==
  ASSUME NEW k \in [Node -> Seq(Node)], Grounded(k), NEW a \in Node, NEW b \in Sub(k, a)
  PROVE  b \in Node /\ Sub(k, b) \subseteq Sub(k, a)
<1>1. Sub(k, a) \subseteq Node
  BY SubUnfolds
<1>. QED
  BY <1>1, SubClosed, SubLeast

\* No node is below one of its children.
LEMMA NoCycle ==
  ASSUME NEW k \in [Node -> Seq(Node)], Grounded(k), NEW a \in Node, NEW c \in ToSet(k[a])
  PROVE  c \in Node /\ a \notin Sub(k, c)
<1>. DEFINE T == {m \in Node : \A d \in ToSet(k[m]) : m \notin Sub(k, d)}
<1>1. ASSUME NEW m \in Node, ToSet(k[m]) \subseteq T PROVE m \in T
  <2>. SUFFICES ASSUME NEW d \in ToSet(k[m]), m \in Sub(k, d) PROVE FALSE
    OBVIOUS
  <2>1. d \in Node /\ d \in T
    BY <1>1, KidsTyped
  <2>2. CASE m = d
    <3>1. PICK n \in {m} : ToSet(k[n]) \cap {m} = {}
      BY DEF Grounded
    <3>. QED
      BY <2>2, <3>1
  <2>3. CASE m # d
    <3>0. Sub(k, d) = {d} \cup UNION {Sub(k, c2) : c2 \in ToSet(k[d])}
      BY <2>1, SubUnfolds
    <3>1. PICK e \in ToSet(k[d]) : m \in Sub(k, e)
      BY <2>3, <3>0
    <3>2. e \in Node
      BY <2>1, KidsTyped
    <3>3. d \in Sub(k, e)
      BY <3>1, <3>2, SubClosed DEF Closed
    <3>. QED
      BY <2>1, <3>1, <3>3
  <2>. QED
    BY <2>2, <2>3
<1>. HIDE DEF T
<1>2. T = Node
  <2>1. T \in SUBSET Node
    BY DEF T
  <2>. QED
    BY <1>1, <2>1, GroundInduction
<1>3. a \in T
  BY <1>2
<1>. QED
  BY <1>3, KidsTyped DEF T

\* A node of a subtree, other than its top, has its parent there.
LEMMA SubOwner ==
  ASSUME NEW k, Forest(k), NEW a \in Node, NEW x \in Sub(k, a), x # a
  PROVE  /\ \E q \in Sub(k, a) : x \in ToSet(k[q])
         /\ \A q \in Node : x \in ToSet(k[q]) => q \in Sub(k, a)
<1>0. k \in [Node -> Seq(Node)] /\ Grounded(k) /\ SingleOwner(k)
  BY DEF Forest
<1>. DEFINE S == {y \in Sub(k, a) : y = a \/ \E q \in Sub(k, a) : y \in ToSet(k[q])}
<1>1. Sub(k, a) \subseteq Node /\ a \in Sub(k, a) /\ Closed(k, Sub(k, a))
  BY <1>0, SubUnfolds, SubClosed
<1>2. Closed(k, S) /\ a \in S
  BY <1>1 DEF Closed
<1>3. Sub(k, a) \subseteq S
  BY <1>0, <1>2, SubLeast
<1>4. PICK q \in Sub(k, a) : x \in ToSet(k[q])
  BY <1>3
<1>5. \A p \in Node : x \in ToSet(k[p]) => p = q
  BY <1>0, <1>1, <1>4 DEF SingleOwner
<1>. QED
  BY <1>4, <1>5

\* Subtrees neither of which holds the top of the other share nothing.
LEMMA SubApart ==
  ASSUME NEW k, Forest(k), NEW a \in Node, NEW b \in Node, a \notin Sub(k, b), b \notin Sub(k, a)
  PROVE  Sub(k, a) \cap Sub(k, b) = {}
<1>0. k \in [Node -> Seq(Node)] /\ Grounded(k) /\ SingleOwner(k)
  BY DEF Forest
<1>. DEFINE S == {y \in Sub(k, a) : y \notin Sub(k, b)}
<1>1. Sub(k, a) \subseteq Node /\ a \in Sub(k, a) /\ Closed(k, Sub(k, a))
  BY <1>0, SubUnfolds, SubClosed
<1>2. ASSUME NEW y \in S, NEW d \in ToSet(k[y]) PROVE d \in S
  <2>1. d \in Sub(k, a) /\ y \in Node
    BY <1>1 DEF Closed
  <2>2. d \in Sub(k, b) => d # b
    BY <2>1
  <2>3. d \in Sub(k, b) => y \in Sub(k, b)
    BY <2>1, <2>2, SubOwner
  <2>. QED
    BY <2>1, <2>3
<1>3. Closed(k, S) /\ a \in S
  BY <1>1, <1>2 DEF Closed
<1>4. Sub(k, a) \subseteq S
  BY <1>0, <1>3, SubLeast
<1>. QED
  BY <1>4

\* The subtrees of two siblings share nothing.
LEMMA SiblingsApart ==
  ASSUME NEW k, Forest(k), NEW a \in Node, NEW c \in ToSet(k[a]), NEW d \in ToSet(k[a]), c # d
  PROVE  Sub(k, c) \cap Sub(k, d) = {}
<1>0. k \in [Node -> Seq(Node)] /\ Grounded(k) /\ SingleOwner(k)
  BY DEF Forest
<1>1. c \in Node /\ d \in Node /\ a \notin Sub(k, c) /\ a \notin Sub(k, d)
  BY <1>0, NoCycle
<1>2. c \notin Sub(k, d) /\ d \notin Sub(k, c)
  BY <1>1, SubOwner
<1>. QED
  BY <1>1, <1>2, SubApart

\* Preorder meets every node once.
LEMMA PreorderInjective ==
  ASSUME NEW k, Forest(k), NEW a \in Node
  PROVE  IsInjective(Preorder(k, a))
<1>0. k \in [Node -> Seq(Node)] /\ Grounded(k) /\ SingleOwner(k)
  BY DEF Forest
<1>. DEFINE T == {n \in Node : IsInjective(Preorder(k, n))}
<1>1. ASSUME NEW n \in Node, ToSet(k[n]) \subseteq T PROVE n \in T
  <2>1. PICK t \in [DOMAIN k[n] -> Seq(Node)] :
          (\A i \in DOMAIN k[n] : t[i] = Preorder(k, k[n][i])) /\ Preorder(k, n) = Rooted(n, t)
    BY <1>0, PreorderUnfolds
  <2>2. k[n] \in Seq(Node) /\ \A i \in DOMAIN k[n] : k[n][i] \in ToSet(k[n])
    BY <1>0, KidsTyped
  <2>3. \A i \in DOMAIN k[n] : IsInjective(t[i]) /\ n \notin ToSet(t[i])
    BY <1>0, <1>1, <2>1, <2>2, NoCycle DEF Sub
  <2>4. \A i, j \in DOMAIN k[n] : i # j => k[n][i] # k[n][j]
    BY <1>0 DEF SingleOwner, IsInjective
  <2>5. \A i, j \in DOMAIN k[n] : i # j => ToSet(t[i]) \cap ToSet(t[j]) = {}
    BY <2>1, <2>2, <2>4, SiblingsApart DEF Sub
  <2>6. Apart(t)
    BY <2>3, <2>5 DEF Apart
  <2>. QED
    BY <2>1, <2>2, <2>3, <2>6, RootedTyped
<1>. HIDE DEF T
<1>2. T = Node
  <2>1. T \in SUBSET Node
    BY DEF T
  <2>. QED
    BY <1>0, <1>1, <2>1, GroundInduction
<1>3. a \in T
  BY <1>2
<1>. QED
  BY <1>3 DEF T

\* Below lists the rest of the subtree, each node once.
LEMMA BelowFacts ==
  ASSUME NEW k, Forest(k), NEW a \in Node
  PROVE  Below(k, a) \in Seq(Node) /\ IsInjective(Below(k, a)) /\ ToSet(Below(k, a)) = Sub(k, a) \ {a}
<1>1. /\ Preorder(k, a) \in Seq(Node) /\ Preorder(k, a) # <<>> /\ Head(Preorder(k, a)) = a
      /\ IsInjective(Preorder(k, a)) /\ a \in Sub(k, a)
  BY SubUnfolds, PreorderInjective DEF Forest
<1>. QED
  BY <1>1, TailFacts DEF Below, Sub

-----------------------------------------------------------------------------
(***************************************************************************)
(* Where a list is cut to put others in.                                   *)
(***************************************************************************)
\* Position is the place of the first entry that is c.
LEMMA PositionFacts ==
  ASSUME NEW X, NEW s \in Seq(X), NEW c \in ToSet(s)
  PROVE  /\ Position(s, c) \in 1 .. Len(s) /\ s[Position(s, c)] = c
         /\ \A i \in 1 .. Len(s) : s[i] = c => Position(s, c) <= i
<1>. DEFINE I == {i \in 1 .. Len(s) : s[i] = c}
<1>1. DOMAIN s = 1 .. Len(s) /\ I \in SUBSET Nat
  OBVIOUS
<1>2. I # {}
  BY <1>1 DEF ToSet
<1>3. \E x \in I : \A y \in I : x <= y
  BY <1>1, <1>2, LeastNatural
<1>4. Position(s, c) = CHOOSE x \in I : \A y \in I : x <= y
  BY <1>2, Zenon DEF Position, SelectInSeq, Min
<1>. HIDE DEF I
<1>5. Position(s, c) \in I /\ \A y \in I : Position(s, c) <= y
  BY ONLY <1>3, <1>4
<1>. QED
  BY <1>5 DEF I

\* PutBefore adds exactly what it is given.
LEMMA PutBeforeFacts ==
  ASSUME NEW X, NEW s \in Seq(X), NEW xs \in Seq(X), NEW ref, ref = Null \/ ref \in ToSet(s)
  PROVE  /\ PutBefore(s, ref, xs) \in Seq(X) /\ ToSet(PutBefore(s, ref, xs)) = ToSet(s) \cup ToSet(xs)
         /\ IsInjective(s) /\ IsInjective(xs) /\ ToSet(s) \cap ToSet(xs) = {}
            => IsInjective(PutBefore(s, ref, xs))
<1>1. CASE ref = Null
  <2>1. PutBefore(s, ref, xs) = s \o xs
    BY <1>1, Zenon DEF PutBefore
  <2>. QED
    BY <2>1, ConcatFacts
<1>2. CASE ref # Null
  <2>1. PICK i : i = Position(s, ref)
    OBVIOUS
  <2>2. i \in 1 .. Len(s) + 1
    <3>1. i \in 1 .. Len(s)
      BY <1>2, <2>1, PositionFacts
    <3>. QED
      BY <3>1
  <2>3. SplicedAt(s, i, xs, PutBefore(s, ref, xs))
    BY <1>2, <2>1, <2>2, Zenon DEF PutBefore, SplicedAt
  <2>. QED
    BY ONLY <2>3, s \in Seq(X), xs \in Seq(X), SpliceFacts
<1>. QED
  BY <1>1, <1>2

-----------------------------------------------------------------------------
(***************************************************************************)
(* What a list holds once elements have entered it, wherever they enter.   *)
(***************************************************************************)
Grown(X, s, E, r) ==
  /\ r \in Seq(X) /\ ToSet(r) = ToSet(s) \cup E
  /\ IsInjective(s) /\ ToSet(s) \cap E = {} => IsInjective(r)

\* Listed adds exactly el, wherever the search ends.
LEMMA ListedFacts ==
  ASSUME NEW X, NEW s \in Seq(X), NEW el \in X, NEW k, NEW r \in Listed(k, s, el)
  PROVE  Grown(X, s, {el}, r)
<1>1. CASE IsLast(k, el)
  <2>1. r = Append(s, el)
    BY <1>1 DEF Listed
  <2>. QED
    BY <2>1, AppendFacts DEF Grown
<1>2. CASE ~ IsLast(k, el)
  <2>1. PICK i \in 1 .. Len(s) + 1 : r = InsertAt(s, i, el)
    BY <1>2, Zenon DEF Listed
  <2>2. <<el>> \in Seq(X) /\ ToSet(<<el>>) = {el} /\ IsInjective(<<el>>)
    BY DEF ToSet, IsInjective
  <2>3. PICK one \in Seq(X) : one = <<el>>
    BY <2>2
  <2>4. SplicedAt(s, i, one, r)
    BY <2>1, <2>3, Zenon DEF InsertAt, SplicedAt
  <2>5. /\ r \in Seq(X) /\ ToSet(r) = ToSet(s) \cup ToSet(one)
        /\ IsInjective(s) /\ IsInjective(one) /\ ToSet(s) \cap ToSet(one) = {} => IsInjective(r)
    BY ONLY <2>4, s \in Seq(X), one \in Seq(X), SpliceFacts
  <2>. QED
    BY ONLY <2>2, <2>3, <2>5 DEF Grown
<1>. QED
  BY <1>1, <1>2

IsEntered(k, s, els, len, f) ==
  f = [n \in 0 .. len |-> IF n = 0 THEN {s} ELSE UNION {Listed(k, r, els[n]) : r \in f[n - 1]}]

\* The recursive function that Entered names exists.
LEMMA EnteredExists ==
  ASSUME NEW k, NEW s, NEW els, NEW len \in Nat
  PROVE  \E f : IsEntered(k, s, els, len, f)
<1>. DEFINE T == {j \in Nat : \E f : IsEntered(k, s, els, j, f)}
<1>1. 0 \in T
  <2>. DEFINE f == [n \in 0 .. 0 |-> {s}]
  <2>1. f = [n \in 0 .. 0 |-> IF n = 0 THEN {s} ELSE UNION {Listed(k, r, els[n]) : r \in f[n - 1]}]
    BY \A n \in 0 .. 0 : n = 0
  <2>2. IsEntered(k, s, els, 0, f)
    BY <2>1, Zenon DEF IsEntered
  <2>. QED
    BY <2>2
<1>2. ASSUME NEW j \in T PROVE j + 1 \in T
  <2>1. PICK f : IsEntered(k, s, els, j, f)
    OBVIOUS
  <2>2. f = [n \in 0 .. j |-> IF n = 0 THEN {s} ELSE UNION {Listed(k, r, els[n]) : r \in f[n - 1]}]
    BY <2>1, Zenon DEF IsEntered
  <2>. DEFINE Add(n) == UNION {Listed(k, r, els[n]) : r \in f[n - 1]}
              g == [n \in 0 .. j + 1 |-> IF n <= j THEN f[n] ELSE Add(n)]
  <2>3. ASSUME NEW n \in 0 .. j + 1, n # 0 PROVE n - 1 \in 0 .. j
    BY <2>3
  <2>4. \A n \in 0 .. j + 1 : n # 0 => g[n - 1] = f[n - 1]
    <3>. HIDE DEF Add
    <3>. QED
      BY <2>3
  <2>5. \A n \in 0 .. j + 1 : n <= j => f[n] = IF n = 0 THEN {s} ELSE Add(n)
    <3>1. \A n \in 0 .. j : f[n] = IF n = 0 THEN {s} ELSE Add(n)
      BY <2>2, Zenon
    <3>2. \A n \in 0 .. j + 1 : n <= j => n \in 0 .. j
      OBVIOUS
    <3>. QED
      BY <3>1, <3>2
  <2>6. \A n \in 0 .. j + 1 : g[n] = IF n = 0 THEN {s} ELSE Add(n)
    <3>. HIDE DEF Add
    <3>. QED
      BY <2>5
  <2>7. \A n \in 0 .. j + 1 : n # 0 => Add(n) = UNION {Listed(k, r, els[n]) : r \in g[n - 1]}
    BY <2>4, Zenon
  <2>8. \A n \in 0 .. j + 1 : g[n] = IF n = 0 THEN {s} ELSE UNION {Listed(k, r, els[n]) : r \in g[n - 1]}
    <3>. HIDE DEF g, Add
    <3>. QED
      BY <2>6, <2>7, Zenon
  <2>9. g = [n \in 0 .. j + 1 |-> g[n]]
    OBVIOUS
  <2>10. IsEntered(k, s, els, j + 1, g)
    <3>. HIDE DEF g
    <3>. QED
      BY <2>8, <2>9, Zenon DEF IsEntered
  <2>. QED
    BY <2>10
<1>3. T = Nat
  <2>. HIDE DEF T
  <2>1. T \in SUBSET Nat
    BY DEF T
  <2>. QED
    BY <1>1, <1>2, <2>1, SetInduction
<1>. QED
  BY <1>3

Firsts(els, n) == {els[i] : i \in 1 .. n}

\* Entered adds exactly the elements that enter.
LEMMA EnteredFacts ==
  ASSUME NEW X, NEW s \in Seq(X), NEW els \in Seq(X), IsInjective(els), NEW k, NEW r \in Entered(k, s, els)
  PROVE  Grown(X, s, ToSet(els), r)
<1>. DEFINE f == CHOOSE f : IsEntered(k, s, els, Len(els), f)
<1>0. PICK len \in Nat : len = Len(els)
  OBVIOUS
<1>1. IsEntered(k, s, els, len, f)
  BY <1>0, EnteredExists, Zenon
<1>2. r \in f[len]
  BY <1>0, Zenon DEF Entered, IsEntered
<1>. HIDE DEF f
<1>3. \A n \in 0 .. len : f[n] = IF n = 0 THEN {s} ELSE UNION {Listed(k, q, els[n]) : q \in f[n - 1]}
  BY <1>1, Zenon DEF IsEntered
<1>4. DOMAIN els = 1 .. len /\ (\A i \in 1 .. len : els[i] \in X)
      /\ \A i, j \in 1 .. len : els[i] = els[j] => i = j
  BY <1>0 DEF IsInjective
<1>. DEFINE T == {n \in Nat : n <= len => \A q \in f[n] : Grown(X, s, Firsts(els, n), q)}
<1>5. 0 \in T
  <2>1. f[0] = {s}
    <3>1. 0 \in 0 .. len
      OBVIOUS
    <3>. QED
      BY ONLY <1>3, <3>1, Zenon
  <2>2. Firsts(els, 0) = {}
    BY DEF Firsts
  <2>3. Grown(X, s, {}, s)
    BY DEF Grown
  <2>. QED
    BY <2>1, <2>2, <2>3
<1>6. ASSUME NEW n \in T PROVE n + 1 \in T
  <2>. SUFFICES ASSUME n + 1 <= len, NEW q \in f[n + 1] PROVE Grown(X, s, Firsts(els, n + 1), q)
    OBVIOUS
  <2>1. n \in Nat /\ n <= len /\ n + 1 \in 1 .. len /\ n + 1 \in 0 .. len /\ n + 1 # 0 /\ (n + 1) - 1 = n
    OBVIOUS
  <2>2. f[n + 1] = UNION {Listed(k, p, els[n + 1]) : p \in f[n]}
    BY <1>3, <2>1
  <2>3. PICK p \in f[n] : q \in Listed(k, p, els[n + 1])
    BY <2>2
  <2>4. Grown(X, s, Firsts(els, n), p)
    BY <2>1, <2>3
  <2>5. els[n + 1] \in X
    BY <1>4, <2>1
  <2>6. p \in Seq(X)
    BY <2>4 DEF Grown
  <2>7. Grown(X, p, {els[n + 1]}, q)
    BY <2>3, <2>5, <2>6, ListedFacts
  <2>8. Firsts(els, n + 1) = Firsts(els, n) \cup {els[n + 1]}
    <3>1. \A i \in 1 .. n + 1 : i \in 1 .. n \/ i = n + 1
      BY <2>1
    <3>2. \A i \in 1 .. n : i \in 1 .. n + 1
      BY <2>1
    <3>3. n + 1 \in 1 .. n + 1
      BY <2>1
    <3>. QED
      BY ONLY <3>1, <3>2, <3>3 DEF Firsts
  <2>9. els[n + 1] \notin Firsts(els, n)
    <3>1. \A i \in 1 .. n : i \in 1 .. len /\ i # n + 1
      BY <2>1
    <3>. QED
      BY ONLY <1>4, <2>1, <3>1 DEF Firsts
  <2>. QED
    BY ONLY <2>4, <2>7, <2>8, <2>9 DEF Grown
<1>7. T = Nat
  <2>. HIDE DEF T
  <2>1. T \in SUBSET Nat
    BY DEF T
  <2>. QED
    BY <1>5, <1>6, <2>1, SetInduction
<1>8. Firsts(els, len) = ToSet(els)
  BY <1>4 DEF Firsts, ToSet
<1>9. len \in T
  BY <1>7
<1>. QED
  BY <1>2, <1>8, <1>9

\* An outcome picks one of the lists offered for each key.
LEMMA OutcomesFacts ==
  ASSUME NEW c, NEW f \in Outcomes(c)
  PROVE  DOMAIN f = DOMAIN c /\ f = [key \in DOMAIN c |-> f[key]] /\ \A key \in DOMAIN c : f[key] \in c[key]
<1>. DEFINE open == {key \in DOMAIN c : \A s \in c[key] : c[key] # {s}}
            picks == {g \in [open -> UNION {c[key] : key \in open}] : \A key \in open : g[key] \in c[key]}
<1>1. f \in {[key \in DOMAIN c |-> IF key \in open THEN g[key] ELSE CHOOSE s \in c[key] : TRUE] : g \in picks}
  BY Zenon DEF Outcomes
<1>2. PICK g \in picks : f = [key \in DOMAIN c |-> IF key \in open THEN g[key] ELSE CHOOSE s \in c[key] : TRUE]
  BY <1>1, Zenon
<1>3. \A key \in open : g[key] \in c[key]
  BY <1>2
<1>4. \A key \in DOMAIN c : key \notin open => \E s \in c[key] : c[key] = {s}
  BY Zenon
<1>. HIDE DEF open
<1>5. \A key \in DOMAIN c : f[key] \in c[key]
  <2>. TAKE key \in DOMAIN c
  <2>1. CASE key \in open
    BY <1>2, <1>3, <2>1, Zenon
  <2>2. CASE key \notin open
    <3>1. f[key] = CHOOSE s \in c[key] : TRUE
      BY <1>2, <2>2, Zenon
    <3>. QED
      BY <1>4, <2>2, <3>1, Zenon
  <2>. QED
    BY <2>1, <2>2
<1>6. DOMAIN f = DOMAIN c
  BY ONLY <1>2, Zenon
<1>7. f = [key \in DOMAIN c |-> f[key]]
  BY ONLY <1>2
<1>. QED
  BY <1>5, <1>6, <1>7, Zenon

-----------------------------------------------------------------------------
(***************************************************************************)
(* The trees at the nodes of Q leave the tree k, and those at the nodes of *)
(* X are linked below p, which makes the tree k2.                          *)
(***************************************************************************)
Trees(k, Q) == UNION {Sub(k, q) : q \in Q}

RootOnTop(k) == \A n \in Node : Root \notin ToSet(k[n])

Moved(k, k2, p, Q, X) ==
  /\ Forest(k) /\ RootOnTop(k) /\ k2 \in [Node -> Seq(Node)] /\ p \in Node
  /\ Q \subseteq Element /\ X \subseteq Element
  /\ \A m \in Node : /\ IsInjective(k2[m])
                     /\ ToSet(k2[m]) = (ToSet(k[m]) \ Q) \cup (IF m = p THEN X ELSE {})
  /\ p \notin Trees(k, Q)
  /\ \A x \in X : /\ p \notin Sub(k, x) /\ Sub(k, x) \cap Q \subseteq {x}
                  /\ x \in Q \/ \A m \in Node : x \notin ToSet(k[m])
  /\ \A x, y \in X : x # y => Sub(k, x) \cap Sub(k, y) = {}

\* What the definition gives about the two trees.
LEMMA MovedFacts ==
  ASSUME NEW k, NEW k2, NEW p, NEW Q, NEW X, Moved(k, k2, p, Q, X)
  PROVE  /\ k \in [Node -> Seq(Node)] /\ k2 \in [Node -> Seq(Node)] /\ Grounded(k) /\ SingleOwner(k) /\ p \in Node
         /\ Q \subseteq Node /\ X \subseteq Node /\ Root \notin Q /\ Root \notin X /\ Root \in Node
         /\ Forest(k) /\ RootOnTop(k)
BY QueryIndexAssumption DEF Moved, Forest, Element

\* Inside what moves, children can only leave.
LEMMA MovedBelow ==
  ASSUME NEW k, NEW k2, NEW p, NEW Q, NEW X, Moved(k, k2, p, Q, X), NEW n \in Trees(k, X)
  PROVE  n \in Node /\ n # p /\ ToSet(k2[n]) \subseteq ToSet(k[n]) /\ ToSet(k[n]) \subseteq Trees(k, X)
<1>0. k \in [Node -> Seq(Node)] /\ Grounded(k) /\ X \subseteq Node
  BY MovedFacts
<1>1. PICK x \in X : n \in Sub(k, x)
  BY DEF Trees
<1>2. Sub(k, x) \subseteq Node /\ Closed(k, Sub(k, x))
  BY <1>0, SubUnfolds, SubClosed
<1>3. p \notin Sub(k, x)
  BY DEF Moved
<1>4. n \in Node /\ n # p /\ ToSet(k[n]) \subseteq Sub(k, x)
  BY <1>1, <1>2, <1>3 DEF Closed
<1>5. ToSet(k2[n]) = ToSet(k[n]) \ Q
  BY <1>4 DEF Moved
<1>. QED
  BY <1>4, <1>5 DEF Trees

\* A move leaves a forest.
LEMMA MovedForest ==
  ASSUME NEW k, NEW k2, NEW p, NEW Q, NEW X, Moved(k, k2, p, Q, X)
  PROVE  Forest(k2) /\ RootOnTop(k2)
<1>0. /\ k \in [Node -> Seq(Node)] /\ k2 \in [Node -> Seq(Node)] /\ Grounded(k) /\ SingleOwner(k)
      /\ X \subseteq Node /\ p \in Node /\ Root \notin X
  BY MovedFacts
<1>1. ASSUME NEW S \in SUBSET Node, S # {} PROVE \E n \in S : ToSet(k2[n]) \cap S = {}
  <2>1. CASE S \cap Trees(k, X) # {}
    <3>1. PICK n \in S \cap Trees(k, X) : ToSet(k[n]) \cap (S \cap Trees(k, X)) = {}
      <4>1. S \cap Trees(k, X) \in SUBSET Node
        OBVIOUS
      <4>. QED
        BY <1>0, <2>1, <4>1 DEF Grounded
    <3>2. ToSet(k2[n]) \subseteq ToSet(k[n]) /\ ToSet(k[n]) \subseteq Trees(k, X)
      BY <3>1, MovedBelow
    <3>. QED
      BY <3>1, <3>2
  <2>2. CASE S \cap Trees(k, X) = {}
    <3>1. PICK n \in S : ToSet(k[n]) \cap S = {}
      BY <1>0, <1>1 DEF Grounded
    <3>2. ToSet(k2[n]) \subseteq ToSet(k[n]) \cup X
      BY DEF Moved
    <3>3. X \subseteq Trees(k, X)
      <4>1. \A x \in X : x \in Sub(k, x)
        BY <1>0, SubUnfolds
      <4>. QED
        BY <4>1 DEF Trees
    <3>. QED
      BY <2>2, <3>1, <3>2, <3>3
  <2>. QED
    BY <2>1, <2>2
<1>2. ASSUME NEW m \in Node, NEW n \in Node, m # n, NEW e \in ToSet(k2[m]), e \in ToSet(k2[n])
      PROVE  FALSE
  <2>1. ToSet(k2[m]) = (ToSet(k[m]) \ Q) \cup (IF m = p THEN X ELSE {})
    BY DEF Moved
  <2>2. ToSet(k2[n]) = (ToSet(k[n]) \ Q) \cup (IF n = p THEN X ELSE {})
    BY DEF Moved
  <2>3. e \in X => e \in Q \/ \A l \in Node : e \notin ToSet(k[l])
    BY DEF Moved
  <2>4. ToSet(k[m]) \cap ToSet(k[n]) = {}
    BY <1>0, <1>2 DEF SingleOwner
  <2>. QED
    BY <1>2, <2>1, <2>2, <2>3, <2>4
<1>3. SingleOwner(k2)
  <2>1. \A m \in Node : IsInjective(k2[m])
    BY DEF Moved
  <2>. QED
    BY <1>2, <2>1 DEF SingleOwner
<1>4. Grounded(k2)
  BY <1>1 DEF Grounded
<1>5. RootOnTop(k2)
  <2>1. \A m \in Node : ToSet(k2[m]) \subseteq ToSet(k[m]) \cup X
    BY DEF Moved
  <2>2. \A m \in Node : Root \notin ToSet(k[m])
    BY DEF Moved, RootOnTop
  <2>. QED
    BY <1>0, <2>1, <2>2 DEF RootOnTop
<1>. QED
  BY <1>0, <1>3, <1>4, <1>5 DEF Forest

\* The trees that move keep their content.
LEMMA MovedKept ==
  ASSUME NEW k, NEW k2, NEW p, NEW Q, NEW X, Moved(k, k2, p, Q, X), NEW x \in X
  PROVE  Sub(k2, x) = Sub(k, x)
<1>0. k \in [Node -> Seq(Node)] /\ k2 \in [Node -> Seq(Node)] /\ Grounded(k) /\ x \in Node
  BY MovedFacts
<1>1. Grounded(k2)
  BY MovedForest DEF Forest
<1>2. Sub(k, x) \subseteq Node /\ x \in Sub(k, x) /\ Closed(k, Sub(k, x))
  BY <1>0, SubUnfolds, SubClosed
<1>3. Sub(k2, x) \subseteq Node /\ x \in Sub(k2, x) /\ Closed(k2, Sub(k2, x))
  BY <1>0, <1>1, SubUnfolds, SubClosed
<1>4. p \notin Sub(k, x) /\ Sub(k, x) \cap Q \subseteq {x}
  BY DEF Moved
<1>5. \A n \in Sub(k, x) : ToSet(k2[n]) = ToSet(k[n]) \ Q
  BY <1>2, <1>4 DEF Moved
<1>6. Closed(k2, Sub(k, x))
  BY <1>2, <1>5 DEF Closed
<1>7. Sub(k2, x) \subseteq Sub(k, x)
  BY <1>0, <1>1, <1>2, <1>6, SubLeast
<1>. DEFINE S == Sub(k, x) \cap Sub(k2, x)
<1>8. ASSUME NEW n \in S, NEW d \in ToSet(k[n]) PROVE d \in S
  <2>1. d \in Sub(k, x) /\ n \in Node
    BY <1>2 DEF Closed
  <2>2. d # x
    <3>1. n \notin Sub(k, d)
      BY <1>0, <2>1, NoCycle
    <3>. QED
      BY <3>1
  <2>3. d \in ToSet(k2[n])
    BY <1>4, <1>5, <2>1, <2>2
  <2>. QED
    BY <1>3, <2>1, <2>3 DEF Closed
<1>9. Closed(k, S) /\ x \in S
  BY <1>2, <1>3, <1>8 DEF Closed
<1>10. Sub(k, x) \subseteq S
  BY <1>0, <1>9, SubLeast
<1>. QED
  BY <1>7, <1>10

\* The document loses the trees of Q, and gains those of X if p is in it.
LEMMA MovedDocument ==
  ASSUME NEW k, NEW k2, NEW p, NEW Q, NEW X, Moved(k, k2, p, Q, X)
  PROVE  Sub(k2, Root) = (Sub(k, Root) \ Trees(k, Q)) \cup (IF p \in Sub(k, Root) THEN Trees(k, X) ELSE {})
<1>0. /\ k \in [Node -> Seq(Node)] /\ k2 \in [Node -> Seq(Node)] /\ Grounded(k) /\ SingleOwner(k) /\ Root \in Node
      /\ Q \subseteq Node /\ X \subseteq Node /\ Root \notin Q /\ Root \notin X /\ Forest(k) /\ p \in Node
  BY MovedFacts
<1>1. Grounded(k2)
  BY MovedForest DEF Forest
<1>. DEFINE R == Sub(k, Root)
            W == (R \ Trees(k, Q)) \cup (IF p \in R THEN Trees(k, X) ELSE {})
            S == {y \in R : y \in Trees(k, Q) \/ y \in Sub(k2, Root)}
<1>2. R \subseteq Node /\ Root \in R /\ Closed(k, R)
  BY <1>0, SubUnfolds, SubClosed
<1>3. Sub(k2, Root) \subseteq Node /\ Root \in Sub(k2, Root) /\ Closed(k2, Sub(k2, Root))
  BY <1>0, <1>1, SubUnfolds, SubClosed
<1>4. \A m \in Node : ToSet(k2[m]) = (ToSet(k[m]) \ Q) \cup (IF m = p THEN X ELSE {})
  BY DEF Moved
<1>5. \A q \in Q : q \in Sub(k, q) /\ Sub(k, q) \subseteq Node /\ Closed(k, Sub(k, q)) /\ q # Root
  BY <1>0, SubUnfolds, SubClosed
<1>6. \A x \in X : x \in Sub(k, x) /\ Sub(k, x) \subseteq Node
  BY <1>0, SubUnfolds
<1>7. Q \subseteq Trees(k, Q) /\ X \subseteq Trees(k, X) /\ Trees(k, X) \subseteq Node
  BY <1>5, <1>6 DEF Trees
<1>8. Root \notin Trees(k, Q)
  <2>. SUFFICES ASSUME NEW q \in Q, Root \in Sub(k, q) PROVE FALSE
    BY DEF Trees
  <2>1. q \in Node /\ q # Root
    BY <1>0
  <2>2. PICK m \in Sub(k, q) : Root \in ToSet(k[m])
    BY <1>0, <2>1, SubOwner
  <2>. QED
    BY <1>5, <2>2 DEF Moved, RootOnTop
<1>9. \A y \in Trees(k, Q) : ToSet(k[y]) \subseteq Trees(k, Q)
  BY <1>5 DEF Trees, Closed
<1>10. ASSUME NEW n \in W, NEW d \in ToSet(k2[n]) PROVE d \in W
  <2>1. CASE n \in R \ Trees(k, Q)
    <3>1. CASE d \in ToSet(k[n]) \ Q
      <4>1. d \in R /\ n \in Node
        BY <1>2, <2>1, <3>1 DEF Closed
      <4>2. ASSUME NEW q \in Q, d \in Sub(k, q) PROVE FALSE
        <5>1. q \in Node /\ d # q
          BY <1>0, <3>1
        <5>2. n \in Sub(k, q)
          BY <1>0, <3>1, <4>1, <4>2, <5>1, SubOwner
        <5>. QED
          BY <2>1, <5>2 DEF Trees
      <4>3. d \notin Trees(k, Q)
        BY <4>2 DEF Trees
      <4>. QED
        BY <4>1, <4>3
    <3>2. CASE d \notin ToSet(k[n]) \ Q
      <4>1. n = p /\ d \in X
        BY <1>2, <1>4, <2>1, <3>2
      <4>. QED
        BY <1>7, <2>1, <4>1
    <3>. QED
      BY <3>1, <3>2
  <2>2. CASE n \in Trees(k, X) /\ p \in R
    BY <2>2, MovedBelow
  <2>. QED
    BY <2>1, <2>2
<1>11. Closed(k2, W) /\ Root \in W
  BY <1>2, <1>7, <1>8, <1>10 DEF Closed
<1>12. Sub(k2, Root) \subseteq W
  <2>. HIDE DEF W
  <2>. QED
    BY <1>0, <1>1, <1>11, SubLeast
<1>13. ASSUME NEW y \in S, NEW d \in ToSet(k[y]) PROVE d \in S
  <2>1. d \in R /\ y \in Node
    BY <1>2 DEF Closed
  <2>2. CASE y \in Trees(k, Q)
    BY <1>9, <2>1, <2>2
  <2>3. CASE y \notin Trees(k, Q)
    <3>1. y \in Sub(k2, Root)
      BY <2>3
    <3>2. CASE d \in Q
      BY <1>7, <2>1, <3>2
    <3>3. CASE d \notin Q
      <4>1. d \in ToSet(k2[y])
        BY <1>4, <2>1, <3>3
      <4>2. d \in Sub(k2, Root)
        BY <1>3, <3>1, <4>1 DEF Closed
      <4>. QED
        BY <2>1, <4>2
    <3>. QED
      BY <3>2, <3>3
  <2>. QED
    BY <2>2, <2>3
<1>14. Closed(k, S) /\ Root \in S
  BY <1>2, <1>3, <1>13 DEF Closed
<1>15. R \subseteq S
  <2>. HIDE DEF S
  <2>. QED
    BY <1>0, <1>14, SubLeast
<1>16. ASSUME p \in R PROVE Trees(k, X) \subseteq Sub(k2, Root)
  <2>1. p \in Sub(k2, Root)
    BY <1>15, <1>16 DEF Moved
  <2>2. ASSUME NEW x \in X PROVE Sub(k, x) \subseteq Sub(k2, Root)
    <3>1. x \in ToSet(k2[p])
      BY <1>0, <1>4
    <3>2. x \in Sub(k2, Root)
      BY <1>3, <2>1, <3>1 DEF Closed
    <3>3. Sub(k2, x) \subseteq Sub(k2, Root)
      BY <1>0, <1>1, <3>2, SubInside
    <3>. QED
      BY <3>3, MovedKept
  <2>. QED
    BY <2>2 DEF Trees
<1>. QED
  BY <1>12, <1>15, <1>16

\* Trees that share nothing still share nothing after the move.
LEMMA MovedApart ==
  ASSUME NEW k, NEW k2, NEW p, NEW Q, NEW X, Moved(k, k2, p, Q, X)
  PROVE  /\ (Sub(k, Root) \ Trees(k, Q)) \cap Trees(k, X) = {}
         /\ \A x \in X : x \in Sub(k2, Root) <=> p \in Sub(k, Root)
<1>0. /\ k \in [Node -> Seq(Node)] /\ Grounded(k) /\ Forest(k) /\ Root \in Node /\ X \subseteq Node /\ Root \notin X
  BY MovedFacts
<1>1. ASSUME NEW x \in X PROVE (Sub(k, Root) \ Trees(k, Q)) \cap Sub(k, x) = {}
  <2>1. CASE x \in Q
    BY <2>1 DEF Trees
  <2>2. CASE x \notin Q
    <3>1. \A m \in Node : x \notin ToSet(k[m])
      BY <2>2 DEF Moved
    <3>2. x \in Node /\ x # Root /\ \A m \in Node : Root \notin ToSet(k[m])
      BY <1>0 DEF Moved, RootOnTop
    <3>3. Sub(k, x) \subseteq Node /\ Sub(k, Root) \subseteq Node
      BY <1>0, <3>2, SubUnfolds
    <3>4. x \notin Sub(k, Root)
      BY <1>0, <3>1, <3>2, <3>3, SubOwner
    <3>5. Root \notin Sub(k, x)
      BY <1>0, <3>2, <3>3, SubOwner
    <3>6. Sub(k, Root) \cap Sub(k, x) = {}
      BY <1>0, <3>2, <3>4, <3>5, SubApart
    <3>. QED
      BY <3>6
  <2>. QED
    BY <2>1, <2>2
<1>2. \A x \in X : x \in Trees(k, X) 
  BY <1>0, SubUnfolds DEF Trees
<1>3. (Sub(k, Root) \ Trees(k, Q)) \cap Trees(k, X) = {}
  BY <1>1 DEF Trees
<1>. QED
  BY <1>2, <1>3, MovedDocument

-----------------------------------------------------------------------------
(***************************************************************************)
(* Exact(m, ix, D, at): each maintained list of ix holds the elements of   *)
(* D that at gives its key, each once, and the others are empty.           *)
(***************************************************************************)
Listing(m, D, at, key) == IF key \in Maintained(m) THEN With(at, key, D) ELSE {}

Exact(m, ix, D, at) ==
  /\ ix \in [Key -> Seq(Node)]
  /\ \A key \in Key : IsInjective(ix[key]) /\ ToSet(ix[key]) = Listing(m, D, at, key)

\* One list of an exact index.
LEMMA ExactList ==
  ASSUME NEW m, NEW ix, NEW D, NEW at, Exact(m, ix, D, at), NEW key \in Key
  PROVE  ix[key] \in Seq(Node) /\ IsInjective(ix[key]) /\ ToSet(ix[key]) = Listing(m, D, at, key)
BY DEF Exact

\* An index whose lists are all exact is exact.
LEMMA ExactIs ==
  ASSUME NEW m, NEW ix, NEW D, NEW at, ix = [key \in Key |-> ix[key]],
         \A key \in Key : /\ ix[key] \in Seq(Node) /\ IsInjective(ix[key])
                          /\ ToSet(ix[key]) = Listing(m, D, at, key)
  PROVE  Exact(m, ix, D, at)
<1>1. ix \in [Key -> Seq(Node)]
  BY Zenon
<1>. QED
  BY <1>1, Zenon DEF Exact

\* The attributes of elements outside D do not matter.
LEMMA ExactSame ==
  ASSUME NEW m, NEW ix, NEW D, NEW at, Exact(m, ix, D, at), NEW bt, \A el \in D : bt[el] = at[el]
  PROVE  Exact(m, ix, D, bt)
<1>1. \A key : With(bt, key, D) = With(at, key, D)
  BY DEF With, KeysOf
<1>. QED
  BY <1>1 DEF Exact, Listing

\* The elements of several subtrees, listed one after another.
LEMMA SubtreesFacts ==
  ASSUME NEW k, Forest(k), NEW roots \in Seq(Node)
  PROVE  /\ Subtrees(k, roots) \in Seq(Node) /\ ToSet(Subtrees(k, roots)) = Trees(k, ToSet(roots))
         /\ IsInjective(roots) /\ (\A x, y \in ToSet(roots) : x # y => Sub(k, x) \cap Sub(k, y) = {})
            => IsInjective(Subtrees(k, roots))
<1>. DEFINE ss == [j \in DOMAIN roots |-> Preorder(k, roots[j])]
<1>0. k \in [Node -> Seq(Node)] /\ Grounded(k)
  BY DEF Forest
<1>1. \A j \in DOMAIN roots : roots[j] \in Node /\ roots[j] \in ToSet(roots)
  BY RangeTypes
<1>2. \A j \in DOMAIN roots : Preorder(k, roots[j]) \in Seq(Node)
  BY ONLY <1>0, <1>1, SubUnfolds
<1>3. ss \in Seq(Seq(Node)) /\ DOMAIN ss = DOMAIN roots
  <2>1. PICK n \in Nat : n = Len(roots) /\ DOMAIN roots = 1 .. n
    OBVIOUS
  <2>2. ss \in [1 .. n -> Seq(Node)] /\ DOMAIN ss = DOMAIN roots
    BY <1>2, <2>1
  <2>3. \A Y : \A f \in [1 .. n -> Y] : f \in Seq(Y)
    OBVIOUS
  <2>. QED
    BY ONLY <2>2, <2>3
<1>4. \A j \in DOMAIN roots : ToSet(ss[j]) = Sub(k, roots[j])
  BY Zenon DEF Sub
<1>5. Subtrees(k, roots) = FlattenSeq(ss)
  BY Zenon DEF Subtrees
<1>6. ASSUME IsInjective(roots), \A x, y \in ToSet(roots) : x # y => Sub(k, x) \cap Sub(k, y) = {}
      PROVE  Apart(ss)
  <2>1. \A j \in DOMAIN roots : IsInjective(ss[j])
    BY <1>1, PreorderInjective
  <2>2. \A i, j \in DOMAIN roots : i # j => roots[i] # roots[j]
    BY <1>6 DEF IsInjective
  <2>3. \A i, j \in DOMAIN roots : i # j => ToSet(ss[i]) \cap ToSet(ss[j]) = {}
    BY ONLY <1>1, <1>4, <1>6, <2>2
  <2>. HIDE DEF ss
  <2>. QED
    BY ONLY <1>3, <2>1, <2>3 DEF Apart
<1>. HIDE DEF ss
<1>7. /\ FlattenSeq(ss) \in Seq(Node)
      /\ ToSet(FlattenSeq(ss)) = UNION {ToSet(ss[i]) : i \in DOMAIN ss}
      /\ Apart(ss) => IsInjective(FlattenSeq(ss))
  BY ONLY <1>3, FlattenFacts
<1>8. UNION {ToSet(ss[i]) : i \in DOMAIN ss} = Trees(k, ToSet(roots))
  <2>1. ToSet(roots) = {roots[j] : j \in DOMAIN roots}
    BY Zenon DEF ToSet
  <2>. QED
    BY ONLY <1>3, <1>4, <2>1 DEF Trees
<1>. QED
  BY ONLY <1>5, <1>6, <1>7, <1>8

\* index_subtree_detached removes the trees of gone from the lists and nothing
\* else.
LEMMA DropExact ==
  ASSUME NEW k, Forest(k), NEW gone \in Seq(Node), NEW ix, NEW D, NEW at, Exact(mode, ix, D, at)
  PROVE  Exact(mode, DropSubtrees(k, at, ix, gone), D \ Trees(k, ToSet(gone)), at)
<1>. DEFINE els == ToSet(Subtrees(k, gone))
            jx == [key \in Key |-> IF key \notin Maintained(mode) THEN ix[key]
                                   ELSE Keeping(ix[key], Node \ With(at, key, els))]
<1>1. DropSubtrees(k, at, ix, gone) = jx
  BY Zenon DEF DropSubtrees
<1>2. els = Trees(k, ToSet(gone))
  BY SubtreesFacts
<1>. HIDE DEF els
<1>3. ASSUME NEW key \in Key
      PROVE  jx[key] \in Seq(Node) /\ IsInjective(jx[key]) /\ ToSet(jx[key]) = Listing(mode, D \ els, at, key)
  <2>1. ix[key] \in Seq(Node) /\ IsInjective(ix[key]) /\ ToSet(ix[key]) = Listing(mode, D, at, key)
    BY ExactList
  <2>2. CASE key \notin Maintained(mode)
    BY ONLY <2>1, <2>2, key \in Key DEF Listing
  <2>3. CASE key \in Maintained(mode)
    <3>1. jx[key] = Keeping(ix[key], Node \ With(at, key, els))
      BY ONLY <2>3, key \in Key
    <3>2. /\ jx[key] \in Seq(Node) /\ IsInjective(jx[key])
          /\ ToSet(jx[key]) = ToSet(ix[key]) \cap (Node \ With(at, key, els))
      BY ONLY <2>1, <3>1, KeepingFacts
    <3>3. ToSet(ix[key]) \subseteq Node
      BY ONLY <2>1, RangeTypes
    <3>4. ToSet(ix[key]) = With(at, key, D) /\ Listing(mode, D \ els, at, key) = With(at, key, D \ els)
      BY ONLY <2>1, <2>3 DEF Listing
    <3>5. With(at, key, D) \ With(at, key, els) = With(at, key, D \ els)
      BY DEF With
    <3>. QED
      BY ONLY <3>2, <3>3, <3>4, <3>5
  <2>. QED
    BY <2>2, <2>3
<1>4. jx = [key \in Key |-> jx[key]]
  OBVIOUS
<1>. HIDE DEF jx
<1>. QED
  BY <1>1, <1>2, <1>3, <1>4, ExactIs

\* The entries of a list that are in a part of its range.
LEMMA KeepingPart ==
  ASSUME NEW X, NEW s \in Seq(X), IsInjective(s), NEW S, S \subseteq ToSet(s)
  PROVE  Keeping(s, S) \in Seq(X) /\ ToSet(Keeping(s, S)) = S /\ IsInjective(Keeping(s, S))
<1>1. /\ Keeping(s, S) \in Seq(X) /\ ToSet(Keeping(s, S)) = ToSet(s) \cap S
      /\ IsInjective(s) => IsInjective(Keeping(s, S))
  BY KeepingFacts
<1>. QED
  BY ONLY <1>1, IsInjective(s), S \subseteq ToSet(s)

\* index_subtree_attached lists the trees that are in the document and nothing
\* else.
LEMMA ListExact ==
  ASSUME NEW k, Forest(k), NEW xs \in Seq(Node), IsInjective(xs),
         \A x, y \in ToSet(xs) : x # y => Sub(k, x) \cap Sub(k, y) = {},
         NEW inside, inside = {x \in ToSet(xs) : InDocument(k, x)},
         NEW D, D \cap Trees(k, inside) = {},
         NEW ix, NEW at, Exact(mode, ix, D, at),
         NEW jx \in Outcomes(ListSubtrees(k, at, ix, xs))
  PROVE  Exact(mode, jx, D \cup Trees(k, inside), at)
<1>. DEFINE roots == Keeping(xs, inside)
            els == Subtrees(k, roots)
            c == [key \in Key |-> IF key \notin Maintained(mode) THEN {ix[key]}
                                  ELSE Entered(k, ix[key], Keeping(els, With(at, key, ToSet(els))))]
<1>1. ListSubtrees(k, at, ix, xs) = c
  BY Zenon DEF ListSubtrees
<1>2. roots \in Seq(Node) /\ ToSet(roots) = inside /\ IsInjective(roots)
  <2>1. inside \subseteq ToSet(xs)
    OBVIOUS
  <2>2. roots = Keeping(xs, inside)
    OBVIOUS
  <2>. HIDE DEF roots
  <2>. QED
    BY ONLY <2>1, <2>2, xs \in Seq(Node), IsInjective(xs), KeepingPart
<1>. HIDE DEF roots
<1>3. els \in Seq(Node) /\ ToSet(els) = Trees(k, inside) /\ IsInjective(els)
  <2>1. \A x, y \in inside : x # y => Sub(k, x) \cap Sub(k, y) = {}
    OBVIOUS
  <2>. QED
    BY ONLY <1>2, <2>1, Forest(k), SubtreesFacts
<1>. HIDE DEF els
<1>4. jx \in Outcomes(c)
  BY ONLY <1>1, jx \in Outcomes(ListSubtrees(k, at, ix, xs))
<1>5. DOMAIN c = Key
  OBVIOUS
<1>6. jx = [key \in Key |-> jx[key]] /\ \A key \in Key : jx[key] \in c[key]
  <2>. HIDE DEF c
  <2>. QED
    BY ONLY <1>4, <1>5, OutcomesFacts
<1>7. ASSUME NEW key \in Key
      PROVE  /\ jx[key] \in Seq(Node) /\ IsInjective(jx[key])
             /\ ToSet(jx[key]) = Listing(mode, D \cup Trees(k, inside), at, key)
  <2>1. ix[key] \in Seq(Node) /\ IsInjective(ix[key]) /\ ToSet(ix[key]) = Listing(mode, D, at, key)
    BY ExactList
  <2>2. CASE key \notin Maintained(mode)
    <3>1. jx[key] \in {ix[key]}
      BY <1>6, <2>2
    <3>. QED
      BY ONLY <2>1, <2>2, <3>1 DEF Listing
  <2>3. CASE key \in Maintained(mode)
    <3>. DEFINE W == With(at, key, ToSet(els))
                new == Keeping(els, W)
    <3>1. jx[key] \in Entered(k, ix[key], new)
      BY <1>6, <2>3
    <3>2. W \subseteq ToSet(els)
      BY DEF With
    <3>3. new \in Seq(Node) /\ ToSet(new) = W /\ IsInjective(new)
      <4>1. new = Keeping(els, W)
        OBVIOUS
      <4>. HIDE DEF W, new
      <4>. QED
        BY ONLY <4>1, <1>3, <3>2, KeepingPart
    <3>. HIDE DEF new
    <3>4. Grown(Node, ix[key], W, jx[key])
      <4>1. Grown(Node, ix[key], ToSet(new), jx[key])
        BY ONLY <2>1, <3>1, <3>3, EnteredFacts
      <4>. QED
        BY ONLY <3>3, <4>1
    <3>5. ToSet(ix[key]) = With(at, key, D)
      BY ONLY <2>1, <2>3 DEF Listing
    <3>6. With(at, key, D) \cap W = {}
      BY <1>3 DEF With
    <3>7. With(at, key, D) \cup W = Listing(mode, D \cup Trees(k, inside), at, key)
      BY <1>3, <2>3 DEF With, Listing
    <3>. QED
      BY ONLY <2>1, <3>4, <3>5, <3>6, <3>7 DEF Grown
  <2>. QED
    BY <2>2, <2>3
<1>. QED
  BY ONLY <1>6, <1>7, ExactIs

-----------------------------------------------------------------------------
(***************************************************************************)
(* Document order.  A node comes before another if it is above it, or in   *)
(* the tree of an earlier sibling of a node that is the other or above it. *)
(***************************************************************************)
Over(k, a, b) == a # b /\ b \in Sub(k, a)

Left(k, m, c, d, a, b) == Ahead(k[m], c, d) /\ a \in Sub(k, c) /\ b \in Sub(k, d)

Before(k, a, b) == Over(k, a, b) \/ \E m \in Node : \E c, d : Left(k, m, c, d, a, b)

\* The list of one node.
LEMMA OneFacts ==
  ASSUME NEW n \in Node
  PROVE  <<n>> \in Seq(Node) /\ ToSet(<<n>>) = {n} /\ IsInjective(<<n>>)
BY DEF ToSet, IsInjective

\* Siblings that are in order are two, and children of their parent.
LEMMA AheadChildren ==
  ASSUME NEW k, Forest(k), NEW m \in Node, NEW c, NEW d, Ahead(k[m], c, d)
  PROVE  c \in ToSet(k[m]) /\ d \in ToSet(k[m]) /\ c # d /\ c \in Node /\ d \in Node
<1>1. PICK s \in Seq(Node) : s = k[m]
  BY DEF Forest
<1>2. IsInjective(s) /\ Ahead(s, c, d)
  BY <1>1 DEF Forest, SingleOwner
<1>3. c \in ToSet(s) /\ d \in ToSet(s) /\ ToSet(s) \subseteq Node
  BY ONLY <1>2, AheadTyped, RangeTypes
<1>4. c # d
  BY ONLY <1>2 DEF Ahead, IsInjective
<1>. QED
  BY ONLY <1>1, <1>3, <1>4

\* What Preorder lists ahead of another node comes before it.
LEMMA ListedBefore ==
  ASSUME NEW k, Forest(k), NEW r \in Node, NEW a, NEW b, Ahead(Preorder(k, r), a, b)
  PROVE  Before(k, a, b)
<1>0. k \in [Node -> Seq(Node)] /\ Grounded(k) /\ SingleOwner(k)
  BY DEF Forest
<1>. DEFINE T == {n \in Node : Ahead(Preorder(k, n), a, b) => Before(k, a, b)}
<1>1. ASSUME NEW n \in Node, ToSet(k[n]) \subseteq T PROVE n \in T
  <2>. SUFFICES ASSUME Ahead(Preorder(k, n), a, b) PROVE Before(k, a, b)
    OBVIOUS
  <2>1. PICK t \in [DOMAIN k[n] -> Seq(Node)] :
          (\A i \in DOMAIN k[n] : t[i] = Preorder(k, k[n][i])) /\ Preorder(k, n) = Rooted(n, t)
    BY <1>0, PreorderUnfolds
  <2>2. k[n] \in Seq(Node) /\ \A i \in DOMAIN k[n] : k[n][i] \in ToSet(k[n])
    BY <1>0, KidsTyped
  <2>3. PICK len \in Nat : len = Len(k[n]) /\ DOMAIN k[n] = 1 .. len
    BY <2>2
  <2>4. t \in Seq(Seq(Node)) /\ Len(t) = len
    <3>1. t \in [1 .. len -> Seq(Node)]
      BY <2>1, <2>3
    <3>2. \A Y : \A f \in [1 .. len -> Y] : f \in Seq(Y) /\ Len(f) = len
      OBVIOUS
    <3>. QED
      BY ONLY <3>1, <3>2
  <2>5. PICK flat : flat = FlattenSeq(t)
    OBVIOUS
  <2>6. flat \in Seq(Node) /\ ToSet(flat) = UNION {ToSet(t[i]) : i \in DOMAIN t}
    BY ONLY <2>4, <2>5, FlattenFacts
  <2>a. <<n>> \in Seq(Node) /\ ToSet(<<n>>) = {n}
    BY OneFacts
  <2>7. PICK one \in Seq(Node) : one = <<n>>
    BY <2>a
  <2>8. Ahead(one \o flat, a, b)
    BY <2>1, <2>5, <2>7, Zenon DEF Rooted
  <2>9. Ahead(flat, a, b) \/ (a = n /\ b \in ToSet(flat))
    <3>1. ~ Ahead(one, a, b)
      BY <2>7, NoneAhead
    <3>2. Ahead(one, a, b) \/ Ahead(flat, a, b) \/ (a \in ToSet(one) /\ b \in ToSet(flat))
      BY ONLY <2>6, <2>8, one \in Seq(Node), ConcatAhead
    <3>. QED
      BY ONLY <2>a, <2>7, <3>1, <3>2
  <2>10. DOMAIN t = 1 .. len /\ \A i \in 1 .. len : ToSet(t[i]) = Sub(k, k[n][i])
    BY ONLY <2>1, <2>3, Zenon DEF Sub
  <2>11. CASE a = n /\ b \in ToSet(flat)
    <3>1. PICK i \in 1 .. len : b \in Sub(k, k[n][i])
      BY ONLY <2>6, <2>10, <2>11
    <3>2. k[n][i] \in ToSet(k[n])
      BY <2>2, <2>3
    <3>3. n \notin Sub(k, k[n][i])
      BY <1>0, <3>2, NoCycle
    <3>4. Sub(k, n) = {n} \cup UNION {Sub(k, c) : c \in ToSet(k[n])}
      BY <1>0, SubUnfolds
    <3>5. b \in Sub(k, n)
      BY ONLY <3>1, <3>2, <3>4
    <3>. QED
      BY <2>11, <3>1, <3>3, <3>5 DEF Before, Over
  <2>12. CASE Ahead(flat, a, b)
    <3>1. Between(t, len, a, b)
      BY ONLY <2>4, <2>5, <2>12, FlattenAhead
    <3>2. CASE \E i \in 1 .. len : Ahead(t[i], a, b)
      <4>1. PICK i \in 1 .. len : Ahead(t[i], a, b)
        BY <3>2
      <4>2. k[n][i] \in T /\ t[i] = Preorder(k, k[n][i])
        BY <1>1, <2>1, <2>2, <2>3
      <4>. QED
        BY <4>1, <4>2
    <3>3. CASE \E i, j \in 1 .. len : i < j /\ a \in ToSet(t[i]) /\ b \in ToSet(t[j])
      <4>1. PICK i \in 1 .. len, j \in 1 .. len : i < j /\ a \in Sub(k, k[n][i]) /\ b \in Sub(k, k[n][j])
        BY ONLY <2>10, <3>3
      <4>2. Ahead(k[n], k[n][i], k[n][j])
        BY ONLY <2>3, <4>1 DEF Ahead
      <4>3. Left(k, n, k[n][i], k[n][j], a, b)
        BY ONLY <4>1, <4>2 DEF Left
      <4>. QED
        BY ONLY <4>3, n \in Node DEF Before
    <3>. QED
      BY ONLY <3>1, <3>2, <3>3 DEF Between
  <2>. QED
    BY ONLY <2>9, <2>11, <2>12
<1>. HIDE DEF T
<1>2. T = Node
  <2>1. T \in SUBSET Node
    BY DEF T
  <2>. QED
    BY <1>0, <1>1, <2>1, GroundInduction
<1>3. r \in T
  BY <1>2
<1>. QED
  BY <1>3 DEF T

\* Two nodes in the trees of two siblings have no lower node above both.
LEMMA NoLower ==
  ASSUME NEW k, Forest(k), NEW q \in Node, NEW e, NEW f, NEW a, NEW b, Left(k, q, e, f, a, b),
         NEW m \in Sub(k, q), a \in Sub(k, m), b \in Sub(k, m)
  PROVE  m = q
<1>0. k \in [Node -> Seq(Node)] /\ Grounded(k)
  BY DEF Forest
<1>1. e \in ToSet(k[q]) /\ f \in ToSet(k[q]) /\ e # f /\ a \in Sub(k, e) /\ b \in Sub(k, f)
  BY AheadChildren DEF Left
<1>. SUFFICES ASSUME m # q PROVE FALSE
  OBVIOUS
<1>2. PICK h \in ToSet(k[q]) : m \in Sub(k, h)
  BY <1>0, SubUnfolds
<1>3. h \in Node
  BY <1>0, KidsTyped
<1>4. a \in Sub(k, h) /\ b \in Sub(k, h)
  BY <1>0, <1>2, <1>3, SubInside
<1>5. h = e
  BY <1>1, <1>4, SiblingsApart
<1>6. h = f
  BY <1>1, <1>4, SiblingsApart
<1>. QED
  BY <1>1, <1>5, <1>6

\* No two nodes come before each other.
LEMMA BeforeOnce ==
  ASSUME NEW k, Forest(k), NEW a \in Node, NEW b \in Node, Before(k, a, b), Before(k, b, a)
  PROVE  FALSE
<1>0. k \in [Node -> Seq(Node)] /\ Grounded(k) /\ SingleOwner(k)
  BY DEF Forest
<1>1. ASSUME NEW x \in Node, NEW y \in Node, Over(k, x, y), NEW m \in Node, NEW c, NEW d, Left(k, m, c, d, y, x)
      PROVE  FALSE
  <2>1. c \in ToSet(k[m]) /\ d \in ToSet(k[m]) /\ c # d /\ d \in Node /\ y \in Sub(k, c) /\ x \in Sub(k, d)
    BY <1>1, AheadChildren DEF Left
  <2>2. y \in Sub(k, d)
    BY <1>0, <1>1, <2>1, SubInside DEF Over
  <2>. QED
    BY <1>1, <2>1, <2>2, SiblingsApart
<1>2. CASE Over(k, a, b) /\ Over(k, b, a)
  <2>1. PICK c \in ToSet(k[a]) : b \in Sub(k, c)
    BY <1>0, <1>2, SubUnfolds DEF Over
  <2>2. c \in Node /\ a \notin Sub(k, c)
    BY <1>0, NoCycle
  <2>3. a \in Sub(k, c)
    BY <1>0, <1>2, <2>1, <2>2, SubInside DEF Over
  <2>. QED
    BY <2>2, <2>3
<1>3. ASSUME NEW m \in Node, NEW c, NEW d, Left(k, m, c, d, a, b),
             NEW q \in Node, NEW e, NEW f, Left(k, q, e, f, b, a)
      PROVE  FALSE
  <2>1. /\ c \in ToSet(k[m]) /\ d \in ToSet(k[m]) /\ c # d
        /\ e \in ToSet(k[q]) /\ f \in ToSet(k[q]) /\ e # f
        /\ a \in Sub(k, c) /\ b \in Sub(k, d) /\ b \in Sub(k, e) /\ a \in Sub(k, f)
    <3>1. c \in ToSet(k[m]) /\ d \in ToSet(k[m]) /\ c # d /\ a \in Sub(k, c) /\ b \in Sub(k, d)
      BY <1>3, AheadChildren DEF Left
    <3>2. e \in ToSet(k[q]) /\ f \in ToSet(k[q]) /\ e # f /\ b \in Sub(k, e) /\ a \in Sub(k, f)
      BY <1>3, AheadChildren DEF Left
    <3>. QED
      BY ONLY <3>1, <3>2
  <2>2. a \in Sub(k, m) /\ b \in Sub(k, m) /\ a \in Sub(k, q) /\ b \in Sub(k, q)
    <3>1. /\ Sub(k, m) = {m} \cup UNION {Sub(k, x) : x \in ToSet(k[m])}
          /\ Sub(k, q) = {q} \cup UNION {Sub(k, x) : x \in ToSet(k[q])}
      BY <1>0, <1>3, SubUnfolds
    <3>. QED
      BY ONLY <2>1, <3>1
  <2>3. m \in Sub(k, q) \/ q \in Sub(k, m)
    BY <1>3, <2>2, SubApart
  <2>4. m \in Sub(k, q) => m = q
    BY ONLY Forest(k), <1>3, <2>2, NoLower
  <2>5. q \in Sub(k, m) => m = q
    BY ONLY Forest(k), <1>3, <2>2, NoLower
  <2>6. m = q
    BY ONLY <2>3, <2>4, <2>5
  <2>7. c = f /\ d = e
    BY <1>3, <2>1, <2>6, SiblingsApart
  <2>8. PICK s \in Seq(Node) : s = k[m]
    BY <1>0
  <2>9. IsInjective(s) /\ c \in ToSet(s) /\ d \in ToSet(s) /\ Ahead(s, c, d) /\ Ahead(s, d, c)
    <3>1. IsInjective(k[m])
      BY <1>0 DEF SingleOwner
    <3>. QED
      BY ONLY <1>3, <2>1, <2>6, <2>7, <2>8, <3>1 DEF Left
  <2>. QED
    BY ONLY <2>1, <2>9, AheadTotal
<1>. QED
  BY <1>1, <1>2, <1>3 DEF Before

\* In a subtree, Preorder lists ahead what comes before.
LEMMA BeforeListed ==
  ASSUME NEW k, Forest(k), NEW r \in Node, NEW a \in Sub(k, r), NEW b \in Sub(k, r), a # b
  PROVE  /\ Ahead(Preorder(k, r), a, b) <=> Before(k, a, b)
         /\ Before(k, a, b) \/ Before(k, b, a)
         /\ Position(Preorder(k, r), a) < Position(Preorder(k, r), b) <=> Before(k, a, b)
<1>1. PICK o : o = Preorder(k, r)
  OBVIOUS
<1>2. o \in Seq(Node) /\ IsInjective(o) /\ a \in ToSet(o) /\ b \in ToSet(o) /\ a \in Node /\ b \in Node
  <2>1. o \in Seq(Node) /\ Sub(k, r) \subseteq Node
    BY <1>1, SubUnfolds DEF Forest
  <2>2. IsInjective(o)
    BY <1>1, PreorderInjective
  <2>. QED
    BY <1>1, <2>1, <2>2 DEF Sub
<1>3. /\ Ahead(o, a, b) \/ Ahead(o, b, a)
      /\ ~ (Ahead(o, a, b) /\ Ahead(o, b, a))
  BY ONLY <1>2, a # b, AheadTotal
<1>4. (Ahead(o, a, b) => Before(k, a, b)) /\ (Ahead(o, b, a) => Before(k, b, a))
  BY <1>1, ListedBefore
<1>5. ~ (Before(k, a, b) /\ Before(k, b, a))
  BY <1>2, BeforeOnce
<1>6. Position(o, a) < Position(o, b) <=> Ahead(o, a, b)
  <2>1. /\ Position(o, a) \in 1 .. Len(o) /\ o[Position(o, a)] = a
        /\ Position(o, b) \in 1 .. Len(o) /\ o[Position(o, b)] = b
    BY ONLY <1>2, PositionFacts
  <2>2. PICK i, j : i = Position(o, a) /\ j = Position(o, b)
    OBVIOUS
  <2>3. ASSUME Ahead(o, a, b) PROVE i < j
    <3>1. PICK x \in 1 .. Len(o), y \in 1 .. Len(o) : x < y /\ o[x] = a /\ o[y] = b
      BY ONLY <2>3 DEF Ahead
    <3>2. DOMAIN o = 1 .. Len(o)
      BY <1>2
    <3>3. x = i /\ y = j
      BY ONLY <1>2, <2>1, <2>2, <3>1, <3>2 DEF IsInjective
    <3>. QED
      BY ONLY <3>1, <3>3
  <2>4. ASSUME i < j PROVE Ahead(o, a, b)
    BY ONLY <2>1, <2>2, <2>4 DEF Ahead
  <2>. QED
    BY ONLY <2>2, <2>3, <2>4
<1>. QED
  BY ONLY <1>1, <1>3, <1>4, <1>5, <1>6

\* Precedes is an order of the nodes of the document.
LEMMA PrecedesOrders ==
  ASSUME NEW k, Forest(k), NEW a \in Sub(k, Root), NEW b \in Sub(k, Root), NEW c \in Sub(k, Root)
  PROVE  /\ a # b => (Precedes(k, a, b) <=> Before(k, a, b)) /\ (Precedes(k, a, b) \/ Precedes(k, b, a))
         /\ ~ Precedes(k, a, a)
         /\ Precedes(k, a, b) /\ Precedes(k, b, c) => Precedes(k, a, c)
<1>1. PICK o : o = Preorder(k, Root)
  OBVIOUS
<1>2. \A x, y : Precedes(k, x, y) <=> Position(o, x) < Position(o, y)
  BY <1>1, Zenon DEF Precedes
<1>3. Root \in Node
  BY QueryIndexAssumption
<1>4. a # b => (Before(k, a, b) \/ Before(k, b, a)) /\ (Precedes(k, a, b) <=> Before(k, a, b))
               /\ (Precedes(k, b, a) <=> Before(k, b, a))
  BY <1>1, <1>2, <1>3, BeforeListed
<1>5. Position(o, a) \in Nat /\ Position(o, b) \in Nat /\ Position(o, c) \in Nat
  <2>1. o \in Seq(Node) /\ a \in ToSet(o) /\ b \in ToSet(o) /\ c \in ToSet(o)
    BY <1>1, <1>3, SubUnfolds DEF Forest, Sub
  <2>2. Len(o) \in Nat
    BY <2>1
  <2>3. /\ Position(o, a) \in 1 .. Len(o) /\ Position(o, b) \in 1 .. Len(o) /\ Position(o, c) \in 1 .. Len(o)
    BY ONLY <2>1, PositionFacts
  <2>. QED
    BY ONLY <2>2, <2>3
<1>6. PICK u \in Nat, v \in Nat, w \in Nat : u = Position(o, a) /\ v = Position(o, b) /\ w = Position(o, c)
  BY <1>5
<1>7. ~ (u < u) /\ (u < v /\ v < w => u < w)
  OBVIOUS
<1>8. ~ Precedes(k, a, a) /\ (Precedes(k, a, b) /\ Precedes(k, b, c) => Precedes(k, a, c))
  BY ONLY <1>2, <1>6, <1>7
<1>. QED
  BY ONLY <1>4, <1>8

\* What a move leaves of a subtree stays in it.
LEMMA MovedStays ==
  ASSUME NEW k, NEW k2, NEW p, NEW Q, NEW X, Moved(k, k2, p, Q, X), NEW a \in Node
  PROVE  Sub(k, a) \ Trees(k, Q) \subseteq Sub(k2, a)
<1>0. k \in [Node -> Seq(Node)] /\ Grounded(k) /\ k2 \in [Node -> Seq(Node)] /\ Grounded(k2)
  BY MovedFacts, MovedForest DEF Forest
<1>. DEFINE T == {n \in Node : Sub(k, n) \ Trees(k, Q) \subseteq Sub(k2, n)}
<1>1. ASSUME NEW n \in Node, ToSet(k[n]) \subseteq T PROVE n \in T
  <2>. SUFFICES ASSUME NEW x \in Sub(k, n), x \notin Trees(k, Q) PROVE x \in Sub(k2, n)
    OBVIOUS
  <2>1. /\ Sub(k, n) = {n} \cup UNION {Sub(k, c) : c \in ToSet(k[n])}
        /\ Sub(k2, n) = {n} \cup UNION {Sub(k2, c) : c \in ToSet(k2[n])}
    BY <1>0, SubUnfolds
  <2>2. CASE x # n
    <3>1. PICK c \in ToSet(k[n]) : x \in Sub(k, c)
      BY <2>1, <2>2
    <3>2. c \notin Q
      BY <3>1 DEF Trees
    <3>3. c \in ToSet(k2[n])
      BY <3>2 DEF Moved
    <3>4. x \in Sub(k2, c)
      BY <1>1, <3>1
    <3>. QED
      BY ONLY <2>1, <3>3, <3>4
  <2>. QED
    BY <2>1, <2>2
<1>. HIDE DEF T
<1>2. T = Node
  <2>1. T \in SUBSET Node
    BY DEF T
  <2>. QED
    BY <1>0, <1>1, <2>1, GroundInduction
<1>3. a \in T
  BY <1>2
<1>. QED
  BY <1>3 DEF T

\* The children that stay where they are stay in order.
OrderKept(k, k2, Q) ==
  \A m \in Node : \A c, d : c \notin Q /\ d \notin Q /\ Ahead(k[m], c, d) => Ahead(k2[m], c, d)

\* So do the nodes that no tree takes away.
LEMMA MovedBefore ==
  ASSUME NEW k, NEW k2, NEW p, NEW Q, NEW X, Moved(k, k2, p, Q, X), OrderKept(k, k2, Q),
         NEW a \in Node, NEW b \in Node, a \notin Trees(k, Q), b \notin Trees(k, Q), Before(k, a, b)
  PROVE  Before(k2, a, b)
<1>0. Forest(k)
  BY MovedFacts
<1>1. \A n \in Node : Sub(k, n) \ Trees(k, Q) \subseteq Sub(k2, n)
  BY MovedStays
<1>2. CASE Over(k, a, b)
  <2>1. a # b /\ b \in Sub(k2, a)
    BY <1>1, <1>2 DEF Over
  <2>. QED
    BY ONLY <2>1 DEF Before, Over
<1>3. ASSUME NEW m \in Node, NEW c, NEW d, Left(k, m, c, d, a, b) PROVE Before(k2, a, b)
  <2>1. Ahead(k[m], c, d) /\ a \in Sub(k, c) /\ b \in Sub(k, d)
    BY <1>3 DEF Left
  <2>2. c \in Node /\ d \in Node
    BY <1>0, <2>1, AheadChildren
  <2>3. c \notin Q /\ d \notin Q
    BY <2>1 DEF Trees
  <2>4. Ahead(k2[m], c, d)
    BY <2>1, <2>3 DEF OrderKept
  <2>5. a \in Sub(k2, c) /\ b \in Sub(k2, d)
    BY <1>1, <2>1, <2>2
  <2>6. Left(k2, m, c, d, a, b)
    BY ONLY <2>4, <2>5 DEF Left
  <2>. QED
    BY ONLY <2>6, m \in Node DEF Before
<1>. QED
  BY <1>2, <1>3 DEF Before

\* What is not below the last element of the document precedes it.
LEMMA LastComes ==
  ASSUME NEW k, Forest(k), NEW el \in Sub(k, Root), NEW x \in Sub(k, Root), x \notin Sub(k, el), IsLast(k, el)
  PROVE  Precedes(k, x, el)
<1>0. k \in [Node -> Seq(Node)] /\ Grounded(k) /\ SingleOwner(k) /\ Root \in Node
  BY QueryIndexAssumption DEF Forest
<1>1. el \in Node /\ x # el
  BY <1>0, SubUnfolds
<1>2. ASSUME NEW m \in Node, NEW c, NEW d, Left(k, m, c, d, el, x) PROVE FALSE
  <2>1. c \in ToSet(k[m]) /\ c \in Node /\ el \in Sub(k, c) /\ Ahead(k[m], c, d)
    BY <1>2, AheadChildren DEF Left
  <2>2. Inside(k, c, el) /\ ChildOf(k, c, m)
    BY <1>0, <2>1, InsideIs DEF ChildOf
  <2>3. Last(k[m]) = c
    BY <2>1, <2>2 DEF IsLast
  <2>4. PICK s \in Seq(Node) : s = k[m]
    BY <1>0
  <2>5. PICK n \in Nat : n = Len(s) /\ DOMAIN s = 1 .. n
    BY <2>4
  <2>6. IsInjective(s) /\ s[n] = c
    BY <1>0, <2>3, <2>4, <2>5 DEF SingleOwner, Last
  <2>7. PICK i \in 1 .. n, j \in 1 .. n : i < j /\ s[i] = c
    BY ONLY <2>1, <2>4, <2>5 DEF Ahead
  <2>8. n \in 1 .. n
    BY <2>7
  <2>9. i = n
    BY ONLY <2>5, <2>6, <2>7, <2>8 DEF IsInjective
  <2>. QED
    BY ONLY <2>7, <2>9, n \in Nat
<1>3. ~ Before(k, el, x)
  BY <1>2 DEF Before, Over
<1>. QED
  BY <1>1, <1>3, PrecedesOrders

-----------------------------------------------------------------------------
(***************************************************************************)
(* Lists in document order, and what enters them.                          *)
(***************************************************************************)
InLine(k, s) == \A x, y : Ahead(s, x, y) => Precedes(k, x, y)

\* s can take el: it is in order, and el is in the document and nothing of its
\* tree is in s.
Takes(k, s, el) ==
  /\ s \in Seq(Node) /\ InLine(k, s)
  /\ el \in Sub(k, Root) /\ ToSet(s) \subseteq Sub(k, Root) /\ ToSet(s) \cap Sub(k, el) = {}

\* index_insert_into_key at the end keeps a list in order.
LEMMA LastInLine ==
  ASSUME NEW k, Forest(k), NEW s, NEW el, Takes(k, s, el), IsLast(k, el)
  PROVE  InLine(k, Append(s, el))
<1>1. s \in Seq(Node) /\ InLine(k, s) /\ el \in Node
  <2>1. Sub(k, Root) \subseteq Node
    BY SubUnfolds, QueryIndexAssumption DEF Forest
  <2>. QED
    BY <2>1 DEF Takes
<1>2. <<el>> \in Seq(Node) /\ ToSet(<<el>>) = {el}
  BY <1>1, OneFacts
<1>3. PICK one \in Seq(Node) : one = <<el>>
  BY <1>2
<1>4. Append(s, el) = s \o one
  BY <1>1, <1>3
<1>5. \A x, y : ~ Ahead(one, x, y)
  BY <1>3, NoneAhead
<1>6. \A x, y : Ahead(s \o one, x, y) => Ahead(s, x, y) \/ (x \in ToSet(s) /\ y = el)
  BY ONLY <1>1, <1>2, <1>3, <1>5, ConcatAhead
<1>7. \A x \in ToSet(s) : Precedes(k, x, el)
  BY LastComes DEF Takes
<1>. QED
  BY ONLY <1>1, <1>4, <1>6, <1>7 DEF InLine

\* So does it where the search finds a boundary.
LEMMA BoundaryInLine ==
  ASSUME NEW k, Forest(k), NEW s, NEW el, Takes(k, s, el), NEW i \in 1 .. Len(s) + 1,
         i = 1 \/ Precedes(k, s[i - 1], el), i = Len(s) + 1 \/ ~ Precedes(k, s[i], el)
  PROVE  InLine(k, InsertAt(s, i, el))
<1>0. k \in [Node -> Seq(Node)] /\ Grounded(k) /\ Root \in Node
  BY QueryIndexAssumption DEF Forest
<1>1. /\ s \in Seq(Node) /\ InLine(k, s) /\ el \in Sub(k, Root) /\ el \in Node
      /\ ToSet(s) \subseteq Sub(k, Root) /\ ToSet(s) \cap Sub(k, el) = {} /\ el \in Sub(k, el)
  <2>1. Sub(k, Root) \subseteq Node
    BY <1>0, SubUnfolds
  <2>2. el \in Node
    BY <2>1 DEF Takes
  <2>3. el \in Sub(k, el)
    BY <1>0, <2>2, SubUnfolds
  <2>. QED
    BY <2>2, <2>3 DEF Takes
<1>2. PICK n \in Nat : n = Len(s) /\ DOMAIN s = 1 .. n
  BY <1>1
<1>3. i \in 1 .. n + 1
  BY <1>2
<1>4. \A m \in 1 .. n : s[m] \in ToSet(s) /\ s[m] \in Sub(k, Root) /\ s[m] # el
  <2>1. \A m \in 1 .. n : s[m] \in ToSet(s)
    BY ONLY <1>2, Zenon DEF ToSet
  <2>. QED
    BY ONLY <1>1, <2>1
<1>5. \A a, b, c \in Sub(k, Root) : Precedes(k, a, b) /\ Precedes(k, b, c) => Precedes(k, a, c)
  BY PrecedesOrders
<1>6. \A a, b \in 1 .. n : a < b => Precedes(k, s[a], s[b])
  BY ONLY <1>1, <1>2 DEF InLine, Ahead
<1>7. \A m \in 1 .. i - 1 : m \in 1 .. n /\ Precedes(k, s[m], el)
  <2>. TAKE m \in 1 .. i - 1
  <2>1. m \in 1 .. n /\ i - 1 \in 1 .. n /\ i # 1 /\ (m < i - 1 \/ m = i - 1)
    BY ONLY <1>3, n \in Nat, m \in 1 .. i - 1
  <2>2. Precedes(k, s[i - 1], el)
    BY <2>1
  <2>3. PICK j \in 1 .. n : j = i - 1
    BY <2>1
  <2>. QED
    BY ONLY <1>1, <1>4, <1>5, <1>6, <2>1, <2>2, <2>3
<1>8. \A m \in i .. n : m \in 1 .. n /\ Precedes(k, el, s[m])
  <2>. TAKE m \in i .. n
  <2>1. m \in 1 .. n /\ i \in 1 .. n /\ i # n + 1 /\ (i < m \/ m = i)
    BY ONLY <1>3, n \in Nat, m \in i .. n
  <2>2. ~ Precedes(k, s[i], el)
    BY <1>2, <2>1
  <2>3. Precedes(k, el, s[i])
    BY <1>1, <1>4, <2>1, <2>2, PrecedesOrders
  <2>. QED
    BY ONLY <1>1, <1>4, <1>5, <1>6, <2>1, <2>3
<1>9. PICK l, r : l = SubSeq(s, 1, i - 1) /\ r = SubSeq(s, i, Len(s))
  OBVIOUS
<1>10. CutAt(s, i, l, r)
  BY <1>9, Zenon DEF CutAt
<1>11. l \in Seq(Node) /\ r \in Seq(Node)
  BY ONLY <1>1, <1>10, CutFacts
<1>12. ToSet(l) = {s[m] : m \in 1 .. i - 1} /\ ToSet(r) = {s[m] : m \in i .. n} /\ s = l \o r
  BY ONLY <1>1, <1>10, <1>2, CutParts
<1>a. <<el>> \in Seq(Node) /\ ToSet(<<el>>) = {el}
  BY <1>1, OneFacts
<1>13. PICK one \in Seq(Node) : one = <<el>>
  BY <1>a
<1>14. \A x, y : ~ Ahead(one, x, y)
  BY <1>13, NoneAhead
<1>15. PICK h : h = l \o one
  OBVIOUS
<1>16. h \in Seq(Node) /\ ToSet(h) = ToSet(l) \cup {el}
  <2>1. ToSet(one) = {el}
    BY ONLY <1>a, <1>13
  <2>2. l \o one \in Seq(Node) /\ ToSet(l \o one) = ToSet(l) \cup ToSet(one)
    BY ONLY <1>11, one \in Seq(Node), ConcatFacts
  <2>. QED
    BY ONLY <1>15, <2>1, <2>2
<1>17. InsertAt(s, i, el) = h \o r
  BY <1>9, <1>13, <1>15, Zenon DEF InsertAt
<1>18. ASSUME NEW x, NEW y, Ahead(h \o r, x, y) PROVE Precedes(k, x, y)
  <2>1. Ahead(h, x, y) \/ Ahead(r, x, y) \/ (x \in ToSet(h) /\ y \in ToSet(r))
    BY ONLY <1>11, <1>16, <1>18, ConcatAhead
  <2>2. Ahead(h, x, y) => Ahead(l, x, y) \/ (x \in ToSet(l) /\ y = el)
    BY ONLY <1>11, <1>a, <1>13, <1>14, <1>15, ConcatAhead
  <2>3. Ahead(l, x, y) \/ Ahead(r, x, y) \/ (x \in ToSet(l) /\ y \in ToSet(r)) => Ahead(s, x, y)
    BY ONLY <1>11, <1>12, ConcatAhead
  <2>4. Ahead(s, x, y) => Precedes(k, x, y)
    BY <1>1 DEF InLine
  <2>5. x \in ToSet(l) => Precedes(k, x, el)
    BY ONLY <1>7, <1>12
  <2>6. y \in ToSet(r) => Precedes(k, el, y)
    BY ONLY <1>8, <1>12
  <2>. QED
    BY ONLY <1>16, <2>1, <2>2, <2>3, <2>4, <2>5, <2>6
<1>. QED
  BY ONLY <1>17, <1>18 DEF InLine

\* Wherever an element enters, the list stays in order.
LEMMA ListedInLine ==
  ASSUME NEW k, Forest(k), NEW s, NEW el, Takes(k, s, el), NEW r \in Listed(k, s, el)
  PROVE  InLine(k, r)
<1>1. CASE IsLast(k, el)
  <2>1. r = Append(s, el)
    BY <1>1 DEF Listed
  <2>. QED
    BY <1>1, <2>1, LastInLine
<1>2. CASE ~ IsLast(k, el)
  <2>1. PICK i \in 1 .. Len(s) + 1 : /\ r = InsertAt(s, i, el)
                                     /\ i = 1 \/ Precedes(k, s[i - 1], el)
                                     /\ i = Len(s) + 1 \/ ~ Precedes(k, s[i], el)
    BY <1>2, Zenon DEF Listed
  <2>. QED
    BY <2>1, BoundaryInLine
<1>. QED
  BY <1>1, <1>2

\* No entry is below a later one.
Topped(k, s) == \A x, y : Ahead(s, x, y) => x \notin Sub(k, y)

\* s can take the elements of els one after another.
TakesAll(k, s, els) ==
  /\ s \in Seq(Node) /\ InLine(k, s) /\ els \in Seq(Node) /\ IsInjective(els) /\ Topped(k, els)
  /\ ToSet(s) \subseteq Sub(k, Root) /\ ToSet(els) \subseteq Sub(k, Root)
  /\ \A el \in ToSet(els) : ToSet(s) \cap Sub(k, el) = {}

\* However they enter, the list stays in order.
LEMMA EnteredInLine ==
  ASSUME NEW k, Forest(k), NEW s, NEW els, TakesAll(k, s, els), NEW r \in Entered(k, s, els)
  PROVE  InLine(k, r)
<1>. DEFINE f == CHOOSE f : IsEntered(k, s, els, Len(els), f)
<1>0. /\ s \in Seq(Node) /\ els \in Seq(Node) /\ ToSet(els) \subseteq Sub(k, Root) /\ ToSet(s) \subseteq Sub(k, Root)
      /\ InLine(k, s) /\ Topped(k, els) /\ \A el \in ToSet(els) : ToSet(s) \cap Sub(k, el) = {}
  BY DEF TakesAll
<1>a. PICK len \in Nat : len = Len(els)
  BY <1>0
<1>1. IsEntered(k, s, els, len, f)
  BY <1>a, EnteredExists, Zenon
<1>2. r \in f[len]
  BY <1>a, Zenon DEF Entered, IsEntered
<1>. HIDE DEF f
<1>3. \A n \in 0 .. len : f[n] = IF n = 0 THEN {s} ELSE UNION {Listed(k, q, els[n]) : q \in f[n - 1]}
  BY <1>1, Zenon DEF IsEntered
<1>4. DOMAIN els = 1 .. len /\ \A i \in 1 .. len : els[i] \in Node /\ els[i] \in ToSet(els)
  BY <1>0, <1>a, RangeTypes
<1>. DEFINE Fine(n, q) == q \in Seq(Node) /\ ToSet(q) = ToSet(s) \cup Firsts(els, n) /\ InLine(k, q)
            T == {n \in Nat : n <= len => \A q \in f[n] : Fine(n, q)}
<1>5. 0 \in T
  <2>1. 0 \in 0 .. len
    OBVIOUS
  <2>2. f[0] = {s}
    BY ONLY <1>3, <2>1, Zenon
  <2>3. Firsts(els, 0) = {}
    BY DEF Firsts
  <2>. QED
    BY <1>0, <2>2, <2>3
<1>6. ASSUME NEW n \in T PROVE n + 1 \in T
  <2>. SUFFICES ASSUME n + 1 <= len, NEW q \in f[n + 1] PROVE Fine(n + 1, q)
    OBVIOUS
  <2>1. n \in Nat /\ n <= len /\ n + 1 \in 1 .. len /\ n + 1 \in 0 .. len /\ n + 1 # 0 /\ (n + 1) - 1 = n
    OBVIOUS
  <2>2. f[n + 1] = UNION {Listed(k, p, els[n + 1]) : p \in f[n]}
    BY <1>3, <2>1
  <2>3. PICK p \in f[n] : q \in Listed(k, p, els[n + 1])
    BY <2>2
  <2>4. p \in Seq(Node) /\ ToSet(p) = ToSet(s) \cup Firsts(els, n) /\ InLine(k, p)
    BY <2>1, <2>3
  <2>5. PICK el \in ToSet(els) : el = els[n + 1]
    BY <1>4, <2>1
  <2>6. el \in Node /\ el \in Sub(k, Root)
    BY <1>0, <1>4, <2>1, <2>5
  <2>7. Firsts(els, n + 1) = Firsts(els, n) \cup {el} /\ Firsts(els, n) \subseteq ToSet(els)
    <3>1. \A i \in 1 .. n + 1 : i \in 1 .. n \/ i = n + 1
      BY <2>1
    <3>2. \A i \in 1 .. n : i \in 1 .. n + 1 /\ i \in 1 .. len
      BY <2>1
    <3>3. n + 1 \in 1 .. n + 1
      BY <2>1
    <3>. QED
      BY ONLY <1>4, <2>5, <3>1, <3>2, <3>3 DEF Firsts
  <2>8. Firsts(els, n) \cap Sub(k, el) = {}
    <3>1. \A i \in 1 .. n : i \in 1 .. len /\ i < n + 1
      BY <2>1
    <3>2. \A i \in 1 .. n : Ahead(els, els[i], el)
      BY ONLY <1>a, <2>1, <2>5, <3>1 DEF Ahead
    <3>. QED
      BY ONLY <1>0, <3>2 DEF Topped, Firsts
  <2>9. Takes(k, p, el)
    BY ONLY <1>0, <2>4, <2>5, <2>6, <2>7, <2>8 DEF Takes
  <2>10. q \in Listed(k, p, el)
    BY <2>3, <2>5
  <2>11. InLine(k, q)
    BY ONLY Forest(k), <2>9, <2>10, ListedInLine
  <2>12. Grown(Node, p, {el}, q)
    BY ONLY <2>4, <2>6, <2>10, ListedFacts
  <2>. QED
    BY ONLY <2>4, <2>7, <2>11, <2>12 DEF Grown
<1>7. T = Nat
  <2>. HIDE DEF T
  <2>1. T \in SUBSET Nat
    BY DEF T
  <2>. QED
    BY <1>5, <1>6, <2>1, SetInduction
<1>8. len \in T
  BY <1>7
<1>. QED
  BY <1>2, <1>8

\* The elements of subtrees, as they are listed, are topped.
LEMMA SubtreesTopped ==
  ASSUME NEW k, Forest(k), NEW roots \in Seq(Node), IsInjective(roots),
         \A x, y \in ToSet(roots) : x # y => Sub(k, x) \cap Sub(k, y) = {}
  PROVE  Topped(k, Subtrees(k, roots))
<1>. DEFINE ss == [j \in DOMAIN roots |-> Preorder(k, roots[j])]
<1>0. k \in [Node -> Seq(Node)] /\ Grounded(k)
  BY DEF Forest
<1>a. PICK n \in Nat : n = Len(roots) /\ DOMAIN roots = 1 .. n
  OBVIOUS
<1>1. \A j \in 1 .. n : roots[j] \in Node /\ roots[j] \in ToSet(roots)
  BY <1>a, RangeTypes
<1>2. \A j \in 1 .. n : Preorder(k, roots[j]) \in Seq(Node) /\ Sub(k, roots[j]) \subseteq Node
  BY ONLY <1>0, <1>1, SubUnfolds
<1>3. ss \in Seq(Seq(Node)) /\ Len(ss) = n /\ \A j \in 1 .. n : ss[j] = Preorder(k, roots[j])
  <2>1. ss \in [1 .. n -> Seq(Node)]
    BY <1>a, <1>2
  <2>2. \A Y : \A f \in [1 .. n -> Y] : f \in Seq(Y) /\ Len(f) = n
    OBVIOUS
  <2>. QED
    BY ONLY <1>a, <2>1, <2>2
<1>4. Subtrees(k, roots) = FlattenSeq(ss)
  BY Zenon DEF Subtrees
<1>. HIDE DEF ss
<1>. SUFFICES ASSUME NEW x, NEW y, Ahead(FlattenSeq(ss), x, y), x \in Sub(k, y) PROVE FALSE
  BY <1>4 DEF Topped
<1>5. Between(ss, n, x, y)
  BY ONLY <1>3, Ahead(FlattenSeq(ss), x, y), FlattenAhead
<1>6. ASSUME NEW i \in 1 .. n, Ahead(ss[i], x, y) PROVE FALSE
  <2>1. PICK o \in Seq(Node) : o = Preorder(k, roots[i])
    BY <1>2
  <2>2. IsInjective(o) /\ Ahead(o, x, y)
    BY <1>1, <1>3, <1>6, <2>1, PreorderInjective
  <2>3. x \in ToSet(o) /\ y \in ToSet(o) /\ ToSet(o) \subseteq Node
    BY ONLY <2>1, <2>2, AheadTyped, RangeTypes
  <2>4. x # y
    BY ONLY <2>1, <2>2 DEF Ahead, IsInjective
  <2>5. Before(k, x, y)
    BY <1>1, <2>1, <2>2, ListedBefore
  <2>6. Before(k, y, x)
    BY <2>4 DEF Before, Over
  <2>. QED
    BY <2>3, <2>5, <2>6, BeforeOnce
<1>7. ASSUME NEW i \in 1 .. n, NEW j \in 1 .. n, i < j, x \in ToSet(ss[i]), y \in ToSet(ss[j]) PROVE FALSE
  <2>1. x \in Sub(k, roots[i]) /\ y \in Sub(k, roots[j])
    BY <1>3, <1>7 DEF Sub
  <2>2. x \in Sub(k, roots[j])
    BY <1>0, <1>1, <2>1, SubInside
  <2>3. roots[i] # roots[j]
    BY ONLY <1>a, <1>7, IsInjective(roots), i \in 1 .. n, j \in 1 .. n DEF IsInjective
  <2>. QED
    BY <1>1, <2>1, <2>2, <2>3
<1>. QED
  BY ONLY <1>5, <1>6, <1>7 DEF Between

\* A list that is in order in k is in order in k2, if what it holds moves with
\* its order kept.
LEMMA StillInLine ==
  ASSUME NEW k, NEW k2, NEW p, NEW Q, NEW X, Moved(k, k2, p, Q, X), OrderKept(k, k2, Q),
         NEW s \in Seq(Node), IsInjective(s), ToSet(s) \subseteq Sub(k, Root) \ Trees(k, Q), InLine(k, s)
  PROVE  InLine(k2, s)
<1>. SUFFICES ASSUME NEW x, NEW y, Ahead(s, x, y) PROVE Precedes(k2, x, y)
  BY DEF InLine
<1>0. Forest(k) /\ Forest(k2) /\ Sub(k, Root) \subseteq Node
  BY MovedFacts, MovedForest, SubUnfolds DEF Forest
<1>1. x \in ToSet(s) /\ y \in ToSet(s) /\ x # y
  <2>1. x \in ToSet(s) /\ y \in ToSet(s)
    BY ONLY s \in Seq(Node), Ahead(s, x, y), AheadTyped
  <2>2. x # y
    BY DEF Ahead, IsInjective
  <2>. QED
    BY <2>1, <2>2
<1>2. Sub(k, Root) \ Trees(k, Q) \subseteq Sub(k2, Root)
  BY MovedFacts, MovedStays
<1>3. /\ x \in Sub(k, Root) /\ y \in Sub(k, Root) /\ x \notin Trees(k, Q) /\ y \notin Trees(k, Q)
      /\ x \in Sub(k2, Root) /\ y \in Sub(k2, Root) /\ x \in Node /\ y \in Node
  BY <1>0, <1>1, <1>2
<1>4. Precedes(k, x, y)
  BY DEF InLine
<1>5. Before(k, x, y)
  BY <1>0, <1>1, <1>3, <1>4, PrecedesOrders
<1>6. Before(k2, x, y)
  BY <1>3, <1>5, MovedBefore
<1>. QED
  BY <1>0, <1>1, <1>3, <1>6, PrecedesOrders

Lines(k, ix) == \A key \in Key : InLine(k, ix[key])

\* index_subtree_attached keeps the lists in order: the roots in the document
\* share nothing with each other, nor with what the lists hold.
LEMMA ListLines ==
  ASSUME NEW k, Forest(k), NEW xs \in Seq(Node), IsInjective(xs),
         \A x, y \in ToSet(xs) : x # y => Sub(k, x) \cap Sub(k, y) = {},
         NEW inside, inside = {x \in ToSet(xs) : InDocument(k, x)},
         NEW D, D \cap Trees(k, inside) = {}, D \subseteq Sub(k, Root),
         NEW ix, NEW at, Exact(mode, ix, D, at), Lines(k, ix),
         NEW jx \in Outcomes(ListSubtrees(k, at, ix, xs))
  PROVE  Lines(k, jx)
<1>. DEFINE roots == Keeping(xs, inside)
            els == Subtrees(k, roots)
            c == [key \in Key |-> IF key \notin Maintained(mode) THEN {ix[key]}
                                  ELSE Entered(k, ix[key], Keeping(els, With(at, key, ToSet(els))))]
<1>0. k \in [Node -> Seq(Node)] /\ Grounded(k) /\ Root \in Node /\ ToSet(xs) \subseteq Node
  BY QueryIndexAssumption, RangeTypes DEF Forest
<1>1. ListSubtrees(k, at, ix, xs) = c
  BY Zenon DEF ListSubtrees
<1>2. roots \in Seq(Node) /\ ToSet(roots) = inside /\ IsInjective(roots)
  <2>1. inside \subseteq ToSet(xs)
    OBVIOUS
  <2>2. roots = Keeping(xs, inside)
    OBVIOUS
  <2>. HIDE DEF roots
  <2>. QED
    BY ONLY <2>1, <2>2, xs \in Seq(Node), IsInjective(xs), KeepingPart
<1>. HIDE DEF roots
<1>3. els \in Seq(Node) /\ ToSet(els) = Trees(k, inside) /\ IsInjective(els) /\ Topped(k, els)
  <2>1. \A x, y \in inside : x # y => Sub(k, x) \cap Sub(k, y) = {}
    OBVIOUS
  <2>2. Topped(k, els)
    BY ONLY <1>2, <2>1, Forest(k), SubtreesTopped
  <2>3. els \in Seq(Node) /\ ToSet(els) = Trees(k, inside) /\ IsInjective(els)
    BY ONLY <1>2, <2>1, Forest(k), SubtreesFacts
  <2>. QED
    BY ONLY <2>2, <2>3
<1>. HIDE DEF els
<1>4. jx \in Outcomes(c)
  BY ONLY <1>1, jx \in Outcomes(ListSubtrees(k, at, ix, xs))
<1>5. DOMAIN c = Key
  OBVIOUS
<1>6. \A key \in Key : jx[key] \in c[key]
  <2>. HIDE DEF c
  <2>. QED
    BY ONLY <1>4, <1>5, OutcomesFacts
<1>7. \A x \in inside : x \in Node /\ Sub(k, x) \subseteq Sub(k, Root)
  BY <1>0, InsideIs, SubInside DEF InDocument
<1>8. ASSUME NEW el \in Trees(k, inside) PROVE el \in Sub(k, Root) /\ D \cap Sub(k, el) = {}
  <2>1. PICK x \in inside : el \in Sub(k, x)
    BY DEF Trees
  <2>2. Sub(k, el) \subseteq Sub(k, x)
    BY <1>0, <1>7, <2>1, SubInside
  <2>. QED
    BY <1>7, <2>1, <2>2 DEF Trees
<1>9. ASSUME NEW key \in Key PROVE InLine(k, jx[key])
  <2>1. ix[key] \in Seq(Node) /\ IsInjective(ix[key]) /\ ToSet(ix[key]) = Listing(mode, D, at, key) /\ InLine(k, ix[key])
    BY ExactList DEF Lines
  <2>2. CASE key \notin Maintained(mode)
    <3>1. jx[key] \in {ix[key]}
      BY <1>6, <2>2
    <3>. QED
      BY ONLY <2>1, <3>1
  <2>3. CASE key \in Maintained(mode)
    <3>. DEFINE W == With(at, key, ToSet(els))
                new == Keeping(els, W)
    <3>1. jx[key] \in Entered(k, ix[key], new)
      BY <1>6, <2>3
    <3>a. PICK v : v = W /\ new = Keeping(els, v)
      OBVIOUS
    <3>. HIDE DEF W, new
    <3>2. new \in Seq(Node) /\ ToSet(new) = ToSet(els) \cap v /\ IsInjective(new)
      BY ONLY <1>3, <3>a, KeepingFacts
    <3>3. Topped(k, new)
      BY ONLY <1>3, <3>a, KeepingAhead DEF Topped
    <3>4. ToSet(ix[key]) \subseteq D
      BY ONLY <2>1 DEF Listing, With
    <3>5. TakesAll(k, ix[key], new)
      BY ONLY <1>3, <1>8, <2>1, <3>2, <3>3, <3>4, D \subseteq Sub(k, Root) DEF TakesAll
    <3>. QED
      BY ONLY Forest(k), <3>1, <3>5, EnteredInLine
  <2>. QED
    BY <2>2, <2>3
<1>. QED
  BY <1>9 DEF Lines

-----------------------------------------------------------------------------
(***************************************************************************)
(* The inductive invariant: the trees are a forest of allocated elements,  *)
(* and what the document holds is what the lists hold.                     *)
(***************************************************************************)
Present(k) == Sub(k, Root) \ {Root}

Sound(k, lv) ==
  /\ lv \subseteq Node /\ Root \in lv
  /\ Forest(k) /\ k \in [Node -> Seq(lv \cap Element)]
  /\ \A n \in Node \ lv : k[n] = <<>>

Inv ==
  /\ Sound(kids, live)
  /\ attrs \in [Element -> Attributes] /\ defined \in BOOLEAN /\ mode \in {"Off", "IdOnly", "Full"}
  /\ Exact(mode, index, Present(kids), attrs)

\* A list is over any set that holds its range.
LEMMA RangeSub ==
  ASSUME NEW X, NEW s \in Seq(X), NEW Y, ToSet(s) \subseteq Y
  PROVE  s \in Seq(Y)
<1>1. s \in Seq(ToSet(s))
  BY RangeTyped
<1>. QED
  BY <1>1

\* What a sound tree gives.
LEMMA SoundFacts ==
  ASSUME NEW k, NEW lv, Sound(k, lv)
  PROVE  /\ k \in [Node -> Seq(Node)] /\ Grounded(k) /\ SingleOwner(k) /\ Forest(k) /\ RootOnTop(k)
         /\ Root \in Node /\ Root \in lv /\ Root \notin Element /\ Element \subseteq Node /\ lv \subseteq Node
         /\ \A n \in Node : ToSet(k[n]) \subseteq lv \cap Element
<1>1. Forest(k) /\ k \in [Node -> Seq(lv \cap Element)] /\ lv \subseteq Node /\ Root \in lv
  BY DEF Sound
<1>2. \A n \in Node : k[n] \in Seq(lv \cap Element)
  BY <1>1
<1>3. \A n \in Node : ToSet(k[n]) \subseteq lv \cap Element
  BY ONLY <1>2, RangeTypes
<1>. QED
  BY <1>1, <1>3, QueryIndexAssumption DEF Forest, RootOnTop, Element

\* A forest of allocated elements is sound.
LEMMA SoundIs ==
  ASSUME NEW k, NEW lv, lv \subseteq Node, Root \in lv, Forest(k),
         \A n \in Node : ToSet(k[n]) \subseteq lv \cap Element,
         \A n \in Node \ lv : ToSet(k[n]) = {}
  PROVE  Sound(k, lv)
<1>1. k \in [Node -> Seq(Node)]
  BY DEF Forest
<1>2. ASSUME NEW n \in Node PROVE k[n] \in Seq(lv \cap Element)
  <2>1. k[n] \in Seq(Node) /\ ToSet(k[n]) \subseteq lv \cap Element
    BY <1>1
  <2>. QED
    BY ONLY <2>1, RangeSub
<1>3. \A n \in Node \ lv : k[n] = <<>>
  <2>. TAKE n \in Node \ lv
  <2>1. k[n] \in Seq(Node) /\ ToSet(k[n]) = {}
    BY <1>1
  <2>. QED
    BY ONLY <2>1, NothingInIt
<1>4. k \in [Node -> Seq(lv \cap Element)]
  <2>1. k = [n \in Node |-> k[n]]
    BY <1>1
  <2>. QED
    BY <1>2, <2>1
<1>. QED
  BY <1>3, <1>4 DEF Sound

\* The document holds allocated elements.
LEMMA PresentFacts ==
  ASSUME NEW k, NEW lv, Sound(k, lv)
  PROVE  Present(k) \subseteq lv \cap Element /\ Root \in Sub(k, Root) /\ Sub(k, Root) \subseteq lv
<1>1. k \in [Node -> Seq(Node)] /\ Grounded(k) /\ Root \in lv /\ lv \subseteq Node /\ Root \in Node
      /\ \A n \in Node : ToSet(k[n]) \subseteq lv \cap Element
  BY SoundFacts
<1>2. Closed(k, {Root} \cup (lv \cap Element))
  BY <1>1 DEF Closed
<1>3. Sub(k, Root) \subseteq {Root} \cup (lv \cap Element) /\ Root \in Sub(k, Root)
  <2>1. Root \in Sub(k, Root)
    BY <1>1, SubUnfolds
  <2>2. \A S : Closed(k, S) /\ Root \in S => Sub(k, Root) \subseteq S
    BY ONLY <1>1, SubLeast
  <2>. QED
    BY ONLY <1>2, <2>1, <2>2
<1>. QED
  BY <1>1, <1>3 DEF Present

\* The document node is in no element's tree.
LEMMA RootOutside ==
  ASSUME NEW k, Forest(k), RootOnTop(k), NEW X, X \subseteq Element
  PROVE  Root \notin Trees(k, X)
<1>. SUFFICES ASSUME NEW x \in X, Root \in Sub(k, x) PROVE FALSE
  BY DEF Trees
<1>1. x \in Node /\ x # Root
  BY DEF Element
<1>2. PICK m \in Sub(k, x) : Root \in ToSet(k[m])
  BY <1>1, SubOwner
<1>3. Sub(k, x) \subseteq Node
  BY <1>1, SubUnfolds DEF Forest
<1>. QED
  BY <1>2, <1>3 DEF RootOnTop

\* The lists after a relinking are exact if they were before it.
LEMMA RelinkExact ==
  ASSUME NEW k, NEW k2, NEW p, NEW gone \in Seq(Node), NEW xs \in Seq(Node), IsInjective(xs),
         Moved(k, k2, p, ToSet(gone), ToSet(xs)),
         NEW ix, NEW at, NEW bt, Exact(mode, ix, Present(k), at), \A el \in Present(k) : bt[el] = at[el],
         NEW jx \in Outcomes(ListSubtrees(k2, bt, DropSubtrees(k, at, ix, gone), xs))
  PROVE  Exact(mode, jx, Present(k2), bt)
<1>. DEFINE Q == ToSet(gone)  X == ToSet(xs)
            D == Present(k) \ Trees(k, Q)
            inside == {x \in X : InDocument(k2, x)}
            dx == DropSubtrees(k, at, ix, gone)
<1>0. Forest(k) /\ Forest(k2) /\ RootOnTop(k) /\ X \subseteq Element
  <2>1. Forest(k2)
    BY MovedForest
  <2>. QED
    BY <2>1 DEF Moved
<1>1. Exact(mode, dx, D, at)
  BY <1>0, DropExact
<1>2. Exact(mode, dx, D, bt)
  <2>1. \A el \in D : bt[el] = at[el]
    OBVIOUS
  <2>. HIDE DEF dx, D
  <2>. QED
    BY ONLY <1>1, <2>1, ExactSame
<1>3. inside = IF p \in Sub(k, Root) THEN X ELSE {}
  <2>1. \A x \in X : x \in Sub(k2, Root) <=> p \in Sub(k, Root)
    BY MovedApart
  <2>2. \A x : InDocument(k2, x) <=> x \in Sub(k2, Root)
    BY <1>0, InsideIs, QueryIndexAssumption DEF InDocument, Forest
  <2>. QED
    BY ONLY <2>1, <2>2
<1>4. \A x \in X : Sub(k2, x) = Sub(k, x)
  BY MovedKept
<1>5. \A x, y \in X : x # y => Sub(k2, x) \cap Sub(k2, y) = {}
  <2>1. \A x, y \in X : x # y => Sub(k, x) \cap Sub(k, y) = {}
    BY DEF Moved
  <2>. QED
    BY ONLY <1>4, <2>1
<1>6. Trees(k2, inside) = IF p \in Sub(k, Root) THEN Trees(k, X) ELSE {}
  BY <1>3, <1>4 DEF Trees
<1>7. D \cap Trees(k2, inside) = {}
  <2>1. (Sub(k, Root) \ Trees(k, Q)) \cap Trees(k, X) = {}
    BY MovedApart
  <2>. QED
    BY ONLY <1>6, <2>1 DEF Present
<1>8. Exact(mode, jx, D \cup Trees(k2, inside), bt)
  <2>1. PICK in : in = inside
    OBVIOUS
  <2>2. in = {x \in ToSet(xs) : InDocument(k2, x)}
    BY <2>1
  <2>3. jx \in Outcomes(ListSubtrees(k2, bt, dx, xs)) /\ \A x, y \in ToSet(xs) : x # y => Sub(k2, x) \cap Sub(k2, y) = {}
    BY <1>5
  <2>. HIDE DEF dx, D, inside
  <2>4. D \cap Trees(k2, in) = {}
    BY <1>7, <2>1
  <2>5. Exact(mode, jx, D \cup Trees(k2, in), bt)
    BY ONLY <1>0, <1>2, <2>2, <2>3, <2>4, xs \in Seq(Node), IsInjective(xs), ListExact
  <2>. QED
    BY <2>1, <2>5
<1>9. Sub(k2, Root) = (Sub(k, Root) \ Trees(k, Q)) \cup (IF p \in Sub(k, Root) THEN Trees(k, X) ELSE {})
  BY MovedDocument
<1>10. Root \notin Trees(k, X)
  BY <1>0, RootOutside
<1>11. D \cup Trees(k2, inside) = Present(k2)
  BY ONLY <1>6, <1>9, <1>10 DEF Present
<1>. QED
  BY ONLY <1>8, <1>11

\* The lists after a relinking are in order if they were before it, and the
\* children that do not move stay in order.
LEMMA RelinkLines ==
  ASSUME NEW k, NEW k2, NEW p, NEW gone \in Seq(Node), NEW xs \in Seq(Node), IsInjective(xs),
         Moved(k, k2, p, ToSet(gone), ToSet(xs)), OrderKept(k, k2, ToSet(gone)),
         NEW ix, NEW at, NEW bt, Exact(mode, ix, Present(k), at), \A el \in Present(k) : bt[el] = at[el],
         Lines(k, ix), NEW jx \in Outcomes(ListSubtrees(k2, bt, DropSubtrees(k, at, ix, gone), xs))
  PROVE  Lines(k2, jx)
<1>. DEFINE Q == ToSet(gone)  X == ToSet(xs)
            D == Present(k) \ Trees(k, Q)
            inside == {x \in X : InDocument(k2, x)}
            dx == DropSubtrees(k, at, ix, gone)
            els == ToSet(Subtrees(k, gone))
<1>0. Forest(k) /\ Forest(k2) /\ X \subseteq Element /\ Root \in Node
  <2>1. Forest(k2)
    BY MovedForest
  <2>. QED
    BY <2>1, QueryIndexAssumption DEF Moved
<1>1. Exact(mode, dx, D, at)
  BY <1>0, DropExact
<1>2. Exact(mode, dx, D, bt)
  <2>1. \A el \in D : bt[el] = at[el]
    OBVIOUS
  <2>. HIDE DEF dx, D
  <2>. QED
    BY ONLY <1>1, <2>1, ExactSame
<1>3. Lines(k2, dx)
  <2>. SUFFICES ASSUME NEW key \in Key PROVE InLine(k2, dx[key])
    BY DEF Lines
  <2>1. ix[key] \in Seq(Node) /\ InLine(k, ix[key])
    BY ExactList DEF Lines
  <2>2. dx[key] = IF key \notin Maintained(mode) THEN ix[key] ELSE Keeping(ix[key], Node \ With(at, key, els))
    BY Zenon DEF DropSubtrees
  <2>. HIDE DEF els, dx
  <2>3. InLine(k, dx[key])
    BY ONLY <2>1, <2>2, KeepingAhead DEF InLine
  <2>4. dx[key] \in Seq(Node) /\ IsInjective(dx[key]) /\ ToSet(dx[key]) = Listing(mode, D, at, key)
    BY ONLY <1>1, key \in Key, ExactList
  <2>5. ToSet(dx[key]) \subseteq Sub(k, Root) \ Trees(k, Q)
    BY ONLY <2>4 DEF Listing, With, Present
  <2>6. PICK s \in Seq(Node) : s = dx[key]
    BY <2>4
  <2>7. IsInjective(s) /\ ToSet(s) \subseteq Sub(k, Root) \ Trees(k, Q) /\ InLine(k, s)
    BY ONLY <2>3, <2>4, <2>5, <2>6
  <2>8. InLine(k2, s)
    BY ONLY <2>7, s \in Seq(Node), Moved(k, k2, p, Q, X), OrderKept(k, k2, Q), StillInLine
  <2>. QED
    BY ONLY <2>6, <2>8
<1>4. \A x \in X : Sub(k2, x) = Sub(k, x)
  BY MovedKept
<1>5. \A x, y \in X : x # y => Sub(k2, x) \cap Sub(k2, y) = {}
  <2>1. \A x, y \in X : x # y => Sub(k, x) \cap Sub(k, y) = {}
    BY DEF Moved
  <2>. QED
    BY ONLY <1>4, <2>1
<1>6. D \cap Trees(k2, inside) = {}
  <2>1. (Sub(k, Root) \ Trees(k, Q)) \cap Trees(k, X) = {}
    BY MovedApart
  <2>2. Trees(k2, inside) \subseteq Trees(k, X)
    BY <1>4 DEF Trees
  <2>. QED
    BY ONLY <2>1, <2>2 DEF Present
<1>7. D \subseteq Sub(k2, Root)
  <2>1. Sub(k, Root) \ Trees(k, Q) \subseteq Sub(k2, Root)
    BY <1>0, MovedStays
  <2>. QED
    BY ONLY <2>1 DEF Present
<1>8. PICK in : in = inside
  OBVIOUS
<1>9. /\ in = {x \in ToSet(xs) : InDocument(k2, x)} /\ D \cap Trees(k2, in) = {}
      /\ jx \in Outcomes(ListSubtrees(k2, bt, dx, xs))
      /\ \A x, y \in ToSet(xs) : x # y => Sub(k2, x) \cap Sub(k2, y) = {}
  BY <1>5, <1>6, <1>8
<1>. HIDE DEF dx, D, inside
<1>. QED
  BY ONLY <1>0, <1>2, <1>3, <1>7, <1>9, xs \in Seq(Node), IsInjective(xs), ListLines

\* InOrder says so of each list.
LEMMA InOrderIs ==
  ASSUME NEW k, NEW m, NEW ix, NEW D, NEW at, Exact(m, ix, D, at)
  PROVE  InOrder(k, ix) <=> Lines(k, ix)
<1>. SUFFICES ASSUME NEW key \in Key
     PROVE  (\A i, j \in DOMAIN ix[key] : i < j => Precedes(k, ix[key][i], ix[key][j])) <=> InLine(k, ix[key])
  BY Zenon DEF InOrder, Lines, Precedes
<1>1. PICK s \in Seq(Node) : s = ix[key]
  BY ExactList
<1>2. DOMAIN s = 1 .. Len(s)
  OBVIOUS
<1>3. (\A i, j \in DOMAIN s : i < j => Precedes(k, s[i], s[j])) <=> InLine(k, s)
  BY ONLY <1>2 DEF InLine, Ahead
<1>. QED
  BY ONLY <1>1, <1>3

\* A move between allocated nodes leaves a sound tree.
LEMMA RelinkSound ==
  ASSUME NEW k, NEW k2, NEW p, NEW Q, NEW X, Moved(k, k2, p, Q, X), NEW lv, Sound(k, lv),
         NEW lv2, lv \subseteq lv2, lv2 \subseteq Node, X \subseteq lv2, p \in lv
  PROVE  Sound(k2, lv2)
<1>1. /\ Root \in lv /\ \A n \in Node : ToSet(k[n]) \subseteq lv \cap Element
  BY SoundFacts
<1>2. Forest(k2)
  BY MovedForest
<1>3. X \subseteq Element /\ \A m \in Node : ToSet(k2[m]) = (ToSet(k[m]) \ Q) \cup (IF m = p THEN X ELSE {})
  BY DEF Moved
<1>4. \A n \in Node : ToSet(k2[n]) \subseteq lv2 \cap Element
  BY <1>1, <1>3
<1>5. \A n \in Node \ lv2 : ToSet(k2[n]) = {}
  <2>. TAKE n \in Node \ lv2
  <2>1. k[n] = <<>> /\ n # p
    BY DEF Sound
  <2>2. ToSet(k[n]) = {}
    BY <2>1 DEF ToSet
  <2>. QED
    BY <1>3, <2>1, <2>2
<1>. QED
  BY <1>1, <1>2, <1>4, <1>5, SoundIs

KeepsOrder == InOrder(kids, index) => InOrder(kids', index')

\* Every call that goes through the chokepoints keeps the invariant, and the
\* lists in order.
LEMMA RelinkKeeps ==
  ASSUME Inv, NEW k2, NEW p \in live, NEW gone \in Seq(Node), NEW xs \in Seq(Node), IsInjective(xs),
         Moved(kids, k2, p, ToSet(gone), ToSet(xs)), OrderKept(kids, k2, ToSet(gone)),
         NEW at \in [Element -> Attributes],
         \A el \in live \cap Element : at[el] = attrs[el],
         Relink(k2, at, gone, xs), live \subseteq live', live' \subseteq Node, ToSet(xs) \subseteq live'
  PROVE  Inv' /\ KeepsOrder
<1>1. Sound(kids, live) /\ Exact(mode, index, Present(kids), attrs) /\ defined \in BOOLEAN /\ mode \in {"Off", "IdOnly", "Full"}
  BY DEF Inv
<1>2. /\ kids' = k2 /\ attrs' = at /\ mode' = mode /\ defined' = defined
      /\ index' \in Outcomes(ListSubtrees(k2, at, DropSubtrees(kids, attrs, index, gone), xs))
  BY DEF Relink
<1>3. Sound(k2, live')
  BY ONLY <1>1, Moved(kids, k2, p, ToSet(gone), ToSet(xs)), live \subseteq live', live' \subseteq Node,
          ToSet(xs) \subseteq live', p \in live, RelinkSound
<1>a. \A el \in Present(kids) : at[el] = attrs[el]
  BY <1>1, PresentFacts
<1>4. Exact(mode, index', Present(k2), at)
  BY ONLY <1>1, <1>2, <1>a, gone \in Seq(Node), xs \in Seq(Node), IsInjective(xs),
          Moved(kids, k2, p, ToSet(gone), ToSet(xs)), RelinkExact
<1>5. Sound(kids', live') /\ Exact(mode', index', Present(kids'), attrs')
  BY ONLY <1>2, <1>3, <1>4
<1>6. Lines(kids, index) => Lines(k2, index')
  BY ONLY <1>1, <1>2, <1>a, gone \in Seq(Node), xs \in Seq(Node), IsInjective(xs),
          Moved(kids, k2, p, ToSet(gone), ToSet(xs)), OrderKept(kids, k2, ToSet(gone)), RelinkLines
<1>7. InOrder(kids, index) <=> Lines(kids, index)
  BY ONLY <1>1, InOrderIs
<1>8. InOrder(k2, index') <=> Lines(k2, index')
  BY ONLY <1>4, InOrderIs
<1>9. InOrder(kids, index) => InOrder(k2, index')
  BY ONLY <1>6, <1>7, <1>8
<1>10. KeepsOrder
  BY ONLY <1>2, <1>9 DEF KeepsOrder, InOrder
<1>. QED
  BY ONLY <1>1, <1>2, <1>5, <1>10, at \in [Element -> Attributes] DEF Inv

-----------------------------------------------------------------------------
(***************************************************************************)
(* The order of the children that do not move.                             *)
(***************************************************************************)
\* Taking children away keeps the others in order.
LEMMA WithoutKept ==
  ASSUME NEW k, k \in [Node -> Seq(Node)], NEW Q
  PROVE  OrderKept(k, Without(k, Q), Q)
<1>. SUFFICES ASSUME NEW m \in Node, NEW c, NEW d, c \notin Q, d \notin Q, Ahead(k[m], c, d)
              PROVE  Ahead(Without(k, Q)[m], c, d)
  BY DEF OrderKept
<1>1. Without(k, Q)[m] = Keeping(k[m], Node \ Q)
  BY Zenon DEF Without
<1>2. PICK s \in Seq(Node) : s = k[m]
  OBVIOUS
<1>3. c \in ToSet(s) /\ d \in ToSet(s) /\ ToSet(s) \subseteq Node
  BY ONLY <1>2, Ahead(k[m], c, d), AheadTyped, RangeTypes
<1>4. c \in Node \ Q /\ d \in Node \ Q
  BY <1>3
<1>5. Ahead(Keeping(s, Node \ Q), c, d)
  BY ONLY <1>2, <1>4, Ahead(k[m], c, d), KeepingAhead
<1>. QED
  BY ONLY <1>1, <1>2, <1>5

\* So does putting others between them.
LEMMA PutBeforeAhead ==
  ASSUME NEW X, NEW s \in Seq(X), NEW xs \in Seq(X), NEW ref, ref = Null \/ ref \in ToSet(s),
         NEW c, NEW d, Ahead(s, c, d)
  PROVE  Ahead(PutBefore(s, ref, xs), c, d)
<1>1. CASE ref = Null
  <2>1. PutBefore(s, ref, xs) = s \o xs
    BY <1>1, Zenon DEF PutBefore
  <2>. QED
    BY <2>1, ConcatAhead
<1>2. CASE ref # Null
  <2>1. PICK i : i = Position(s, ref)
    OBVIOUS
  <2>2. i \in 1 .. Len(s) + 1
    <3>1. i \in 1 .. Len(s)
      BY <1>2, <2>1, PositionFacts
    <3>. QED
      BY <3>1
  <2>3. PICK l, r, n : l = SubSeq(s, 1, i - 1) /\ r = SubSeq(s, i, Len(s)) /\ n = Len(s)
    OBVIOUS
  <2>a. n = Len(s)
    BY <2>3
  <2>4. CutAt(s, i, l, r)
    BY <2>2, <2>3, Zenon DEF CutAt
  <2>5. l \in Seq(X) /\ r \in Seq(X) /\ s = l \o r
    <3>1. l \in Seq(X) /\ r \in Seq(X)
      BY ONLY <2>4, s \in Seq(X), CutFacts
    <3>2. ToSet(l) = {s[m] : m \in 1 .. i - 1} /\ ToSet(r) = {s[m] : m \in i .. n} /\ s = l \o r
      BY ONLY <2>a, <2>4, s \in Seq(X), CutParts
    <3>. QED
      BY <3>1, <3>2
  <2>6. PICK h : h = l \o xs
    OBVIOUS
  <2>7. PutBefore(s, ref, xs) = h \o r
    BY <1>2, <2>1, <2>3, <2>6, Zenon DEF PutBefore
  <2>8. h \in Seq(X) /\ ToSet(l) \subseteq ToSet(h)
    BY ONLY <2>5, <2>6, xs \in Seq(X), ConcatFacts
  <2>9. Ahead(l, c, d) \/ Ahead(r, c, d) \/ (c \in ToSet(l) /\ d \in ToSet(r))
    BY ONLY <2>5, Ahead(s, c, d), ConcatAhead
  <2>10. Ahead(l, c, d) => Ahead(h, c, d)
    BY ONLY <2>5, <2>6, xs \in Seq(X), ConcatAhead
  <2>11. Ahead(h, c, d) \/ Ahead(r, c, d) \/ (c \in ToSet(h) /\ d \in ToSet(r)) => Ahead(h \o r, c, d)
    BY ONLY <2>5, <2>8, ConcatAhead
  <2>. QED
    BY ONLY <2>7, <2>8, <2>9, <2>10, <2>11
<1>. QED
  BY <1>1, <1>2

LEMMA PutKept ==
  ASSUME NEW k \in [Node -> Seq(Node)], NEW p \in Node, NEW ref, ref = Null \/ ref \in ToSet(k[p]),
         NEW xs \in Seq(Node), NEW Q
  PROVE  OrderKept(k, [k EXCEPT ![p] = PutBefore(@, ref, xs)], Q)
<1>1. PICK k2 : k2 = [k EXCEPT ![p] = PutBefore(@, ref, xs)]
  OBVIOUS
<1>2. PICK s \in Seq(Node) : s = k[p]
  OBVIOUS
<1>3. k2[p] = PutBefore(s, ref, xs) /\ \A m \in Node : m # p => k2[m] = k[m]
  BY ONLY <1>1, <1>2, k \in [Node -> Seq(Node)], p \in Node, Zenon
<1>4. ref = Null \/ ref \in ToSet(s)
  BY <1>2
<1>5. \A c, d : Ahead(s, c, d) => Ahead(PutBefore(s, ref, xs), c, d)
  BY ONLY <1>4, s \in Seq(Node), xs \in Seq(Node), PutBeforeAhead
<1>6. OrderKept(k, k2, Q)
  BY ONLY <1>2, <1>3, <1>5 DEF OrderKept
<1>. QED
  BY ONLY <1>1, <1>6

\* Two changes that keep it.
LEMMA KeptTwice ==
  ASSUME NEW k, NEW k1, NEW k2, NEW P, NEW Q, NEW R, OrderKept(k, k1, P), OrderKept(k1, k2, Q), P \cup Q \subseteq R
  PROVE  OrderKept(k, k2, R)
BY DEF OrderKept

-----------------------------------------------------------------------------
(***************************************************************************)
(* Each operation that relinks moves trees as Moved says, and leaves the   *)
(* other children in order.                                                *)
(***************************************************************************)
LEMMA WithoutFacts ==
  ASSUME NEW k, k \in [Node -> Seq(Node)], NEW Q
  PROVE  /\ Without(k, Q) \in [Node -> Seq(Node)]
         /\ \A m \in Node : /\ ToSet(Without(k, Q)[m]) = ToSet(k[m]) \ Q
                            /\ IsInjective(k[m]) => IsInjective(Without(k, Q)[m])
<1>1. Without(k, Q) = [m \in Node |-> Keeping(k[m], Node \ Q)]
  BY Zenon DEF Without
<1>2. ASSUME NEW m \in Node
      PROVE  /\ Keeping(k[m], Node \ Q) \in Seq(Node) /\ ToSet(Keeping(k[m], Node \ Q)) = ToSet(k[m]) \ Q
             /\ IsInjective(k[m]) => IsInjective(Keeping(k[m], Node \ Q))
  <2>1. PICK s \in Seq(Node) : s = k[m]
    OBVIOUS
  <2>2. /\ Keeping(s, Node \ Q) \in Seq(Node) /\ ToSet(Keeping(s, Node \ Q)) = ToSet(s) \cap (Node \ Q)
        /\ IsInjective(s) => IsInjective(Keeping(s, Node \ Q))
    BY ONLY <2>1, KeepingFacts
  <2>3. ToSet(s) \subseteq Node
    BY ONLY <2>1, RangeTypes
  <2>. QED
    BY ONLY <2>1, <2>2, <2>3
<1>. QED
  BY ONLY <1>1, <1>2

\* The list of p with those of xs put in it.
PutIn(k, p, ref, xs) == [k EXCEPT ![p] = PutBefore(@, ref, xs)]

PutsIn(k, p, ref, xs, k2) ==
  /\ k \in [Node -> Seq(Node)] /\ p \in Node /\ (ref = Null \/ ref \in ToSet(k[p]))
  /\ xs \in Seq(Node) /\ IsInjective(xs) /\ IsInjective(k[p]) /\ ToSet(xs) \cap ToSet(k[p]) = {}
  /\ k2 = PutIn(k, p, ref, xs)

\* What PutsIn says of the new children.
LEMMA PutFacts ==
  ASSUME NEW k, NEW p, NEW ref, NEW xs, NEW k2, PutsIn(k, p, ref, xs, k2)
  PROVE  /\ k2 \in [Node -> Seq(Node)] /\ IsInjective(k2[p]) /\ ToSet(k2[p]) = ToSet(k[p]) \cup ToSet(xs)
         /\ \A m \in Node : m # p => k2[m] = k[m]
<1>0. /\ k \in [Node -> Seq(Node)] /\ p \in Node /\ (ref = Null \/ ref \in ToSet(k[p]))
      /\ xs \in Seq(Node) /\ IsInjective(xs) /\ IsInjective(k[p]) /\ ToSet(xs) \cap ToSet(k[p]) = {}
      /\ k2 = PutIn(k, p, ref, xs)
  BY DEF PutsIn
<1>1. k[p] \in Seq(Node)
  BY <1>0
<1>2. PICK r : r = PutBefore(k[p], ref, xs)
  OBVIOUS
<1>3. r \in Seq(Node) /\ ToSet(r) = ToSet(k[p]) \cup ToSet(xs) /\ IsInjective(r)
  <2>1. /\ PutBefore(k[p], ref, xs) \in Seq(Node) /\ ToSet(PutBefore(k[p], ref, xs)) = ToSet(k[p]) \cup ToSet(xs)
        /\ IsInjective(k[p]) /\ IsInjective(xs) /\ ToSet(k[p]) \cap ToSet(xs) = {}
           => IsInjective(PutBefore(k[p], ref, xs))
    BY ONLY <1>0, <1>1, PutBeforeFacts
  <2>. QED
    BY ONLY <1>0, <1>2, <2>1
<1>4. k2 = [m \in Node |-> IF m = p THEN r ELSE k[m]]
  BY ONLY <1>0, <1>2 DEF PutIn
<1>. QED
  BY ONLY <1>0, <1>3, <1>4

\* Owner is the parent, if there is one.
LEMMA OwnerFacts ==
  ASSUME NEW k, NEW c, Owner(k, c) # Null
  PROVE  Owner(k, c) \in Node /\ c \in ToSet(k[Owner(k, c)])
BY Zenon DEF Owner, ChildOf

\* Putting n before ref is a move of the tree at n.
LEMMA MovedOne ==
  ASSUME NEW k, Forest(k), RootOnTop(k), NEW p \in Node, NEW n \in Element, p \notin Sub(k, n),
         NEW ref, ref # n, ref = Null \/ ref \in ToSet(k[p]), NEW k2,
         k2 = [Without(k, {n}) EXCEPT ![p] = PutBefore(@, ref, <<n>>)]
  PROVE  Moved(k, k2, p, {n}, {n}) /\ OrderKept(k, k2, {n})
<1>. DEFINE w == Without(k, {n})
<1>0. k \in [Node -> Seq(Node)] /\ SingleOwner(k) /\ n \in Node
  BY DEF Forest, Element
<1>1. /\ w \in [Node -> Seq(Node)]
      /\ \A m \in Node : ToSet(w[m]) = ToSet(k[m]) \ {n} /\ IsInjective(w[m])
  <2>1. /\ w \in [Node -> Seq(Node)]
        /\ \A m \in Node : ToSet(w[m]) = ToSet(k[m]) \ {n} /\ (IsInjective(k[m]) => IsInjective(w[m]))
    BY ONLY <1>0, WithoutFacts
  <2>. QED
    BY ONLY <1>0, <2>1 DEF SingleOwner
<1>2. k2 = [w EXCEPT ![p] = PutBefore(@, ref, <<n>>)]
  OBVIOUS
<1>. HIDE DEF w
<1>3. PICK xs \in Seq(Node) : xs = <<n>> /\ ToSet(xs) = {n} /\ IsInjective(xs)
  BY <1>0, OneFacts
<1>4. /\ k2 \in [Node -> Seq(Node)] /\ IsInjective(k2[p]) /\ ToSet(k2[p]) = ToSet(w[p]) \cup ToSet(xs)
      /\ \A m \in Node : m # p => k2[m] = w[m]
  <2>1. ref = Null \/ ref \in ToSet(w[p])
    BY <1>1
  <2>2. IsInjective(w[p]) /\ ToSet(xs) \cap ToSet(w[p]) = {}
    BY <1>1, <1>3
  <2>3. k2 = PutIn(w, p, ref, xs)
    BY ONLY <1>2, <1>3, Zenon DEF PutIn
  <2>4. PutsIn(w, p, ref, xs, k2)
    BY ONLY <1>1, <1>3, <2>1, <2>2, <2>3, p \in Node DEF PutsIn
  <2>. QED
    BY ONLY <2>4, PutFacts
<1>5. \A m \in Node : IsInjective(k2[m]) /\ ToSet(k2[m]) = (ToSet(k[m]) \ {n}) \cup (IF m = p THEN {n} ELSE {})
  BY ONLY <1>1, <1>3, <1>4
<1>6. OrderKept(k, k2, {n})
  <2>1. OrderKept(k, w, {n})
    BY ONLY <1>0, WithoutKept DEF w
  <2>2. OrderKept(w, k2, {})
    <3>1. ref = Null \/ ref \in ToSet(w[p])
      BY <1>1
    <3>2. k2 = [w EXCEPT ![p] = PutBefore(@, ref, xs)]
      BY ONLY <1>2, <1>3
    <3>3. OrderKept(w, [w EXCEPT ![p] = PutBefore(@, ref, xs)], {})
      BY ONLY <1>1, <3>1, xs \in Seq(Node), p \in Node, PutKept
    <3>. QED
      BY ONLY <3>2, <3>3
  <2>. QED
    BY ONLY <2>1, <2>2, KeptTwice
<1>. QED
  BY ONLY <1>4, <1>5, <1>6, Forest(k), RootOnTop(k), p \in Node, n \in Element, p \notin Sub(k, n) DEF Moved, Trees

\* Taking c away is a move of nothing in its place.
LEMMA MovedNone ==
  ASSUME NEW k, Forest(k), RootOnTop(k), NEW p \in Node, NEW c \in ToSet(k[p]), c \in Element
  PROVE  Moved(k, Without(k, {c}), p, {c}, {}) /\ OrderKept(k, Without(k, {c}), {c})
<1>0. k \in [Node -> Seq(Node)] /\ SingleOwner(k) /\ Grounded(k)
  BY DEF Forest
<1>1. /\ Without(k, {c}) \in [Node -> Seq(Node)]
      /\ \A m \in Node : ToSet(Without(k, {c})[m]) = ToSet(k[m]) \ {c}
                         /\ (IsInjective(k[m]) => IsInjective(Without(k, {c})[m]))
  BY ONLY <1>0, WithoutFacts
<1>2. p \notin Sub(k, c)
  BY <1>0, NoCycle
<1>3. OrderKept(k, Without(k, {c}), {c})
  BY ONLY <1>0, WithoutKept
<1>. QED
  BY ONLY <1>0, <1>1, <1>2, <1>3, Forest(k), RootOnTop(k), p \in Node, c \in Element DEF Moved, Trees, SingleOwner

\* Replacing c by n is a move of the tree at n, and of the tree at c away.
LEMMA MovedForOne ==
  ASSUME NEW k, Forest(k), RootOnTop(k), NEW p \in Node, NEW c \in ToSet(k[p]), c \in Element,
         NEW n \in Element, n # c, p \notin Sub(k, n), NEW k2,
         k2 = Without([Without(k, {n}) EXCEPT ![p] = PutBefore(@, c, <<n>>)], {c})
  PROVE  Moved(k, k2, p, {c, n}, {n}) /\ OrderKept(k, k2, {c, n})
<1>0. k \in [Node -> Seq(Node)] /\ SingleOwner(k) /\ Grounded(k) /\ n \in Node
  BY DEF Forest, Element
<1>1. PICK l : l = [Without(k, {n}) EXCEPT ![p] = PutBefore(@, c, <<n>>)]
  OBVIOUS
<1>2. Moved(k, l, p, {n}, {n}) /\ OrderKept(k, l, {n})
  BY <1>1, MovedOne
<1>3. /\ l \in [Node -> Seq(Node)]
      /\ \A m \in Node : IsInjective(l[m]) /\ ToSet(l[m]) = (ToSet(k[m]) \ {n}) \cup (IF m = p THEN {n} ELSE {})
  BY <1>2 DEF Moved
<1>4. /\ Without(l, {c}) \in [Node -> Seq(Node)]
      /\ \A m \in Node : ToSet(Without(l, {c})[m]) = ToSet(l[m]) \ {c}
                         /\ (IsInjective(l[m]) => IsInjective(Without(l, {c})[m]))
  BY ONLY <1>3, WithoutFacts
<1>5. p \notin Sub(k, c)
  BY <1>0, NoCycle
<1>6. c \notin Sub(k, n)
  BY <1>0, SubOwner
<1>7. k2 \in [Node -> Seq(Node)] /\ \A m \in Node :
        IsInjective(k2[m]) /\ ToSet(k2[m]) = (ToSet(k[m]) \ {c, n}) \cup (IF m = p THEN {n} ELSE {})
  <2>1. k2 = Without(l, {c})
    BY <1>1
  <2>. QED
    BY ONLY <1>3, <1>4, <2>1, n # c
<1>8. p \notin Trees(k, {c, n})
  BY <1>5 DEF Trees
<1>9. OrderKept(k, k2, {c, n})
  <2>1. OrderKept(l, Without(l, {c}), {c})
    BY ONLY <1>3, WithoutKept
  <2>2. k2 = Without(l, {c}) /\ {n} \cup {c} \subseteq {c, n}
    BY <1>1
  <2>. QED
    BY ONLY <1>2, <2>1, <2>2, KeptTwice
<1>. QED
  BY ONLY <1>0, <1>6, <1>7, <1>8, <1>9, Forest(k), RootOnTop(k), p \in Node, c \in Element, n \in Element, p \notin Sub(k, n)
     DEF Moved

\* New nodes have no children and no owner.
LEMMA FreshFacts ==
  ASSUME NEW k, NEW lv, Sound(k, lv), NEW x \in Node \ lv
  PROVE  k[x] = <<>> /\ Sub(k, x) = {x} /\ \A m \in Node : x \notin ToSet(k[m])
<1>1. /\ k \in [Node -> Seq(Node)] /\ Grounded(k)
      /\ \A n \in Node : ToSet(k[n]) \subseteq lv \cap Element
  BY SoundFacts
<1>2. k[x] = <<>> /\ ToSet(<<>>) = {}
  BY DEF Sound, ToSet
<1>3. Sub(k, x) = {x} \cup UNION {Sub(k, c) : c \in ToSet(k[x])}
  BY <1>1, SubUnfolds
<1>. QED
  BY <1>1, <1>2, <1>3

Fresh(lv, xs) == xs \in Seq(Element) /\ IsInjective(xs) /\ ToSet(xs) \cap lv = {}

\* Fresh elements are elements that are not allocated.
LEMMA FreshTyped ==
  ASSUME NEW lv, NEW xs, Fresh(lv, xs)
  PROVE  xs \in Seq(Node) /\ IsInjective(xs) /\ ToSet(xs) \subseteq Element /\ ToSet(xs) \subseteq Node \ lv
<1>1. xs \in Seq(Element)
  BY DEF Fresh
<1>2. ToSet(xs) \subseteq Element
  BY ONLY <1>1, RangeTypes
<1>3. ToSet(xs) \subseteq Node
  BY <1>2 DEF Element
<1>4. xs \in Seq(Node)
  BY ONLY <1>1, <1>3, RangeSub
<1>. QED
  BY ONLY <1>2, <1>3, <1>4, Fresh(lv, xs) DEF Fresh

\* Setting the markup of p moves its children away and the new elements in.
LEMMA MovedAll ==
  ASSUME NEW k, NEW lv, Sound(k, lv), NEW p \in lv, NEW xs, Fresh(lv, xs)
  PROVE  /\ Moved(k, [k EXCEPT ![p] = xs], p, ToSet(k[p]), ToSet(xs))
         /\ OrderKept(k, [k EXCEPT ![p] = xs], ToSet(k[p]))
<1>. DEFINE k2 == [k EXCEPT ![p] = xs]  Q == ToSet(k[p])  X == ToSet(xs)
<1>0. /\ k \in [Node -> Seq(Node)] /\ Grounded(k) /\ SingleOwner(k) /\ Forest(k) /\ RootOnTop(k) /\ p \in Node
      /\ Q \subseteq lv \cap Element
  BY SoundFacts
<1>1. xs \in Seq(Node) /\ IsInjective(xs) /\ X \subseteq Element /\ X \subseteq Node \ lv
  BY FreshTyped
<1>2. k2 \in [Node -> Seq(Node)] /\ k2[p] = xs /\ \A m \in Node : m # p => k2[m] = k[m]
  BY ONLY <1>0, <1>1
<1>3. ASSUME NEW m \in Node
      PROVE  IsInjective(k2[m]) /\ ToSet(k2[m]) = (ToSet(k[m]) \ Q) \cup (IF m = p THEN X ELSE {})
  <2>1. CASE m = p
    BY ONLY <1>1, <1>2, <2>1
  <2>2. CASE m # p
    <3>1. IsInjective(k[m]) /\ ToSet(k[m]) \cap Q = {}
      BY ONLY <1>0, <2>2, m \in Node DEF SingleOwner
    <3>. QED
      BY ONLY <1>2, <2>2, <3>1, m \in Node
  <2>. QED
    BY <2>1, <2>2
<1>4. p \notin Trees(k, Q)
  BY <1>0, NoCycle DEF Trees
<1>5. \A x \in X : Sub(k, x) = {x} /\ x # p /\ \A m \in Node : x \notin ToSet(k[m])
  BY <1>1, FreshFacts
<1>6. Q \subseteq Element
  BY <1>0
<1>a. OrderKept(k, k2, Q)
  <2>1. PICK s \in Seq(Node) : s = k[p]
    BY <1>0
  <2>2. \A c, d : Ahead(s, c, d) => c \in ToSet(s)
    BY ONLY s \in Seq(Node), AheadTyped
  <2>3. \A c, d : Ahead(k[p], c, d) => c \in Q
    BY ONLY <2>1, <2>2
  <2>4. \A m \in Node : m # p => k2[m] = k[m]
    BY <1>2
  <2>. HIDE DEF k2, Q
  <2>. QED
    BY ONLY <2>3, <2>4 DEF OrderKept
<1>. HIDE DEF k2, Q, X
<1>7. Moved(k, k2, p, Q, X)
  BY ONLY <1>0, <1>1, <1>2, <1>3, <1>4, <1>5, <1>6 DEF Moved
<1>. QED
  BY ONLY <1>7, <1>a DEF k2, Q, X

\* Replacing c by markup moves its tree away and the new elements in.
LEMMA MovedForAll ==
  ASSUME NEW k, NEW lv, Sound(k, lv), NEW p \in Node, NEW c \in ToSet(k[p]), NEW xs, Fresh(lv, xs)
  PROVE  /\ Moved(k, Without([k EXCEPT ![p] = PutBefore(@, c, xs)], {c}), p, {c}, ToSet(xs)) /\ p \in lv
         /\ OrderKept(k, Without([k EXCEPT ![p] = PutBefore(@, c, xs)], {c}), {c})
<1>. DEFINE X == ToSet(xs)
<1>0. /\ k \in [Node -> Seq(Node)] /\ Grounded(k) /\ SingleOwner(k) /\ Forest(k) /\ RootOnTop(k)
      /\ \A m \in Node : ToSet(k[m]) \subseteq lv \cap Element
  BY SoundFacts
<1>1. xs \in Seq(Node) /\ IsInjective(xs) /\ X \subseteq Element /\ X \subseteq Node \ lv
  BY FreshTyped
<1>2. PICK l : l = [k EXCEPT ![p] = PutBefore(@, c, xs)]
  OBVIOUS
<1>3. /\ l \in [Node -> Seq(Node)] /\ IsInjective(l[p]) /\ ToSet(l[p]) = ToSet(k[p]) \cup X
      /\ \A m \in Node : m # p => l[m] = k[m]
  <2>1. IsInjective(k[p]) /\ X \cap ToSet(k[p]) = {}
    BY <1>0, <1>1 DEF SingleOwner
  <2>2. c \in ToSet(k[p])
    OBVIOUS
  <2>3. l = PutIn(k, p, c, xs)
    BY ONLY <1>2, Zenon DEF PutIn
  <2>4. PutsIn(k, p, c, xs, l)
    BY ONLY <1>0, <1>1, <2>1, <2>2, <2>3, p \in Node DEF PutsIn
  <2>. QED
    BY ONLY <2>4, PutFacts
<1>4. /\ Without(l, {c}) \in [Node -> Seq(Node)]
      /\ \A m \in Node : ToSet(Without(l, {c})[m]) = ToSet(l[m]) \ {c}
                         /\ (IsInjective(l[m]) => IsInjective(Without(l, {c})[m]))
  BY ONLY <1>3, WithoutFacts
<1>5. PICK k2 : k2 = Without(l, {c})
  OBVIOUS
<1>6. c \in lv /\ c \in Element
  BY <1>0
<1>7. \A m \in Node : m # p => IsInjective(k[m]) /\ c \notin ToSet(k[m])
  BY <1>0 DEF SingleOwner
<1>8. \A m \in Node : IsInjective(k2[m]) /\ ToSet(k2[m]) = (ToSet(k[m]) \ {c}) \cup (IF m = p THEN X ELSE {})
  BY ONLY <1>1, <1>3, <1>4, <1>5, <1>6, <1>7
<1>9. p \notin Trees(k, {c})
  BY <1>0, NoCycle DEF Trees
<1>10. p \in lv
  <2>1. p \notin lv => ToSet(k[p]) = {}
    BY DEF Sound, ToSet
  <2>. QED
    BY <2>1
<1>11. \A x \in X : Sub(k, x) = {x} /\ x # p /\ \A m \in Node : x \notin ToSet(k[m])
  BY <1>1, <1>10, FreshFacts
<1>. HIDE DEF X
<1>12. Moved(k, k2, p, {c}, X)
  <2>1. k2 \in [Node -> Seq(Node)]
    BY ONLY <1>4, <1>5
  <2>2. \A x \in X : /\ p \notin Sub(k, x) /\ Sub(k, x) \cap {c} \subseteq {x}
                     /\ x \in {c} \/ \A m \in Node : x \notin ToSet(k[m])
    BY ONLY <1>11
  <2>3. \A x, y \in X : x # y => Sub(k, x) \cap Sub(k, y) = {}
    BY ONLY <1>11
  <2>4. {c} \subseteq Element
    BY ONLY <1>6
  <2>5. Forest(k) /\ RootOnTop(k) /\ X \subseteq Element /\ p \in Node
    BY ONLY <1>0, <1>1, p \in Node
  <2>. QED
    BY ONLY <1>8, <1>9, <2>1, <2>2, <2>3, <2>4, <2>5 DEF Moved
<1>13. OrderKept(k, k2, {c})
  <2>1. OrderKept(k, [k EXCEPT ![p] = PutBefore(@, c, xs)], {})
    <3>1. c = Null \/ c \in ToSet(k[p])
      OBVIOUS
    <3>2. k \in [Node -> Seq(Node)] /\ xs \in Seq(Node)
      BY ONLY <1>0, <1>1
    <3>. QED
      BY ONLY <3>1, <3>2, p \in Node, PutKept
  <2>2. OrderKept(k, l, {})
    BY ONLY <1>2, <2>1
  <2>3. OrderKept(l, Without(l, {c}), {c})
    BY ONLY <1>3, WithoutKept
  <2>. QED
    BY ONLY <1>5, <2>2, <2>3, KeptTwice
<1>. QED
  BY ONLY <1>2, <1>5, <1>10, <1>12, <1>13 DEF X

-----------------------------------------------------------------------------
(***************************************************************************)
(* The operations that relink keep the invariant, and lists in order.      *)
(***************************************************************************)
LEMMA InvFacts ==
  ASSUME Inv
  PROVE  /\ Sound(kids, live) /\ attrs \in [Element -> Attributes] /\ defined \in BOOLEAN
         /\ mode \in {"Off", "IdOnly", "Full"} /\ Exact(mode, index, Present(kids), attrs)
         /\ kids \in [Node -> Seq(Node)] /\ Grounded(kids) /\ SingleOwner(kids) /\ Forest(kids) /\ RootOnTop(kids)
         /\ live \subseteq Node /\ Element \subseteq Node /\ Root \in live /\ Root \notin Element
         /\ \A n \in Node : ToSet(kids[n]) \subseteq live \cap Element
<1>1. Sound(kids, live)
  BY DEF Inv
<1>2. /\ kids \in [Node -> Seq(Node)] /\ Grounded(kids) /\ SingleOwner(kids) /\ Forest(kids) /\ RootOnTop(kids)
      /\ live \subseteq Node /\ Element \subseteq Node /\ Root \in live /\ Root \notin Element
      /\ \A n \in Node : ToSet(kids[n]) \subseteq live \cap Element
  BY <1>1, SoundFacts
<1>. QED
  BY <1>2 DEF Inv

\* The same allocated nodes and attributes.
LEMMA MoveKeeps ==
  ASSUME Inv, NEW k2, NEW p \in live, NEW gone \in Seq(Node), NEW xs \in Seq(Node), IsInjective(xs),
         Moved(kids, k2, p, ToSet(gone), ToSet(xs)), OrderKept(kids, k2, ToSet(gone)), ToSet(xs) \subseteq live,
         Relink(k2, attrs, gone, xs), live' = live
  PROVE  Inv' /\ KeepsOrder
<1>1. attrs \in [Element -> Attributes] /\ live \subseteq Node
  BY InvFacts
<1>2. \A el \in live \cap Element : attrs[el] = attrs[el]
  OBVIOUS
<1>3. live \subseteq live' /\ live' \subseteq Node /\ ToSet(xs) \subseteq live'
  BY ONLY <1>1, ToSet(xs) \subseteq live, live' = live
<1>. QED
  BY ONLY <1>1, <1>2, <1>3, Inv, p \in live, gone \in Seq(Node), xs \in Seq(Node), IsInjective(xs),
          Moved(kids, k2, p, ToSet(gone), ToSet(xs)), OrderKept(kids, k2, ToSet(gone)),
          Relink(k2, attrs, gone, xs), RelinkKeeps

\* append_child and insert_before keep the invariant, and lists in order.
LEMMA InsertBeforeKeeps ==
  ASSUME Inv, NEW p \in Node, NEW n \in Node, NEW ref, InsertBefore(p, n, ref)
  PROVE  Inv' /\ KeepsOrder
<1>. DEFINE k2 == [Without(kids, {n}) EXCEPT ![p] = PutBefore(@, ref, <<n>>)]
<1>1. /\ p \in live /\ n \in live /\ n \in Element /\ ~ Inside(kids, n, p)
      /\ ref # n /\ (ref = Null \/ ChildOf(kids, ref, p))
      /\ Relink(k2, attrs, <<n>>, <<n>>) /\ live' = live
  BY DEF InsertBefore, Insertable
<1>3. Forest(kids) /\ RootOnTop(kids)
  BY InvFacts
<1>2. p \notin Sub(kids, n) /\ (ref = Null \/ ref \in ToSet(kids[p]))
  BY ONLY <1>1, <1>3, n \in Node, InsideIs DEF ChildOf, Forest
<1>4. Moved(kids, k2, p, {n}, {n}) /\ OrderKept(kids, k2, {n})
  BY ONLY <1>1, <1>2, <1>3, p \in Node, MovedOne
<1>. HIDE DEF k2
<1>5. PICK one \in Seq(Node) : one = <<n>> /\ ToSet(one) = {n} /\ IsInjective(one)
  BY OneFacts
<1>6. /\ Relink(k2, attrs, one, one) /\ Moved(kids, k2, p, ToSet(one), ToSet(one)) /\ ToSet(one) \subseteq live
      /\ OrderKept(kids, k2, ToSet(one))
  BY ONLY <1>1, <1>4, <1>5
<1>. QED
  BY ONLY <1>1, <1>5, <1>6, Inv, MoveKeeps

\* A child has an allocated parent and is an allocated element.
LEMMA OwnedFacts ==
  ASSUME Inv, NEW c, NEW p, p = Owner(kids, c), p # Null
  PROVE  p \in Node /\ p \in live /\ c \in ToSet(kids[p]) /\ c \in live /\ c \in Element /\ c \in Node
<1>1. p \in Node /\ c \in ToSet(kids[p])
  BY OwnerFacts
<1>2. Sound(kids, live) /\ (\A n \in Node : ToSet(kids[n]) \subseteq live \cap Element) /\ Element \subseteq Node
  BY InvFacts
<1>3. p \notin live => ToSet(kids[p]) = {}
  BY <1>1, <1>2 DEF Sound, ToSet
<1>. QED
  BY <1>1, <1>2, <1>3

\* remove_child keeps the invariant, and lists in order.
LEMMA RemoveChildKeeps ==
  ASSUME Inv, NEW c \in Node, RemoveChild(c)
  PROVE  Inv' /\ KeepsOrder
<1>1. PICK p : p = Owner(kids, c)
  OBVIOUS
<1>2. p # Null /\ Relink(Without(kids, {c}), attrs, <<c>>, <<>>) /\ live' = live
  BY <1>1 DEF RemoveChild
<1>3. p \in Node /\ p \in live /\ c \in ToSet(kids[p]) /\ c \in Element
  BY <1>1, <1>2, OwnedFacts
<1>4. Forest(kids) /\ RootOnTop(kids)
  BY InvFacts
<1>5. Moved(kids, Without(kids, {c}), p, {c}, {}) /\ OrderKept(kids, Without(kids, {c}), {c})
  BY ONLY <1>3, <1>4, MovedNone
<1>6. PICK one \in Seq(Node) : one = <<c>> /\ ToSet(one) = {c}
  BY OneFacts
<1>7. PICK none \in Seq(Node) : none = <<>> /\ ToSet(none) = {} /\ IsInjective(none)
  <2>1. <<>> \in Seq(Node) /\ ToSet(<<>>) = {} /\ IsInjective(<<>>)
    BY DEF ToSet, IsInjective
  <2>. QED
    BY <2>1
<1>8. PICK k2 : k2 = Without(kids, {c})
  OBVIOUS
<1>9. /\ Relink(k2, attrs, one, none) /\ Moved(kids, k2, p, ToSet(one), ToSet(none)) /\ ToSet(none) \subseteq live
      /\ OrderKept(kids, k2, ToSet(one))
  BY ONLY <1>2, <1>5, <1>6, <1>7, <1>8
<1>. QED
  BY ONLY <1>2, <1>3, <1>6, <1>7, <1>9, Inv, MoveKeeps

\* The list of two nodes.
LEMMA TwoFacts ==
  ASSUME NEW c \in Node, NEW n \in Node
  PROVE  <<c, n>> \in Seq(Node) /\ ToSet(<<c, n>>) = {c, n}
<1>1. <<c, n>> \in Seq(Node) /\ DOMAIN <<c, n>> = {1, 2} /\ <<c, n>>[1] = c /\ <<c, n>>[2] = n
  OBVIOUS
<1>. QED
  BY <1>1 DEF ToSet

\* replace_child keeps the invariant, and lists in order.
LEMMA ReplaceChildKeeps ==
  ASSUME Inv, NEW c \in Node, NEW n \in Node, ReplaceChild(c, n)
  PROVE  Inv' /\ KeepsOrder
<1>1. PICK p : p = Owner(kids, c)
  OBVIOUS
<1>2. PICK k2 : k2 = Without([Without(kids, {n}) EXCEPT ![p] = PutBefore(@, c, <<n>>)], {c})
  OBVIOUS
<1>3. /\ p # Null /\ n \in live /\ n \in Element /\ n # c /\ ~ Inside(kids, n, p)
      /\ Relink(k2, attrs, <<c, n>>, <<n>>) /\ live' = live
  BY <1>1, <1>2 DEF ReplaceChild
<1>4. p \in Node /\ p \in live /\ c \in ToSet(kids[p]) /\ c \in Element
  BY <1>1, <1>3, OwnedFacts
<1>5. Forest(kids) /\ RootOnTop(kids)
  BY InvFacts
<1>6. p \notin Sub(kids, n)
  BY ONLY <1>3, <1>5, n \in Node, InsideIs DEF Forest
<1>7. Moved(kids, k2, p, {c, n}, {n}) /\ OrderKept(kids, k2, {c, n})
  BY ONLY <1>2, <1>3, <1>4, <1>5, <1>6, MovedForOne
<1>8. PICK one \in Seq(Node) : one = <<n>> /\ ToSet(one) = {n} /\ IsInjective(one)
  BY OneFacts
<1>9. PICK two \in Seq(Node) : two = <<c, n>> /\ ToSet(two) = {c, n}
  BY TwoFacts
<1>10. /\ Relink(k2, attrs, two, one) /\ Moved(kids, k2, p, ToSet(two), ToSet(one)) /\ ToSet(one) \subseteq live
       /\ OrderKept(kids, k2, ToSet(two))
  BY ONLY <1>3, <1>7, <1>8, <1>9
<1>. QED
  BY ONLY <1>3, <1>4, <1>8, <1>9, <1>10, Inv, MoveKeeps

-----------------------------------------------------------------------------
(***************************************************************************)
(* The operations that parse: the elements they bring are new.             *)
(***************************************************************************)
LEMMA ChainsFresh ==
  ASSUME NEW xs \in Chains
  PROVE  Fresh(live, xs)
<1>1. PICK len \in 0 .. MaxFresh : xs \in [1 .. len -> Element]
  BY DEF Chains
<1>2. len \in Nat
  BY QueryIndexAssumption
<1>3. xs \in Seq(Element)
  BY <1>1, <1>2
<1>. QED
  BY <1>3 DEF Chains, Fresh

\* Markup leaves the attributes of allocated elements alone.
LEMMA ParsedFacts ==
  ASSUME NEW xs, Fresh(live, xs), NEW at \in WithParsed(xs), attrs \in [Element -> Attributes]
  PROVE  at \in [Element -> Attributes] /\ \A el \in live \cap Element : at[el] = attrs[el]
<1>1. PICK new \in [ToSet(xs) -> Attributes] :
        at = [n \in Element |-> IF n \in ToSet(xs) THEN new[n] ELSE attrs[n]]
  BY Zenon DEF WithParsed
<1>2. \A n \in ToSet(xs) : new[n] \in Attributes /\ n \notin live
  BY DEF Fresh
<1>. HIDE DEF Attributes
<1>. QED
  BY ONLY <1>1, <1>2, attrs \in [Element -> Attributes]

\* A call that brings markup keeps the invariant.
LEMMA ParseKeeps ==
  ASSUME Inv, NEW k2, NEW p \in live, NEW gone \in Seq(Node), NEW xs, Fresh(live, xs),
         Moved(kids, k2, p, ToSet(gone), ToSet(xs)), OrderKept(kids, k2, ToSet(gone)), NEW at \in WithParsed(xs),
         Relink(k2, at, gone, xs), live' = live \cup ToSet(xs)
  PROVE  Inv' /\ KeepsOrder
<1>1. attrs \in [Element -> Attributes] /\ live \subseteq Node
  BY InvFacts
<1>2. xs \in Seq(Node) /\ IsInjective(xs) /\ ToSet(xs) \subseteq Node \ live
  BY FreshTyped
<1>3. at \in [Element -> Attributes] /\ \A el \in live \cap Element : at[el] = attrs[el]
  BY ONLY <1>1, Fresh(live, xs), at \in WithParsed(xs), ParsedFacts
<1>4. live \subseteq live' /\ live' \subseteq Node /\ ToSet(xs) \subseteq live'
  BY ONLY <1>1, <1>2, live' = live \cup ToSet(xs)
<1>. QED
  BY ONLY <1>2, <1>3, <1>4, Inv, p \in live, gone \in Seq(Node),
          Moved(kids, k2, p, ToSet(gone), ToSet(xs)), OrderKept(kids, k2, ToSet(gone)),
          Relink(k2, at, gone, xs), RelinkKeeps

\* set_inner_html and load_html keep the invariant, and lists in order.
LEMMA ReplaceChildrenKeeps ==
  ASSUME Inv, NEW p \in Node, NEW xs \in Chains, NEW at \in WithParsed(xs), ReplaceChildren(p, xs, at)
  PROVE  Inv' /\ KeepsOrder
<1>1. PICK k2 : k2 = [kids EXCEPT ![p] = xs]
  OBVIOUS
<1>2. PICK gone : gone = kids[p]
  OBVIOUS
<1>3. p \in live /\ live' = live \cup ToSet(xs) /\ Relink(k2, at, gone, xs)
  BY <1>1, <1>2 DEF ReplaceChildren
<1>4. Sound(kids, live) /\ kids \in [Node -> Seq(Node)]
  BY InvFacts
<1>5. Fresh(live, xs)
  BY ChainsFresh
<1>6. Moved(kids, k2, p, ToSet(gone), ToSet(xs)) /\ OrderKept(kids, k2, ToSet(gone))
  BY ONLY <1>1, <1>2, <1>3, <1>4, <1>5, MovedAll
<1>7. gone \in Seq(Node)
  BY ONLY <1>2, <1>4, p \in Node
<1>. QED
  BY ONLY <1>3, <1>5, <1>6, <1>7, Inv, at \in WithParsed(xs), ParseKeeps

\* set_outer_html keeps the invariant, and lists in order.
LEMMA ReplaceInParentKeeps ==
  ASSUME Inv, NEW c \in Node, NEW xs \in Chains, NEW at \in WithParsed(xs), ReplaceInParent(c, xs, at)
  PROVE  Inv' /\ KeepsOrder
<1>1. PICK p : p = Owner(kids, c)
  OBVIOUS
<1>2. PICK k2 : k2 = Without([kids EXCEPT ![p] = PutBefore(@, c, xs)], {c})
  OBVIOUS
<1>3. PICK gone \in Seq(Node) : gone = <<c>> /\ ToSet(gone) = {c}
  BY OneFacts
<1>4. p # Null /\ live' = live \cup ToSet(xs) /\ Relink(k2, at, gone, xs)
  BY <1>1, <1>2, <1>3 DEF ReplaceInParent
<1>5. p \in Node /\ c \in ToSet(kids[p])
  BY <1>1, <1>4, OwnedFacts
<1>6. Sound(kids, live)
  BY InvFacts
<1>7. Fresh(live, xs)
  BY ChainsFresh
<1>8. Moved(kids, k2, p, {c}, ToSet(xs)) /\ OrderKept(kids, k2, {c}) /\ p \in live
  BY ONLY <1>2, <1>5, <1>6, <1>7, MovedForAll
<1>9. Moved(kids, k2, p, ToSet(gone), ToSet(xs)) /\ OrderKept(kids, k2, ToSet(gone))
  BY ONLY <1>3, <1>8
<1>. QED
  BY ONLY <1>3, <1>4, <1>7, <1>8, <1>9, Inv, at \in WithParsed(xs), ParseKeeps

-----------------------------------------------------------------------------
(***************************************************************************)
(* The other operations: creation, attribute writes and index modes.       *)
(***************************************************************************)
BelowIs(k, s) == s \in Seq(Node) /\ IsInjective(s) /\ ToSet(s) = Present(k)

\* A traversal of the document meets what it holds, each once.
LEMMA PresentListed ==
  ASSUME NEW k, Forest(k)
  PROVE  BelowIs(k, Below(k, Root))
<1>1. Root \in Node
  BY QueryIndexAssumption
<1>. QED
  BY <1>1, BelowFacts DEF Present, BelowIs

\* An index built by one traversal is exact.
LEMMA BuiltExact ==
  ASSUME Inv, NEW m
  PROVE  Exact(m, Built(m), Present(kids), attrs)
<1>. DEFINE jx == [key \in Key |-> IF key \notin Maintained(m) THEN <<>>
                                   ELSE Keeping(Below(kids, Root), With(attrs, key, Element))]
<1>1. Built(m) = jx
  BY Zenon DEF Built
<1>2. Present(kids) \subseteq Element
  BY InvFacts, PresentFacts
<1>3. PICK s : s = Below(kids, Root)
  OBVIOUS
<1>4. s \in Seq(Node) /\ IsInjective(s) /\ ToSet(s) = Present(kids)
  BY <1>3, InvFacts, PresentListed DEF BelowIs
<1>5. <<>> \in Seq(Node) /\ IsInjective(<<>>) /\ ToSet(<<>>) = {}
  BY DEF IsInjective, ToSet
<1>6. ASSUME NEW key \in Key
      PROVE  jx[key] \in Seq(Node) /\ IsInjective(jx[key]) /\ ToSet(jx[key]) = Listing(m, Present(kids), attrs, key)
  <2>1. CASE key \notin Maintained(m)
    <3>1. jx[key] = <<>>
      BY <2>1
    <3>. QED
      BY ONLY <1>5, <2>1, <3>1 DEF Listing
  <2>2. CASE key \in Maintained(m)
    <3>1. jx[key] = Keeping(s, With(attrs, key, Element))
      BY <1>3, <2>2
    <3>2. /\ Keeping(s, With(attrs, key, Element)) \in Seq(Node)
          /\ ToSet(Keeping(s, With(attrs, key, Element))) = ToSet(s) \cap With(attrs, key, Element)
          /\ IsInjective(s) => IsInjective(Keeping(s, With(attrs, key, Element)))
      BY ONLY <1>4, KeepingFacts
    <3>3. Present(kids) \cap With(attrs, key, Element) = With(attrs, key, Present(kids))
      BY ONLY <1>2 DEF With
    <3>. QED
      BY ONLY <1>4, <2>2, <3>1, <3>2, <3>3 DEF Listing
  <2>. QED
    BY <2>1, <2>2
<1>7. jx = [key \in Key |-> jx[key]]
  OBVIOUS
<1>. HIDE DEF jx
<1>. QED
  BY ONLY <1>1, <1>6, <1>7, ExactIs

\* So are the empty lists of a mode that maintains none.
LEMMA EmptyExact ==
  ASSUME NEW D, NEW at
  PROVE  Exact("Off", EmptyLists, D, at)
<1>1. <<>> \in Seq(Node) /\ IsInjective(<<>>) /\ ToSet(<<>>) = {}
  BY DEF IsInjective, ToSet
<1>2. \A key : Listing("Off", D, at, key) = {}
  BY DEF Listing, Maintained
<1>3. EmptyLists = [key \in Key |-> <<>>]
  BY DEF EmptyLists
<1>. QED
  BY ONLY <1>1, <1>2, <1>3, ExactIs

\* A change of mode to an exact index keeps the invariant.
LEMMA ModeKeeps ==
  ASSUME Inv, kids' = kids, live' = live, attrs' = attrs, defined' = defined, mode' \in {"Off", "IdOnly", "Full"},
         Exact(mode', index', Present(kids), attrs)
  PROVE  Inv'
<1>1. Sound(kids, live) /\ attrs \in [Element -> Attributes] /\ defined \in BOOLEAN
  BY InvFacts
<1>. QED
  BY ONLY <1>1, kids' = kids, live' = live, attrs' = attrs, defined' = defined, mode' \in {"Off", "IdOnly", "Full"},
         Exact(mode', index', Present(kids), attrs) DEF Inv

\* ensure_id_query_index_enabled keeps the invariant.
LEMMA EnsureIdIndexKeeps ==
  ASSUME Inv, EnsureIdIndex
  PROVE  Inv'
<1>1. mode' = "IdOnly" /\ index' = Built("IdOnly") /\ kids' = kids /\ live' = live /\ attrs' = attrs /\ defined' = defined
  BY DEF EnsureIdIndex
<1>2. Exact(mode', index', Present(kids), attrs)
  BY <1>1, BuiltExact
<1>. QED
  BY <1>1, <1>2, ModeKeeps

\* set_query_index_enabled keeps the invariant.
LEMMA SetEnabledKeeps ==
  ASSUME Inv, NEW enabled \in BOOLEAN, SetEnabled(enabled)
  PROVE  Inv'
<1>1. /\ mode' = IF enabled THEN "Full" ELSE "Off"
      /\ index' = IF enabled THEN Built("Full") ELSE EmptyLists
      /\ kids' = kids /\ live' = live /\ attrs' = attrs /\ defined' = defined
  BY DEF SetEnabled
<1>2. Exact(mode', index', Present(kids), attrs)
  BY <1>1, BuiltExact, EmptyExact
<1>. QED
  BY <1>1, <1>2, ModeKeeps

\* create_element keeps the invariant.
LEMMA CreateElementKeeps ==
  ASSUME Inv, NEW n \in Node, CreateElement(n)
  PROVE  Inv'
<1>1. n \in Element \ live /\ live' = live \cup {n} /\ UNCHANGED <<kids, attrs, defined, mode, index>>
  BY DEF CreateElement
<1>2. /\ Sound(kids, live) /\ attrs \in [Element -> Attributes] /\ defined \in BOOLEAN
      /\ mode \in {"Off", "IdOnly", "Full"} /\ Exact(mode, index, Present(kids), attrs)
      /\ Forest(kids) /\ live \subseteq Node /\ Root \in live
      /\ \A m \in Node : ToSet(kids[m]) \subseteq live \cap Element
  BY InvFacts
<1>3. \A m \in Node \ live : ToSet(kids[m]) = {}
  BY <1>2 DEF Sound, ToSet
<1>4. Sound(kids, live')
  <2>1. /\ live' \subseteq Node /\ Root \in live' /\ \A m \in Node : ToSet(kids[m]) \subseteq live' \cap Element
        /\ \A m \in Node \ live' : ToSet(kids[m]) = {}
    BY ONLY <1>1, <1>2, <1>3, n \in Node
  <2>. QED
    BY ONLY <1>2, <2>1, SoundIs
<1>. QED
  BY ONLY <1>1, <1>2, <1>4 DEF Inv

-----------------------------------------------------------------------------
(***************************************************************************)
(* An element leaves or enters the lists of some keys.                     *)
(***************************************************************************)
AllBut(jx, D, at, el, keys) ==
  /\ jx = [key \in Key |-> jx[key]]
  /\ \A key \in Key : /\ jx[key] \in Seq(Node) /\ IsInjective(jx[key])
                      /\ ToSet(jx[key]) = Listing(mode, D, at, key) \ (IF key \in keys THEN {el} ELSE {})

AllWith(jx, ix, el, keys) ==
  /\ jx = [key \in Key |-> jx[key]]
  /\ \A key \in Key : IF key \in keys \cap Maintained(mode) THEN Grown(Node, ix[key], {el}, jx[key])
                      ELSE jx[key] = ix[key]

\* Removing el from the lists of keys.
LEMMA UnlistedFacts ==
  ASSUME NEW ix, NEW D, NEW at, Exact(mode, ix, D, at), NEW el, NEW keys, NEW jx, jx = UnlistedUnder(ix, el, keys),
         D \subseteq Node
  PROVE  AllBut(jx, D, at, el, keys)
<1>1. jx = [key \in Key |-> IF key \in keys \cap Maintained(mode) THEN Keeping(ix[key], Node \ {el}) ELSE ix[key]]
  BY Zenon DEF UnlistedUnder
<1>2. ASSUME NEW key \in Key
      PROVE  /\ jx[key] \in Seq(Node) /\ IsInjective(jx[key])
             /\ ToSet(jx[key]) = Listing(mode, D, at, key) \ (IF key \in keys THEN {el} ELSE {})
  <2>1. ix[key] \in Seq(Node) /\ IsInjective(ix[key]) /\ ToSet(ix[key]) = Listing(mode, D, at, key)
    BY ExactList
  <2>2. CASE key \in keys \cap Maintained(mode)
    <3>1. jx[key] = Keeping(ix[key], Node \ {el})
      BY <1>1, <2>2
    <3>2. /\ Keeping(ix[key], Node \ {el}) \in Seq(Node)
          /\ ToSet(Keeping(ix[key], Node \ {el})) = ToSet(ix[key]) \cap (Node \ {el})
          /\ IsInjective(ix[key]) => IsInjective(Keeping(ix[key], Node \ {el}))
      BY ONLY <2>1, KeepingFacts
    <3>3. ToSet(ix[key]) \subseteq Node
      BY ONLY <2>1, RangeTypes
    <3>. QED
      BY ONLY <2>1, <2>2, <3>1, <3>2, <3>3
  <2>3. CASE key \notin keys \cap Maintained(mode)
    <3>1. jx[key] = ix[key]
      BY <1>1, <2>3
    <3>2. key \in keys => Listing(mode, D, at, key) = {}
      BY ONLY <2>3 DEF Listing
    <3>. QED
      BY ONLY <2>1, <3>1, <3>2
  <2>. QED
    BY <2>2, <2>3
<1>3. jx = [key \in Key |-> jx[key]]
  BY ONLY <1>1
<1>. QED
  BY ONLY <1>2, <1>3 DEF AllBut

\* Listing el under keys.
LEMMA ListedUnderFacts ==
  ASSUME NEW k, NEW ix, NEW el \in Node, NEW keys, NEW jx \in Outcomes(ListedUnder(k, ix, el, keys)),
         \A key \in Key : ix[key] \in Seq(Node)
  PROVE  AllWith(jx, ix, el, keys)
<1>. DEFINE c == [key \in Key |-> IF key \in keys \cap Maintained(mode) THEN Listed(k, ix[key], el) ELSE {ix[key]}]
<1>1. jx \in Outcomes(c)
  BY Zenon DEF ListedUnder
<1>2. DOMAIN c = Key
  OBVIOUS
<1>3. jx = [key \in Key |-> jx[key]] /\ \A key \in Key : jx[key] \in c[key]
  <2>. HIDE DEF c
  <2>. QED
    BY ONLY <1>1, <1>2, OutcomesFacts
<1>4. ASSUME NEW key \in Key, key \in keys \cap Maintained(mode) PROVE Grown(Node, ix[key], {el}, jx[key])
  <2>1. jx[key] \in Listed(k, ix[key], el)
    BY <1>3, <1>4
  <2>2. ix[key] \in Seq(Node)
    OBVIOUS
  <2>. QED
    BY ONLY <2>1, <2>2, el \in Node, ListedFacts
<1>5. ASSUME NEW key \in Key, key \notin keys \cap Maintained(mode) PROVE jx[key] = ix[key]
  BY <1>3, <1>5
<1>. HIDE DEF c
<1>. QED
  BY ONLY <1>3, <1>4, <1>5 DEF AllWith

\* All of an element's keys.
LEMMA UnlistExact ==
  ASSUME NEW ix, NEW D, NEW at, Exact(mode, ix, D, at), NEW el, D \subseteq Node
  PROVE  Exact(mode, UnlistedUnder(ix, el, KeysOf(at, el)), D \ {el}, at)
<1>1. PICK jx : jx = UnlistedUnder(ix, el, KeysOf(at, el))
  OBVIOUS
<1>2. /\ jx = [key \in Key |-> jx[key]]
      /\ \A key \in Key : /\ jx[key] \in Seq(Node) /\ IsInjective(jx[key])
                          /\ ToSet(jx[key]) = Listing(mode, D, at, key) \ (IF key \in KeysOf(at, el) THEN {el} ELSE {})
  <2>1. AllBut(jx, D, at, el, KeysOf(at, el))
    BY ONLY <1>1, Exact(mode, ix, D, at), D \subseteq Node, UnlistedFacts
  <2>. QED
    BY ONLY <2>1, Zenon DEF AllBut
<1>3. \A key \in Key : Listing(mode, D \ {el}, at, key) = Listing(mode, D, at, key) \ (IF key \in KeysOf(at, el) THEN {el} ELSE {})
  BY DEF Listing, With
<1>. QED
  BY ONLY <1>1, <1>2, <1>3, ExactIs

\* index_element_attached lists el and nothing else.
LEMMA ListOneExact ==
  ASSUME NEW k, NEW ix, NEW D, NEW at, Exact(mode, ix, D, at), NEW el \in Node, el \notin D,
         NEW jx \in Outcomes(ListedUnder(k, ix, el, KeysOf(at, el)))
  PROVE  Exact(mode, jx, D \cup {el}, at)
<1>1. \A key \in Key : ix[key] \in Seq(Node) /\ IsInjective(ix[key]) /\ ToSet(ix[key]) = Listing(mode, D, at, key)
  BY ExactList
<1>2. /\ jx = [key \in Key |-> jx[key]]
      /\ \A key \in Key : IF key \in KeysOf(at, el) \cap Maintained(mode) THEN Grown(Node, ix[key], {el}, jx[key])
                          ELSE jx[key] = ix[key]
  <2>1. AllWith(jx, ix, el, KeysOf(at, el))
    BY <1>1, ListedUnderFacts
  <2>. QED
    BY ONLY <2>1, Zenon DEF AllWith
<1>3. ASSUME NEW key \in Key
      PROVE  jx[key] \in Seq(Node) /\ IsInjective(jx[key]) /\ ToSet(jx[key]) = Listing(mode, D \cup {el}, at, key)
  <2>1. CASE key \in KeysOf(at, el) \cap Maintained(mode)
    <3>1. Grown(Node, ix[key], {el}, jx[key])
      BY ONLY <1>2, <2>1, key \in Key
    <3>2. el \notin Listing(mode, D, at, key)
      BY DEF Listing, With
    <3>3. Listing(mode, D \cup {el}, at, key) = Listing(mode, D, at, key) \cup {el}
      BY ONLY <2>1 DEF Listing, With
    <3>. QED
      BY ONLY <1>1, <3>1, <3>2, <3>3, key \in Key DEF Grown
  <2>2. CASE key \notin KeysOf(at, el) \cap Maintained(mode)
    <3>1. jx[key] = ix[key]
      BY ONLY <1>2, <2>2, key \in Key
    <3>2. Listing(mode, D \cup {el}, at, key) = Listing(mode, D, at, key)
      BY ONLY <2>2 DEF Listing, With
    <3>. QED
      BY ONLY <1>1, <3>1, <3>2, key \in Key
  <2>. QED
    BY <2>1, <2>2
<1>. QED
  BY ONLY <1>2, <1>3, ExactIs

\* A write to the id, or to the class, of one element.
Family(F) == F = IdKey \/ F = ClassKey

\* The attributes bt are at, with the keys new for el in the family F.
Written(at, bt, F, el, new) ==
  bt[el] = (at[el] \ F) \cup new /\ \A x \in Element : x # el => bt[x] = at[x]

\* The keys of el differ in the family F, and no other keys do.
Rekeyed(at, bt, F, el, new) ==
  \A key :
    /\ key \in F => (key \in KeysOf(bt, el) <=> key \in new) /\ (key \in KeysOf(at, el) <=> key \in at[el])
    /\ key \notin F => (key \in KeysOf(bt, el) <=> key \in KeysOf(at, el))
    /\ \A x \in Element : x # el => KeysOf(bt, x) = KeysOf(at, x)

\* An attribute write changes the keys of one family of one element.
LEMMA WriteKeys ==
  ASSUME NEW F, Family(F), NEW el \in Element, NEW new \in SUBSET F, NEW at, NEW bt, Written(at, bt, F, el, new)
  PROVE  Rekeyed(at, bt, F, el, new)
<1>1. Tag[el] \notin F /\ AnyTag \notin F
  BY QueryIndexAssumption DEF Family
<1>2. PICK old : old = at[el]
  OBVIOUS
<1>3. bt[el] = (old \ F) \cup new /\ \A x \in Element : x # el => bt[x] = at[x]
  BY <1>2 DEF Written
<1>. QED
  BY <1>1, <1>2, <1>3 DEF KeysOf, Rekeyed

\* The two halves of an attribute write leave the index exact.
LEMMA WriteExact ==
  ASSUME NEW k, NEW ix, NEW D, NEW at, NEW bt, Exact(mode, ix, D, at), D \subseteq Element,
         NEW F, Family(F), NEW el \in Element, NEW new \in SUBSET F,
         bt[el] = (at[el] \ F) \cup new, \A x \in Element : x # el => bt[x] = at[x],
         NEW ux, ux = UnlistedUnder(ix, el, at[el] \cap F),
         NEW jx, IF el \in D THEN jx \in Outcomes(ListedUnder(k, ux, el, new)) ELSE jx = ux
  PROVE  Exact(mode, jx, D, bt)
<1>0. el \in Node /\ D \subseteq Node
  BY DEF Element
<1>1. /\ ux = [key \in Key |-> ux[key]]
      /\ \A key \in Key : /\ ux[key] \in Seq(Node) /\ IsInjective(ux[key])
                          /\ ToSet(ux[key]) = Listing(mode, D, at, key) \ (IF key \in at[el] \cap F THEN {el} ELSE {})
  <2>1. AllBut(ux, D, at, el, at[el] \cap F)
    BY ONLY <1>0, Exact(mode, ix, D, at), ux = UnlistedUnder(ix, el, at[el] \cap F), UnlistedFacts
  <2>. QED
    BY ONLY <2>1, Zenon DEF AllBut
<1>2. \A key : /\ key \in F => (key \in KeysOf(bt, el) <=> key \in new) /\ (key \in KeysOf(at, el) <=> key \in at[el])
               /\ key \notin F => (key \in KeysOf(bt, el) <=> key \in KeysOf(at, el))
               /\ \A x \in Element : x # el => KeysOf(bt, x) = KeysOf(at, x)
  <2>1. Written(at, bt, F, el, new)
    BY DEF Written
  <2>2. Rekeyed(at, bt, F, el, new)
    BY ONLY Family(F), el \in Element, new \in SUBSET F, <2>1, WriteKeys
  <2>. QED
    BY ONLY <2>2, Zenon DEF Rekeyed
<1>3. CASE el \notin D
  <2>1. \A key \in Key : Listing(mode, D, bt, key) = Listing(mode, D, at, key) \ (IF key \in at[el] \cap F THEN {el} ELSE {})
    BY ONLY <1>2, <1>3, D \subseteq Element DEF Listing, With
  <2>2. jx = ux
    BY <1>3
  <2>. QED
    BY ONLY <1>1, <2>1, <2>2, ExactIs
<1>4. CASE el \in D
  <2>1. jx \in Outcomes(ListedUnder(k, ux, el, new)) /\ \A key \in Key : ux[key] \in Seq(Node)
    BY <1>1, <1>4
  <2>2. /\ jx = [key \in Key |-> jx[key]]
        /\ \A key \in Key : IF key \in new \cap Maintained(mode) THEN Grown(Node, ux[key], {el}, jx[key])
                            ELSE jx[key] = ux[key]
    <3>1. AllWith(jx, ux, el, new)
      BY ONLY <1>0, <2>1, ListedUnderFacts
    <3>. QED
      BY ONLY <3>1, Zenon DEF AllWith
  <2>3. ASSUME NEW key \in Key
        PROVE  jx[key] \in Seq(Node) /\ IsInjective(jx[key]) /\ ToSet(jx[key]) = Listing(mode, D, bt, key)
    <3>1. CASE key \in new \cap Maintained(mode)
      <4>1. Grown(Node, ux[key], {el}, jx[key])
        BY ONLY <2>2, <3>1, key \in Key
      <4>2. ToSet(ux[key]) = Listing(mode, D, at, key) \ (IF key \in at[el] \cap F THEN {el} ELSE {})
        BY ONLY <1>1, key \in Key
      <4>3. el \notin ToSet(ux[key])
        <5>1. key \in F
          BY ONLY <3>1, new \in SUBSET F
        <5>2. el \in Listing(mode, D, at, key) => key \in at[el]
          BY ONLY <1>2, <5>1 DEF Listing, With
        <5>. QED
          BY ONLY <4>2, <5>1, <5>2
      <4>4. Listing(mode, D, bt, key) = ToSet(ux[key]) \cup {el}
        <5>1. key \in F /\ key \in Maintained(mode) /\ key \in KeysOf(bt, el)
          BY ONLY <1>2, <3>1, new \in SUBSET F
        <5>2. \A x \in D : x # el => (key \in KeysOf(bt, x) <=> key \in KeysOf(at, x))
          BY ONLY <1>2, D \subseteq Element
        <5>. QED
          BY ONLY <1>4, <4>2, <5>1, <5>2 DEF Listing, With
      <4>. QED
        BY ONLY <1>1, <4>1, <4>3, <4>4, key \in Key DEF Grown
    <3>2. CASE key \notin new \cap Maintained(mode)
      <4>1. jx[key] = ux[key]
        BY ONLY <2>2, <3>2, key \in Key
      <4>2. Listing(mode, D, bt, key) = Listing(mode, D, at, key) \ (IF key \in at[el] \cap F THEN {el} ELSE {})
        <5>1. CASE key \notin Maintained(mode)
          BY ONLY <5>1 DEF Listing
        <5>2. CASE key \in Maintained(mode)
          <6>1. key \notin new
            BY ONLY <3>2, <5>2
          <6>2. \A x \in D : key \in KeysOf(bt, x) <=> key \in KeysOf(at, x) /\ ~ (x = el /\ key \in at[el] \cap F)
            BY ONLY <1>2, <6>1, D \subseteq Element
          <6>. QED
            BY ONLY <5>2, <6>2 DEF Listing, With
        <5>. QED
          BY <5>1, <5>2
      <4>. QED
        BY ONLY <1>1, <4>1, <4>2, key \in Key
    <3>. QED
      BY <3>1, <3>2
  <2>. QED
    BY ONLY <2>2, <2>3, ExactIs
<1>. QED
  BY <1>3, <1>4

\* set_attribute and remove_attribute keep the invariant.
LEMMA WriteAttributeKeeps ==
  ASSUME Inv, NEW el \in Element, NEW F, Family(F), NEW new \in SUBSET F, WriteAttribute(el, F, new)
  PROVE  Inv'
<1>1. PICK at : at = [attrs EXCEPT ![el] = (@ \ F) \cup new]
  OBVIOUS
<1>2. PICK ux : ux = UnlistedUnder(index, el, attrs[el] \cap F)
  OBVIOUS
<1>3. /\ at[el] \in Attributes /\ attrs' = at
      /\ IF InDocument(kids, el) THEN index' \in Outcomes(ListedUnder(kids, ux, el, new)) ELSE index' = ux
      /\ UNCHANGED <<kids, live, defined, mode>>
  BY ONLY <1>1, <1>2, WriteAttribute(el, F, new), Zenon DEF WriteAttribute
<1>4. /\ Sound(kids, live) /\ attrs \in [Element -> Attributes] /\ defined \in BOOLEAN
      /\ mode \in {"Off", "IdOnly", "Full"} /\ Exact(mode, index, Present(kids), attrs)
  BY InvFacts
<1>5. Present(kids) \subseteq Element
  BY <1>4, PresentFacts
<1>6. at[el] = (attrs[el] \ F) \cup new /\ at \in [Element -> Attributes] /\ \A x \in Element : x # el => at[x] = attrs[x]
  <2>. HIDE DEF Attributes
  <2>. QED
    BY ONLY <1>1, <1>3, <1>4, el \in Element
<1>7. InDocument(kids, el) <=> el \in Present(kids)
  <2>1. InDocument(kids, el) <=> el \in Sub(kids, Root)
    BY InvFacts, InsideIs, QueryIndexAssumption DEF InDocument
  <2>. QED
    BY <2>1 DEF Present, Element
<1>8. IF el \in Present(kids) THEN index' \in Outcomes(ListedUnder(kids, ux, el, new)) ELSE index' = ux
  BY ONLY <1>3, <1>7
<1>9. Exact(mode, index', Present(kids), at)
  BY ONLY <1>2, <1>4, <1>5, <1>6, <1>8, Family(F), el \in Element, new \in SUBSET F, WriteExact
<1>. QED
  BY ONLY <1>3, <1>4, <1>6, <1>9 DEF Inv

-----------------------------------------------------------------------------
(***************************************************************************)
(* An upgrade: new takes the place and the children of old.                *)
(***************************************************************************)
LEMMA RenameFacts ==
  ASSUME NEW s \in Seq(Node), IsInjective(s), NEW old \in ToSet(s), NEW new \in Node, new \notin ToSet(s),
         NEW t, t = [i \in DOMAIN s |-> IF s[i] = old THEN new ELSE s[i]]
  PROVE  t \in Seq(Node) /\ IsInjective(t) /\ ToSet(t) = (ToSet(s) \ {old}) \cup {new}
<1>1. PICK n \in Nat : n = Len(s) /\ DOMAIN s = 1 .. n
  OBVIOUS
<1>2. (\A i \in 1 .. n : s[i] \in Node) /\ ToSet(s) = {s[i] : i \in 1 .. n}
  BY <1>1 DEF ToSet
<1>3. \A i, j \in 1 .. n : s[i] = s[j] => i = j
  BY <1>1 DEF IsInjective
<1>4. t \in [1 .. n -> Node] /\ DOMAIN t = 1 .. n /\ \A i \in 1 .. n : t[i] = IF s[i] = old THEN new ELSE s[i]
  BY <1>1, <1>2
<1>5. t \in Seq(Node)
  <2>1. \A f \in [1 .. n -> Node] : f \in Seq(Node)
    OBVIOUS
  <2>. QED
    BY ONLY <1>4, <2>1
<1>6. \A i \in 1 .. n : s[i] # new
  BY ONLY <1>2, new \notin ToSet(s)
<1>7. IsInjective(t)
  <2>1. \A i, j \in 1 .. n : t[i] = t[j] => i = j
    BY ONLY <1>3, <1>4, <1>6
  <2>. QED
    BY ONLY <1>4, <2>1 DEF IsInjective
<1>8. ToSet(t) = {t[i] : i \in 1 .. n}
  BY ONLY <1>4 DEF ToSet
<1>9. ToSet(t) = (ToSet(s) \ {old}) \cup {new}
  <2>1. PICK i \in 1 .. n : s[i] = old
    BY ONLY <1>2, old \in ToSet(s)
  <2>. QED
    BY ONLY <1>2, <1>4, <1>8, <2>1
<1>. QED
  BY <1>5, <1>7, <1>9

Renamed(k, k2, p, old, new) ==
  /\ p \in Node /\ old \in ToSet(k[p]) /\ p # old /\ p # new /\ old # new
  /\ k2 \in [Node -> Seq(Node)] /\ \A m \in Node : IsInjective(k2[m])
  /\ ToSet(k2[new]) = ToSet(k[old]) /\ ToSet(k2[old]) = {}
  /\ ToSet(k2[p]) = (ToSet(k[p]) \ {old}) \cup {new}
  /\ \A m \in Node \ {new, old, p} : ToSet(k2[m]) = ToSet(k[m])

\* What the document becomes when new replaces old under p.
LEMMA RenamedFacts ==
  ASSUME NEW k, NEW lv, Sound(k, lv), NEW old \in Present(k), NEW new \in Element \ lv, NEW p, p = Owner(k, old),
         NEW k2, k2 = RenamedIn(k, p, old, new)
  PROVE  Renamed(k, k2, p, old, new)
<1>0. /\ k \in [Node -> Seq(Node)] /\ Grounded(k) /\ SingleOwner(k) /\ Forest(k) /\ Root \in Node
      /\ \A n \in Node : ToSet(k[n]) \subseteq lv \cap Element
  BY SoundFacts
<1>1. old \in Sub(k, Root) /\ old # Root /\ old \in lv /\ old \in Element /\ new \in Node /\ old \in Node /\ new \in Element
  BY PresentFacts DEF Present, Element
<1>2. PICK q \in Node : old \in ToSet(k[q])
  <2>1. Sub(k, Root) \subseteq Node
    BY <1>0, SubUnfolds
  <2>. QED
    BY <1>0, <1>1, <2>1, SubOwner
<1>3. p \in Node /\ old \in ToSet(k[p])
  BY <1>2, Zenon DEF Owner, ChildOf
<1>4. p # old
  <2>1. p \notin Sub(k, old) /\ old \in Sub(k, old)
    BY <1>0, <1>1, <1>3, NoCycle, SubUnfolds
  <2>. QED
    BY <2>1
<1>5. p # new
  <2>1. k[new] = <<>> /\ ToSet(<<>>) = {}
    BY <1>1, FreshFacts DEF ToSet
  <2>. QED
    BY <1>3, <2>1
<1>6. old # new
  BY <1>1
<1>7. PICK s \in Seq(Node) : s = k[p]
  BY <1>0, <1>3
<1>8. PICK t : t = [i \in DOMAIN s |-> IF s[i] = old THEN new ELSE s[i]]
  OBVIOUS
<1>9. t \in Seq(Node) /\ IsInjective(t) /\ ToSet(t) = (ToSet(k[p]) \ {old}) \cup {new}
  <2>1. IsInjective(s) /\ old \in ToSet(s) /\ new \notin ToSet(s)
    <3>1. new \notin ToSet(k[p])
      BY <1>0, <1>3
    <3>. QED
      BY ONLY <1>0, <1>3, <1>7, <3>1 DEF SingleOwner
  <2>2. t \in Seq(Node) /\ IsInjective(t) /\ ToSet(t) = (ToSet(s) \ {old}) \cup {new}
    BY ONLY <1>1, <1>8, <2>1, s \in Seq(Node), RenameFacts
  <2>. QED
    BY ONLY <1>7, <2>2
<1>10. k2 = [n \in Node |-> IF n = new THEN k[old] ELSE IF n = old THEN <<>> ELSE IF n = p THEN t ELSE k[n]]
  <2>1. t = [i \in DOMAIN k[p] |-> IF k[p][i] = old THEN new ELSE k[p][i]]
    BY ONLY <1>7, <1>8
  <2>2. k2 = [n \in Node |-> CASE n = new -> k[old] [] n = old -> <<>> [] n = p -> t [] OTHER -> k[n]]
    BY ONLY <2>1, k2 = RenamedIn(k, p, old, new) DEF RenamedIn
  <2>3. k2 = [n \in Node |-> k2[n]]
    BY ONLY <2>2
  <2>4. ASSUME NEW n \in Node
        PROVE  k2[n] = IF n = new THEN k[old] ELSE IF n = old THEN <<>> ELSE IF n = p THEN t ELSE k[n]
    BY ONLY <1>4, <1>5, <1>6, <2>2, n \in Node
  <2>. QED
    BY ONLY <2>3, <2>4
<1>11. <<>> \in Seq(Node) /\ IsInjective(<<>>) /\ ToSet(<<>>) = {}
  BY DEF IsInjective, ToSet
<1>12. \A m \in Node : k[m] \in Seq(Node) /\ IsInjective(k[m])
  BY ONLY <1>0 DEF SingleOwner
<1>13. \A m \in Node : k2[m] = IF m = new THEN k[old] ELSE IF m = old THEN <<>> ELSE IF m = p THEN t ELSE k[m]
  BY ONLY <1>10
<1>14. \A m \in Node : k2[m] \in Seq(Node) /\ IsInjective(k2[m])
  BY ONLY <1>1, <1>9, <1>11, <1>12, <1>13
<1>15. k2 \in [Node -> Seq(Node)]
  <2>1. k2 = [m \in Node |-> k2[m]]
    BY ONLY <1>10
  <2>. QED
    BY ONLY <1>14, <2>1
<1>16. /\ k2[new] = k[old] /\ k2[old] = <<>> /\ k2[p] = t
       /\ \A m \in Node \ {new, old, p} : k2[m] = k[m]
  BY ONLY <1>1, <1>3, <1>4, <1>5, <1>6, <1>13
<1>17. /\ ToSet(k2[new]) = ToSet(k[old]) /\ ToSet(k2[old]) = {}
       /\ ToSet(k2[p]) = (ToSet(k[p]) \ {old}) \cup {new}
       /\ \A m \in Node \ {new, old, p} : ToSet(k2[m]) = ToSet(k[m])
  BY ONLY <1>9, <1>11, <1>16
<1>. QED
  BY ONLY <1>3, <1>4, <1>5, <1>6, <1>14, <1>15, <1>17 DEF Renamed

\* It is a forest.
LEMMA RenamedForest ==
  ASSUME NEW k, NEW lv, Sound(k, lv), NEW old \in Present(k), NEW new \in Element \ lv, NEW p, NEW k2,
         Renamed(k, k2, p, old, new)
  PROVE  Forest(k2)
<1>0. /\ k \in [Node -> Seq(Node)] /\ Grounded(k) /\ SingleOwner(k)
      /\ \A n \in Node : ToSet(k[n]) \subseteq lv \cap Element
  BY SoundFacts
<1>1. old \in Node /\ new \in Node /\ old \in lv /\ new \notin lv
  BY PresentFacts DEF Element
<1>2. \A m \in Node : new \notin ToSet(k[m])
  BY <1>0, <1>1
<1>3. /\ p \in Node /\ old \in ToSet(k[p]) /\ p # old /\ p # new /\ old # new
      /\ k2 \in [Node -> Seq(Node)] /\ \A m \in Node : IsInjective(k2[m])
      /\ ToSet(k2[new]) = ToSet(k[old]) /\ ToSet(k2[old]) = {}
      /\ ToSet(k2[p]) = (ToSet(k[p]) \ {old}) \cup {new}
      /\ \A m \in Node \ {new, old, p} : ToSet(k2[m]) = ToSet(k[m])
  BY DEF Renamed
<1>4. ASSUME NEW S \in SUBSET Node, S # {} PROVE \E n \in S : ToSet(k2[n]) \cap S = {}
  <2>1. CASE old \in S
    BY <1>3, <2>1
  <2>2. CASE old \notin S /\ new \in S
    <3>. DEFINE T == (S \ {new}) \cup {old}
    <3>1. PICK n \in T : ToSet(k[n]) \cap T = {}
      <4>1. T \in SUBSET Node /\ T # {}
        BY <1>1
      <4>. QED
        BY <1>0, <4>1 DEF Grounded
    <3>2. CASE n = old
      <4>1. ToSet(k2[new]) \cap S = {}
        BY <1>1, <1>2, <1>3, <3>1, <3>2
      <4>. QED
        BY <2>2, <4>1
    <3>3. CASE n # old
      <4>1. n \in S /\ n # new /\ n \in Node
        BY <3>3
      <4>2. n # p
        BY <1>3, <3>1
      <4>3. ToSet(k2[n]) \cap S = {}
        BY <1>2, <1>3, <3>1, <3>3, <4>1, <4>2
      <4>. QED
        BY <4>1, <4>3
    <3>. QED
      BY <3>2, <3>3
  <2>3. CASE old \notin S /\ new \notin S
    <3>1. PICK n \in S : ToSet(k[n]) \cap S = {}
      BY <1>0, <1>4 DEF Grounded
    <3>2. ToSet(k2[n]) \subseteq ToSet(k[n]) \cup {new}
      BY <1>3, <2>3
    <3>. QED
      BY <2>3, <3>1, <3>2
  <2>. QED
    BY <2>1, <2>2, <2>3
<1>5. Grounded(k2)
  BY <1>4 DEF Grounded
<1>6. \A m, n \in Node : m # n => ToSet(k[m]) \cap ToSet(k[n]) = {}
  BY <1>0 DEF SingleOwner
<1>a. ASSUME NEW m \in Node, NEW e \in ToSet(k2[m])
      PROVE  /\ m # old /\ (e = new => m = p)
             /\ e # new => e \in ToSet(k[IF m = new THEN old ELSE m])
  <2>1. m # old
    BY <1>3
  <2>2. CASE m = new
    BY <1>1, <1>2, <1>3, <2>2
  <2>3. CASE m = p
    BY <1>3, <2>3
  <2>4. CASE m # new /\ m # p
    BY <1>2, <1>3, <2>1, <2>4
  <2>. QED
    BY <2>1, <2>2, <2>3, <2>4
<1>7. ASSUME NEW m \in Node, NEW n \in Node, m # n PROVE ToSet(k2[m]) \cap ToSet(k2[n]) = {}
  <2>. SUFFICES ASSUME NEW e, e \in ToSet(k2[m]), e \in ToSet(k2[n]) PROVE FALSE
    OBVIOUS
  <2>1. /\ m # old /\ (e = new => m = p) /\ (e # new => e \in ToSet(k[IF m = new THEN old ELSE m]))
        /\ n # old /\ (e = new => n = p) /\ (e # new => e \in ToSet(k[IF n = new THEN old ELSE n]))
    BY <1>a
  <2>2. (IF m = new THEN old ELSE m) = (IF n = new THEN old ELSE n) => m = n
    BY ONLY <2>1
  <2>3. PICK a \in Node : a = IF m = new THEN old ELSE m
    BY <1>1
  <2>4. PICK b \in Node : b = IF n = new THEN old ELSE n
    BY <1>1
  <2>5. e # new /\ a # b
    BY ONLY <1>7, <2>1, <2>2, <2>3, <2>4
  <2>6. e \in ToSet(k[a]) /\ e \in ToSet(k[b])
    BY ONLY <2>1, <2>3, <2>4, <2>5
  <2>. QED
    BY ONLY <1>6, <2>5, <2>6, a \in Node, b \in Node
<1>8. SingleOwner(k2)
  BY <1>3, <1>7 DEF SingleOwner
<1>. QED
  BY <1>3, <1>5, <1>8 DEF Forest

\* It is sound, and holds new instead of old.
LEMMA RenamedSound ==
  ASSUME NEW k, NEW lv, Sound(k, lv), NEW old \in Present(k), NEW new \in Element \ lv, NEW p, NEW k2,
         Renamed(k, k2, p, old, new)
  PROVE  Sound(k2, lv \cup {new}) /\ Present(k2) = (Present(k) \ {old}) \cup {new}
<1>0. /\ k \in [Node -> Seq(Node)] /\ Grounded(k) /\ SingleOwner(k) /\ Forest(k)
      /\ lv \subseteq Node /\ Root \in lv /\ Root \in Node
      /\ \A n \in Node : ToSet(k[n]) \subseteq lv \cap Element
  BY SoundFacts
<1>1. /\ old \in Node /\ new \in Node /\ old \in lv /\ new \notin lv /\ new \in Element
      /\ old \in Sub(k, Root) /\ old # Root /\ new # Root
  BY <1>0, PresentFacts DEF Element, Present
<1>3. /\ p \in Node /\ old \in ToSet(k[p]) /\ p # old /\ p # new /\ old # new
      /\ k2 \in [Node -> Seq(Node)]
      /\ ToSet(k2[new]) = ToSet(k[old]) /\ ToSet(k2[old]) = {}
      /\ ToSet(k2[p]) = (ToSet(k[p]) \ {old}) \cup {new}
      /\ \A m \in Node \ {new, old, p} : ToSet(k2[m]) = ToSet(k[m])
  BY DEF Renamed
<1>4. Forest(k2) /\ Grounded(k2)
  BY RenamedForest DEF Forest
<1>5. Sound(k2, lv \cup {new})
  <2>1. \A n \in Node : ToSet(k2[n]) \subseteq (lv \cup {new}) \cap Element
    <3>. TAKE n \in Node
    <3>1. ToSet(k2[n]) \subseteq ToSet(k[n]) \cup ToSet(k[old]) \cup {new}
      BY <1>3
    <3>. QED
      BY <1>0, <1>1, <3>1
  <2>2. \A n \in Node \ (lv \cup {new}) : ToSet(k2[n]) = {}
    <3>. TAKE n \in Node \ (lv \cup {new})
    <3>1. ToSet(k[n]) = {}
      BY DEF Sound, ToSet
    <3>2. n # new /\ n # old /\ n # p
      BY <1>1, <1>3, <3>1
    <3>. QED
      BY <1>3, <3>1, <3>2
  <2>. QED
    BY <1>0, <1>1, <1>4, <2>1, <2>2, SoundIs
<1>. DEFINE R == Sub(k, Root)  R2 == Sub(k2, Root)  W == (R \ {old}) \cup {new}
            S == {y \in R : IF y = old THEN new \in R2 ELSE y \in R2}
<1>6. R \subseteq Node /\ Root \in R /\ Closed(k, R)
  BY <1>0, SubUnfolds, SubClosed
<1>7. R2 \subseteq Node /\ Root \in R2 /\ Closed(k2, R2)
  BY <1>0, <1>3, <1>4, SubUnfolds, SubClosed
<1>8. \A m \in Node : old \in ToSet(k[m]) => m = p
  BY <1>0, <1>3 DEF SingleOwner
<1>9. ASSUME NEW m \in W PROVE ToSet(k2[m]) \subseteq W
  <2>1. CASE m = new
    <3>1. ToSet(k[old]) \subseteq R
      BY <1>1, <1>6 DEF Closed
    <3>2. old \notin ToSet(k[old])
      BY <1>1, <1>3, <1>8
    <3>. QED
      BY <1>3, <2>1, <3>1, <3>2
  <2>2. CASE m # new
    <3>1. m \in R /\ m # old /\ m \in Node /\ ToSet(k[m]) \subseteq R
      BY <1>6, <2>2 DEF Closed
    <3>2. CASE m = p
      BY <1>3, <3>1, <3>2
    <3>3. CASE m # p
      BY <1>3, <1>8, <2>2, <3>1, <3>3
    <3>. QED
      BY <3>2, <3>3
  <2>. QED
    BY <2>1, <2>2
<1>10. Closed(k2, W) /\ Root \in W
  BY <1>1, <1>6, <1>9 DEF Closed
<1>11. R2 \subseteq W
  <2>. HIDE DEF W
  <2>. QED
    BY <1>3, <1>4, <1>10, SubLeast
<1>12. ASSUME NEW y \in S, NEW d \in ToSet(k[y]) PROVE d \in S
  <2>1. d \in R /\ y \in Node
    BY <1>6 DEF Closed
  <2>2. CASE y = old
    <3>1. d # old
      BY <1>1, <1>3, <1>8, <2>2
    <3>2. new \in R2 /\ d \in ToSet(k2[new])
      BY <1>3, <2>2
    <3>3. d \in R2
      BY <1>7, <3>2 DEF Closed
    <3>. QED
      BY <2>1, <3>1, <3>3
  <2>3. CASE y # old
    <3>0. y \in R2 /\ y # new
      <4>1. ToSet(k[new]) = {}
        BY <1>1 DEF Sound, ToSet
      <4>. QED
        BY <2>3, <4>1
    <3>1. ToSet(k2[y]) \subseteq R2
      BY <1>7, <3>0 DEF Closed
    <3>2. CASE d = old
      <4>1. new \in ToSet(k2[y])
        BY <1>3, <1>8, <2>1, <3>2
      <4>. QED
        BY <2>1, <3>1, <3>2, <4>1
    <3>3. CASE d # old
      <4>1. d \in ToSet(k2[y])
        BY <1>3, <2>1, <2>3, <3>0, <3>3
      <4>. QED
        BY <2>1, <3>1, <3>3, <4>1
    <3>. QED
      BY <3>2, <3>3
  <2>. QED
    BY <2>2, <2>3
<1>13. Closed(k, S) /\ Root \in S
  BY <1>1, <1>6, <1>7, <1>12 DEF Closed
<1>14. R \subseteq S
  <2>. HIDE DEF S
  <2>. QED
    BY <1>0, <1>13, SubLeast
<1>15. R2 = W
  BY <1>1, <1>11, <1>14
<1>16. Present(k2) = (Present(k) \ {old}) \cup {new}
  BY <1>1, <1>15 DEF Present
<1>. QED
  BY <1>5, <1>16

-----------------------------------------------------------------------------
(***************************************************************************)
(* The loop of define_custom_element.                                      *)
(***************************************************************************)
Upgrading(s, lv) ==
  /\ Sound(s.kids, lv) /\ s.attrs \in [Element -> Attributes]
  /\ Exact(mode, s.index, Present(s.kids), s.attrs)

\* One upgrade keeps the tree sound and the index exact.
LEMMA UpgradeStep ==
  ASSUME NEW s, NEW lv, Upgrading(s, lv), NEW old \in Present(s.kids), NEW new \in Element \ lv,
         NEW u \in Upgraded(s, old, new)
  PROVE  Upgrading(u, lv \cup {new}) /\ Present(u.kids) = (Present(s.kids) \ {old}) \cup {new}
<1>1. PICK p : p = Owner(s.kids, old)
  OBVIOUS
<1>2. PICK k : k = RenamedIn(s.kids, p, old, new)
  OBVIOUS
<1>3. PICK at : at = [s.attrs EXCEPT ![new] = s.attrs[old]]
  OBVIOUS
<1>4. PICK ux : ux = UnlistedUnder(s.index, old, KeysOf(s.attrs, old))
  OBVIOUS
<1>5. u \in {[kids |-> k, attrs |-> at, index |-> i] : i \in Outcomes(ListedUnder(k, ux, new, KeysOf(at, new)))}
  BY ONLY <1>1, <1>2, <1>3, <1>4, u \in Upgraded(s, old, new) DEF Upgraded
<1>6. PICK i \in Outcomes(ListedUnder(k, ux, new, KeysOf(at, new))) : u = [kids |-> k, attrs |-> at, index |-> i]
  BY ONLY <1>5, Zenon
<1>7. u.kids = k /\ u.attrs = at /\ u.index = i
  BY ONLY <1>6
<1>8. Sound(s.kids, lv) /\ s.attrs \in [Element -> Attributes] /\ Exact(mode, s.index, Present(s.kids), s.attrs)
  BY DEF Upgrading
<1>9. Sound(k, lv \cup {new}) /\ Present(k) = (Present(s.kids) \ {old}) \cup {new}
  <2>1. PICK sk : sk = s.kids
    OBVIOUS
  <2>2. Sound(sk, lv) /\ old \in Present(sk) /\ p = Owner(sk, old) /\ k = RenamedIn(sk, p, old, new)
    BY ONLY <1>1, <1>2, <1>8, <2>1, old \in Present(s.kids)
  <2>3. Renamed(sk, k, p, old, new)
    BY ONLY <2>2, new \in Element \ lv, RenamedFacts
  <2>4. Sound(k, lv \cup {new}) /\ Present(k) = (Present(sk) \ {old}) \cup {new}
    BY ONLY <2>2, <2>3, new \in Element \ lv, RenamedSound
  <2>. QED
    BY ONLY <2>1, <2>4
<1>10. Present(s.kids) \subseteq lv \cap Element /\ Element \subseteq Node
  BY <1>8, PresentFacts DEF Element
<1>11. at \in [Element -> Attributes] /\ \A el \in Element : el # new => at[el] = s.attrs[el]
  <2>. HIDE DEF Attributes
  <2>. QED
    BY ONLY <1>3, <1>8, <1>10, old \in Present(s.kids), new \in Element \ lv
<1>. DEFINE D == Present(s.kids) \ {old}
<1>12. Exact(mode, ux, D, s.attrs)
  <2>1. Present(s.kids) \subseteq Node
    BY <1>10
  <2>. QED
    BY ONLY <1>4, <1>8, <2>1, UnlistExact
<1>13. new \notin D /\ new \in Node /\ \A el \in D : at[el] = s.attrs[el]
  BY <1>10, <1>11
<1>. HIDE DEF D
<1>14. Exact(mode, ux, D, at)
  BY ONLY <1>12, <1>13, ExactSame
<1>15. Exact(mode, i, D \cup {new}, at)
  BY ONLY <1>13, <1>14, i \in Outcomes(ListedUnder(k, ux, new, KeysOf(at, new))), ListOneExact
<1>16. Exact(mode, i, Present(k), at)
  BY ONLY <1>9, <1>15 DEF D
<1>. QED
  BY ONLY <1>7, <1>9, <1>11, <1>16 DEF Upgrading

\* s, a document of the nodes lv, becomes u when new replaces old in it.
Upgrade(s, lv, old, new, u) ==
  Upgrading(s, lv) /\ old \in Present(s.kids) /\ new \in Element \ lv /\ u \in Upgraded(s, old, new)

Replaced(s, lv, old, new, u) ==
  Upgrading(u, lv \cup {new}) /\ Present(u.kids) = (Present(s.kids) \ {old}) \cup {new}

\* The same, in terms of Upgrade and Replaced.
LEMMA UpgradeReplaces ==
  ASSUME NEW r, NEW had, NEW o, NEW w, NEW u, Upgrade(r, had, o, w, u)
  PROVE  Replaced(r, had, o, w, u)
<1>1. Upgrading(r, had) /\ o \in Present(r.kids) /\ w \in Element \ had /\ u \in Upgraded(r, o, w)
  BY DEF Upgrade
<1>2. Upgrading(u, had \cup {w}) /\ Present(u.kids) = (Present(r.kids) \ {o}) \cup {w}
  BY <1>1, UpgradeStep
<1>. QED
  BY ONLY <1>2 DEF Replaced

IsUpgrades(base, old, fresh, len, f) ==
  f = [n \in 0 .. len |-> IF n = 0 THEN {base} ELSE UNION {Upgraded(s, old[n], fresh[n]) : s \in f[n - 1]}]

\* The recursive function that Upgrades names exists.
LEMMA UpgradesExist ==
  ASSUME NEW base, NEW old, NEW fresh, NEW len \in Nat
  PROVE  \E f : IsUpgrades(base, old, fresh, len, f)
<1>. DEFINE T == {j \in Nat : \E f : IsUpgrades(base, old, fresh, j, f)}
<1>1. 0 \in T
  <2>. DEFINE f == [n \in 0 .. 0 |-> {base}]
  <2>1. f = [n \in 0 .. 0 |-> IF n = 0 THEN {base} ELSE UNION {Upgraded(s, old[n], fresh[n]) : s \in f[n - 1]}]
    BY \A n \in 0 .. 0 : n = 0
  <2>2. IsUpgrades(base, old, fresh, 0, f)
    BY <2>1, Zenon DEF IsUpgrades
  <2>. QED
    BY <2>2
<1>2. ASSUME NEW j \in T PROVE j + 1 \in T
  <2>1. PICK f : IsUpgrades(base, old, fresh, j, f)
    OBVIOUS
  <2>2. f = [n \in 0 .. j |-> IF n = 0 THEN {base} ELSE UNION {Upgraded(s, old[n], fresh[n]) : s \in f[n - 1]}]
    BY <2>1, Zenon DEF IsUpgrades
  <2>. DEFINE Add(n) == UNION {Upgraded(s, old[n], fresh[n]) : s \in f[n - 1]}
              g == [n \in 0 .. j + 1 |-> IF n <= j THEN f[n] ELSE Add(n)]
  <2>3. ASSUME NEW n \in 0 .. j + 1, n # 0 PROVE n - 1 \in 0 .. j
    BY <2>3
  <2>4. \A n \in 0 .. j + 1 : n # 0 => g[n - 1] = f[n - 1]
    <3>. HIDE DEF Add
    <3>. QED
      BY <2>3
  <2>5. \A n \in 0 .. j + 1 : n <= j => f[n] = IF n = 0 THEN {base} ELSE Add(n)
    <3>1. \A n \in 0 .. j : f[n] = IF n = 0 THEN {base} ELSE Add(n)
      BY <2>2, Zenon
    <3>2. \A n \in 0 .. j + 1 : n <= j => n \in 0 .. j
      OBVIOUS
    <3>. QED
      BY <3>1, <3>2
  <2>6. \A n \in 0 .. j + 1 : g[n] = IF n = 0 THEN {base} ELSE Add(n)
    <3>. HIDE DEF Add
    <3>. QED
      BY <2>5
  <2>7. \A n \in 0 .. j + 1 : n # 0 => Add(n) = UNION {Upgraded(s, old[n], fresh[n]) : s \in g[n - 1]}
    BY <2>4, Zenon
  <2>8. \A n \in 0 .. j + 1 :
          g[n] = IF n = 0 THEN {base} ELSE UNION {Upgraded(s, old[n], fresh[n]) : s \in g[n - 1]}
    <3>. HIDE DEF g, Add
    <3>. QED
      BY <2>6, <2>7, Zenon
  <2>9. g = [n \in 0 .. j + 1 |-> g[n]]
    OBVIOUS
  <2>10. IsUpgrades(base, old, fresh, j + 1, g)
    <3>. HIDE DEF g
    <3>. QED
      BY <2>8, <2>9, Zenon DEF IsUpgrades
  <2>. QED
    BY <2>10
<1>3. T = Nat
  <2>. HIDE DEF T
  <2>1. T \in SUBSET Nat
    BY DEF T
  <2>. QED
    BY <1>1, <1>2, <2>1, SetInduction
<1>. QED
  BY <1>3

\* The entries of an injective list up to the n-th, and the next.
LEMMA FirstsNext ==
  ASSUME NEW s, IsInjective(s), NEW len \in Nat, DOMAIN s = 1 .. len, NEW n \in Nat, n + 1 <= len
  PROVE  /\ Firsts(s, n + 1) = Firsts(s, n) \cup {s[n + 1]} /\ s[n + 1] \notin Firsts(s, n)
         /\ s[n + 1] \in ToSet(s) /\ Firsts(s, n) \subseteq ToSet(s)
<1>1. /\ n + 1 \in 1 .. len /\ (\A i \in 1 .. n + 1 : i \in 1 .. n \/ i = n + 1)
      /\ \A i \in 1 .. n : i \in 1 .. n + 1 /\ i \in 1 .. len /\ i # n + 1
  OBVIOUS
<1>2. n + 1 \in 1 .. n + 1
  OBVIOUS
<1>3. \A i, j \in 1 .. len : s[i] = s[j] => i = j
  BY DEF IsInjective
<1>. QED
  BY ONLY <1>1, <1>2, <1>3, DOMAIN s = 1 .. len DEF Firsts, ToSet

Through(s, old, fresh, n) ==
  /\ Upgrading(s, live \cup Firsts(fresh, n))
  /\ Present(s.kids) = (Present(kids) \ Firsts(old, n)) \cup Firsts(fresh, n)

\* Each round of the loop keeps the tree sound and the index exact.
LEMMA UpgradesKeep ==
  ASSUME Inv, NEW old \in Seq(Node), IsInjective(old), ToSet(old) \subseteq Present(kids),
         NEW fresh, Fresh(live, fresh), Len(fresh) = Len(old), NEW len, len = Len(old),
         NEW f, IsUpgrades([kids |-> kids, attrs |-> attrs, index |-> index], old, fresh, len, f)
  PROVE  \A s \in f[len] : Through(s, old, fresh, len)
<1>. DEFINE base == [kids |-> kids, attrs |-> attrs, index |-> index]
<1>1. \A n \in 0 .. len : f[n] = IF n = 0 THEN {base} ELSE UNION {Upgraded(s, old[n], fresh[n]) : s \in f[n - 1]}
  BY Zenon DEF IsUpgrades
<1>2. /\ len \in Nat /\ DOMAIN old = 1 .. len /\ DOMAIN fresh = 1 .. len
      /\ IsInjective(fresh) /\ ToSet(fresh) \subseteq Element /\ ToSet(fresh) \cap live = {}
  <2>1. fresh \in Seq(Node) /\ IsInjective(fresh) /\ ToSet(fresh) \subseteq Element /\ ToSet(fresh) \subseteq Node \ live
    BY FreshTyped
  <2>. QED
    BY <2>1
<1>3. /\ Sound(kids, live) /\ attrs \in [Element -> Attributes]
      /\ Exact(mode, index, Present(kids), attrs)
  BY InvFacts
<1>4. Present(kids) \subseteq live
  BY <1>3, PresentFacts
<1>. DEFINE T == {n \in Nat : n <= len => \A s \in f[n] : Through(s, old, fresh, n)}
<1>5. 0 \in T
  <2>1. f[0] = {base}
    <3>1. 0 \in 0 .. len
      BY <1>2
    <3>. QED
      BY ONLY <1>1, <3>1, Zenon
  <2>2. Firsts(old, 0) = {} /\ Firsts(fresh, 0) = {}
    BY DEF Firsts
  <2>3. base.kids = kids /\ base.attrs = attrs /\ base.index = index
    OBVIOUS
  <2>. HIDE DEF base
  <2>4. Through(base, old, fresh, 0)
    BY ONLY <1>3, <2>2, <2>3 DEF Through, Upgrading
  <2>. QED
    BY <2>1, <2>4
<1>6. ASSUME NEW n \in T PROVE n + 1 \in T
  <2>. SUFFICES ASSUME n + 1 <= len, NEW u \in f[n + 1] PROVE Through(u, old, fresh, n + 1)
    OBVIOUS
  <2>1. n \in Nat /\ n <= len /\ n + 1 \in 0 .. len /\ n + 1 # 0 /\ (n + 1) - 1 = n
    BY <1>2
  <2>2. f[n + 1] = UNION {Upgraded(s, old[n + 1], fresh[n + 1]) : s \in f[n]}
    BY ONLY <1>1, <2>1
  <2>3. PICK s \in f[n] : u \in Upgraded(s, old[n + 1], fresh[n + 1])
    BY <2>2
  <2>4. Through(s, old, fresh, n)
    BY <2>1, <2>3
  <2>. DEFINE had == live \cup Firsts(fresh, n)
  <2>5. /\ Firsts(old, n + 1) = Firsts(old, n) \cup {old[n + 1]} /\ old[n + 1] \notin Firsts(old, n)
        /\ old[n + 1] \in ToSet(old)
    BY ONLY <1>2, <2>1, n + 1 <= len, IsInjective(old), FirstsNext
  <2>6. /\ Firsts(fresh, n + 1) = Firsts(fresh, n) \cup {fresh[n + 1]} /\ fresh[n + 1] \notin Firsts(fresh, n)
        /\ fresh[n + 1] \in ToSet(fresh) /\ Firsts(fresh, n) \subseteq ToSet(fresh)
    BY ONLY <1>2, <2>1, n + 1 <= len, FirstsNext
  <2>7. Upgrading(s, had) /\ Present(s.kids) = (Present(kids) \ Firsts(old, n)) \cup Firsts(fresh, n)
    BY <2>4 DEF Through
  <2>8. old[n + 1] \in Present(s.kids) /\ old[n + 1] \in live
    BY <1>4, <2>5, <2>7
  <2>9. fresh[n + 1] \in Element \ had
    BY <1>2, <2>6
  <2>. HIDE DEF had
  <2>10. /\ Upgrading(u, had \cup {fresh[n + 1]})
         /\ Present(u.kids) = (Present(s.kids) \ {old[n + 1]}) \cup {fresh[n + 1]}
    <3>1. PICK o, w, v : o = old[n + 1] /\ w = fresh[n + 1] /\ v = had
      OBVIOUS
    <3>2. Upgrade(s, v, o, w, u)
      BY ONLY <2>3, <2>7, <2>8, <2>9, <3>1 DEF Upgrade
    <3>3. Replaced(s, v, o, w, u)
      BY ONLY <3>2, UpgradeReplaces
    <3>. QED
      BY ONLY <3>1, <3>3 DEF Replaced
  <2>11. had \cup {fresh[n + 1]} = live \cup Firsts(fresh, n + 1)
    BY <2>6 DEF had
  <2>12. Present(u.kids) = (Present(kids) \ Firsts(old, n + 1)) \cup Firsts(fresh, n + 1)
    BY ONLY <1>2, <2>5, <2>6, <2>7, <2>8, <2>10
  <2>. QED
    BY ONLY <2>10, <2>11, <2>12 DEF Through
<1>7. T = Nat
  <2>. HIDE DEF T
  <2>1. T \in SUBSET Nat
    BY DEF T
  <2>. QED
    BY <1>5, <1>6, <2>1, SetInduction
<1>8. len \in T
  BY <1>2, <1>7
<1>. QED
  BY <1>2, <1>8

\* define_custom_element keeps the invariant.
LEMMA DefineKeeps ==
  ASSUME Inv, NEW fresh \in Chains, Define(fresh)
  PROVE  Inv'
<1>. DEFINE base == [kids |-> kids, attrs |-> attrs, index |-> index]
<1>1. PICK old : old = Keeping(Below(kids, Root), {n \in Element : Tag[n] = Defined})
  OBVIOUS
<1>2. PICK len : len = Len(old)
  OBVIOUS
<1>3. /\ Len(fresh) = len /\ defined' = TRUE /\ live' = live \cup ToSet(fresh) /\ mode' = mode
      /\ \E s \in Upgrades(base, old, fresh) : kids' = s.kids /\ attrs' = s.attrs /\ index' = s.index
  BY ONLY <1>1, <1>2, Define(fresh), Zenon DEF Define
<1>4. old \in Seq(Node) /\ IsInjective(old) /\ ToSet(old) \subseteq Present(kids) /\ len \in Nat
  <2>1. PICK b : b = Below(kids, Root)
    OBVIOUS
  <2>2. b \in Seq(Node) /\ IsInjective(b) /\ ToSet(b) = Present(kids)
    BY <2>1, InvFacts, PresentListed DEF BelowIs
  <2>3. PICK S : S = {n \in Element : Tag[n] = Defined}
    OBVIOUS
  <2>4. old = Keeping(b, S)
    BY ONLY <1>1, <2>1, <2>3
  <2>5. /\ Keeping(b, S) \in Seq(Node) /\ ToSet(Keeping(b, S)) = ToSet(b) \cap S
        /\ IsInjective(b) => IsInjective(Keeping(b, S))
    BY ONLY <2>2, KeepingFacts
  <2>6. old \in Seq(Node) /\ IsInjective(old) /\ ToSet(old) \subseteq Present(kids)
    BY ONLY <2>2, <2>4, <2>5
  <2>. QED
    BY ONLY <1>2, <2>6
<1>5. Fresh(live, fresh)
  BY ChainsFresh
<1>. DEFINE f == CHOOSE f : IsUpgrades(base, old, fresh, Len(old), f)
<1>6. IsUpgrades(base, old, fresh, len, f)
  BY ONLY <1>2, <1>4, UpgradesExist, Zenon
<1>6a. Upgrades(base, old, fresh) = f[len]
  BY ONLY <1>2, Zenon DEF Upgrades, IsUpgrades
<1>. HIDE DEF f
<1>7. \A s \in Upgrades(base, old, fresh) : Through(s, old, fresh, len)
  BY ONLY <1>2, <1>3, <1>4, <1>5, <1>6, <1>6a, Inv, UpgradesKeep
<1>8. PICK s \in Upgrades(base, old, fresh) : kids' = s.kids /\ attrs' = s.attrs /\ index' = s.index
  BY <1>3
<1>9. Firsts(fresh, len) = ToSet(fresh)
  <2>1. fresh \in Seq(Node)
    BY <1>5, FreshTyped
  <2>2. DOMAIN fresh = 1 .. len
    BY <1>3, <2>1
  <2>. QED
    BY ONLY <2>2 DEF Firsts, ToSet
<1>10. Upgrading(s, live')
  BY ONLY <1>3, <1>7, <1>9, s \in Upgrades(base, old, fresh) DEF Through
<1>11. /\ Sound(kids', live') /\ attrs' \in [Element -> Attributes]
       /\ Exact(mode, index', Present(kids'), attrs')
  BY ONLY <1>8, <1>10 DEF Upgrading
<1>12. mode \in {"Off", "IdOnly", "Full"}
  BY InvFacts
<1>. QED
  BY ONLY <1>3, <1>11, <1>12 DEF Inv

-----------------------------------------------------------------------------
(***************************************************************************)
(* The invariant holds at the start.                                       *)
(***************************************************************************)
LEMMA InitKeeps ==
  ASSUME Init
  PROVE  Inv
<1>1. /\ kids = NoKids /\ live = {Root} /\ attrs = [n \in Element |-> {}] /\ defined = FALSE
      /\ mode = "Off" /\ index = EmptyLists
  BY DEF Init
<1>2. Root \in Node
  BY QueryIndexAssumption
<1>3. <<>> \in Seq(Node) /\ IsInjective(<<>>) /\ ToSet(<<>>) = {}
  BY DEF IsInjective, ToSet
<1>4. kids \in [Node -> Seq(Node)] /\ \A n \in Node : kids[n] = <<>>
  BY ONLY <1>1, <1>3 DEF NoKids
<1>5. \A n \in Node : ToSet(kids[n]) = {} /\ IsInjective(kids[n])
  BY ONLY <1>3, <1>4
<1>6. Forest(kids)
  BY ONLY <1>4, <1>5 DEF Forest, Grounded, SingleOwner
<1>7. Sound(kids, live)
  <2>1. live \subseteq Node /\ Root \in live /\ \A n \in Node : ToSet(kids[n]) \subseteq live \cap Element
    BY ONLY <1>1, <1>2, <1>5
  <2>2. \A n \in Node \ live : ToSet(kids[n]) = {}
    BY ONLY <1>5
  <2>. QED
    BY ONLY <1>6, <2>1, <2>2, SoundIs
<1>8. attrs \in [Element -> Attributes]
  <2>1. {} \in Attributes
    <3>1. {} \cap IdKey = {} /\ Cardinality({}) = 0
      BY FS_EmptySet
    <3>. QED
      BY <3>1 DEF Attributes
  <2>. HIDE DEF Attributes
  <2>. QED
    BY <1>1, <2>1
<1>9. Exact(mode, index, Present(kids), attrs)
  BY <1>1, EmptyExact
<1>. QED
  BY <1>1, <1>7, <1>8, <1>9 DEF Inv

(***************************************************************************)
(* The invariant Inv holds after every history of tree mutations,          *)
(* attribute writes, upgrades and mode changes (selectors/live.rs).        *)
(***************************************************************************)
THEOREM InvAlways == Spec => []Inv
<1>1. Init => Inv
  BY InitKeeps
<1>2. ASSUME Inv, [Next]_vars PROVE Inv'
  <2>1. ASSUME NEW n \in Node, CreateElement(n) PROVE Inv'
    BY <1>2, <2>1, CreateElementKeeps
  <2>2. ASSUME NEW p \in Node, NEW n \in Node, NEW ref \in Node \cup {Null}, InsertBefore(p, n, ref) PROVE Inv'
    BY <1>2, <2>2, InsertBeforeKeeps
  <2>3. ASSUME NEW c \in Node, RemoveChild(c) PROVE Inv'
    BY <1>2, <2>3, RemoveChildKeeps
  <2>4. ASSUME NEW c \in Node, NEW n \in Node, ReplaceChild(c, n) PROVE Inv'
    BY <1>2, <2>4, ReplaceChildKeeps
  <2>5. ASSUME NEW p \in Node, NEW xs \in Chains, NEW at \in WithParsed(xs), ReplaceChildren(p, xs, at) PROVE Inv'
    BY <1>2, <2>5, ReplaceChildrenKeeps
  <2>6. ASSUME NEW c \in Node, NEW xs \in Chains, NEW at \in WithParsed(xs), ReplaceInParent(c, xs, at) PROVE Inv'
    BY <1>2, <2>6, ReplaceInParentKeeps
  <2>7. ASSUME NEW el \in Element, NEW new \in SUBSET IdKey, WriteAttribute(el, IdKey, new) PROVE Inv'
    BY <1>2, <2>7, WriteAttributeKeeps DEF Family
  <2>8. ASSUME NEW el \in Element, NEW new \in SUBSET ClassKey, WriteAttribute(el, ClassKey, new) PROVE Inv'
    BY <1>2, <2>8, WriteAttributeKeeps DEF Family
  <2>9. ASSUME NEW fresh \in Chains, Define(fresh) PROVE Inv'
    BY <1>2, <2>9, DefineKeeps
  <2>10. ASSUME EnsureIdIndex PROVE Inv'
    BY <1>2, <2>10, EnsureIdIndexKeeps
  <2>11. ASSUME NEW enabled \in BOOLEAN, SetEnabled(enabled) PROVE Inv'
    BY <1>2, <2>11, SetEnabledKeeps
  <2>12. ASSUME UNCHANGED vars PROVE Inv'
    <3>1. kids' = kids /\ live' = live /\ attrs' = attrs /\ defined' = defined /\ mode' = mode /\ index' = index
      BY <2>12 DEF vars
    <3>. QED
      BY ONLY <1>2, <3>1 DEF Inv
  <2>. QED
    BY ONLY <1>2, <2>1, <2>2, <2>3, <2>4, <2>5, <2>6, <2>7, <2>8, <2>9, <2>10, <2>11, <2>12, Zenon DEF Next
<1>. QED
  BY <1>1, <1>2, PTL DEF Spec

(***************************************************************************)
(* Every variable keeps a value of its kind, and an element is a child at  *)
(* most once.                                                              *)
(***************************************************************************)
THEOREM TypesAlways == Spec => []TypeOK
<1>1. Inv => TypeOK
  <2>. SUFFICES ASSUME Inv PROVE TypeOK
    OBVIOUS
  <2>1. /\ Sound(kids, live) /\ attrs \in [Element -> Attributes] /\ defined \in BOOLEAN
        /\ mode \in {"Off", "IdOnly", "Full"} /\ Exact(mode, index, Present(kids), attrs)
        /\ SingleOwner(kids) /\ live \subseteq Node /\ Root \in live
    BY InvFacts
  <2>2. kids \in [Node -> Seq(live \cap Element)]
    BY ONLY <2>1 DEF Sound
  <2>3. \A p, q \in Node : IsInjective(kids[p]) /\ (p # q => ToSet(kids[p]) \cap ToSet(kids[q]) = {})
    BY ONLY <2>1 DEF SingleOwner
  <2>4. index \in [Key -> Seq(live \cap Element)]
    <3>1. Present(kids) \subseteq live \cap Element
      BY <2>1, PresentFacts
    <3>2. index = [key \in Key |-> index[key]]
      BY ONLY <2>1 DEF Exact
    <3>3. ASSUME NEW key \in Key PROVE index[key] \in Seq(live \cap Element)
      <4>1. PICK s : s = index[key]
        OBVIOUS
      <4>2. s \in Seq(Node) /\ ToSet(s) = Listing(mode, Present(kids), attrs, key)
        BY ONLY <2>1, <4>1, key \in Key, ExactList
      <4>3. ToSet(s) \subseteq live \cap Element
        BY ONLY <3>1, <4>2 DEF Listing, With
      <4>4. s \in Seq(live \cap Element)
        BY ONLY <4>2, <4>3, RangeSub
      <4>. QED
        BY ONLY <4>1, <4>4
    <3>. QED
      BY ONLY <3>2, <3>3
  <2>. QED
    BY ONLY <2>1, <2>2, <2>3, <2>4 DEF TypeOK
<1>. QED
  BY <1>1, InvAlways, PTL

(***************************************************************************)
(* After every history, each list the mode maintains holds exactly the     *)
(* elements of the document with its key, each once: the chokepoints leave *)
(* nothing stale and lose nothing.                                         *)
(***************************************************************************)
THEOREM ExactAlways == Spec => []IndexExact
<1>1. Inv => IndexExact
  <2>. SUFFICES ASSUME Inv, NEW key \in Key
       PROVE  /\ IsInjective(index[key])
              /\ ToSet(index[key]) = {el \in ToSet(Below(kids, Root)) : key \in KeysOf(attrs, el) \cap Maintained(mode)}
    BY DEF IndexExact
  <2>1. Forest(kids) /\ Exact(mode, index, Present(kids), attrs)
    BY InvFacts
  <2>2. ToSet(Below(kids, Root)) = Present(kids)
    BY ONLY <2>1, PresentListed DEF BelowIs
  <2>3. IsInjective(index[key]) /\ ToSet(index[key]) = Listing(mode, Present(kids), attrs, key)
    BY ONLY <2>1, key \in Key, ExactList
  <2>4. Listing(mode, Present(kids), attrs, key) = {el \in Present(kids) : key \in KeysOf(attrs, el) \cap Maintained(mode)}
    BY ONLY DEF Listing, With
  <2>. QED
    BY ONLY <2>2, <2>3, <2>4
<1>. QED
  BY <1>1, InvAlways, PTL

-----------------------------------------------------------------------------
\* A list without repetition is as long as its range is large.
LEMMA LengthIsSize ==
  ASSUME NEW X, NEW s \in Seq(X), IsInjective(s)
  PROVE  Len(s) = Cardinality(ToSet(s))
<1>1. PICK n \in Nat : n = Len(s) /\ DOMAIN s = 1 .. n
  OBVIOUS
<1>2. PICK T : T = ToSet(s)
  OBVIOUS
<1>3. T = {s[i] : i \in 1 .. n} /\ \A i, j \in 1 .. n : s[i] = s[j] => i = j
  BY <1>1, <1>2 DEF ToSet, IsInjective
<1>4. s \in [1 .. n -> T]
  <2>1. s = [i \in 1 .. n |-> s[i]]
    BY <1>1
  <2>. QED
    BY ONLY <1>3, <2>1
<1>5. s \in Surjection(1 .. n, T) /\ s \in Injection(1 .. n, T)
  BY ONLY <1>3, <1>4 DEF Surjection, Injection, IsInjective
<1>6. IsFiniteSet(1 .. n) /\ Cardinality(1 .. n) = n
  BY FS_Interval
<1>7. Cardinality(T) = n
  BY ONLY <1>5, <1>6, FS_Surjection
<1>. QED
  BY <1>1, <1>2, <1>7

\* So two such lists of the same elements are of one length.
LEMMA SameLength ==
  ASSUME NEW X, NEW s \in Seq(X), IsInjective(s), NEW Y, NEW t \in Seq(Y), IsInjective(t), ToSet(s) = ToSet(t)
  PROVE  Len(s) = Len(t)
<1>1. Len(s) = Cardinality(ToSet(s)) /\ Len(t) = Cardinality(ToSet(t))
  BY LengthIsSize
<1>. QED
  BY ONLY <1>1, ToSet(s) = ToSet(t)

-----------------------------------------------------------------------------
\* What a traversal of scope finds.
Found(scope, keys) == {el \in Sub(kids, scope) \ {scope} : el \in Element /\ keys \subseteq KeysOf(attrs, el)}

\* A traversal finds what is below the scope and has the keys, each once.
LEMMA TraversedFacts ==
  ASSUME Inv, NEW scope \in live, NEW keys
  PROVE  /\ Traversed(scope, keys) \in Seq(Node) /\ IsInjective(Traversed(scope, keys))
         /\ ToSet(Traversed(scope, keys)) = Found(scope, keys)
<1>1. PICK s : s = Below(kids, scope)
  OBVIOUS
<1>2. s \in Seq(Node) /\ IsInjective(s) /\ ToSet(s) = Sub(kids, scope) \ {scope}
  BY <1>1, InvFacts, BelowFacts
<1>3. PICK S : S = {el \in Element : keys \subseteq KeysOf(attrs, el)}
  OBVIOUS
<1>4. PICK t : t = Keeping(s, S)
  OBVIOUS
<1>5. t \in Seq(Node) /\ IsInjective(t) /\ ToSet(t) = ToSet(s) \cap S
  BY ONLY <1>2, <1>4, KeepingFacts
<1>6. Traversed(scope, keys) = t
  BY ONLY <1>1, <1>3, <1>4 DEF Traversed
<1>7. ToSet(s) \cap S = Found(scope, keys)
  BY ONLY <1>2, <1>3 DEF Found
<1>. QED
  BY ONLY <1>5, <1>6, <1>7

\* The scopes that the lists serve, and what each list holds when one is served.
LEMMA ServedFacts ==
  ASSUME Inv, NEW scope \in live, UsesIndex(scope)
  PROVE  /\ mode = "Full" /\ Sub(kids, scope) \ {scope} \subseteq Present(kids)
         /\ \A key \in Key : /\ index[key] \in Seq(Node) /\ IsInjective(index[key])
                             /\ ToSet(index[key]) = With(attrs, key, Present(kids))
<1>1. /\ kids \in [Node -> Seq(Node)] /\ Grounded(kids) /\ Forest(kids) /\ RootOnTop(kids) /\ scope \in Node
      /\ Exact(mode, index, Present(kids), attrs) /\ Root \in Node
  BY InvFacts
<1>2. mode = "Full" /\ scope \in Sub(kids, Root)
  BY <1>1, InsideIs DEF UsesIndex, InDocument
<1>3. Sub(kids, scope) \subseteq Sub(kids, Root)
  BY <1>1, <1>2, SubInside
<1>4. Root \notin Sub(kids, scope) \ {scope}
  <2>1. ASSUME Root \in Sub(kids, scope), Root # scope PROVE FALSE
    <3>1. \E q \in Sub(kids, scope) : Root \in ToSet(kids[q])
      BY <1>1, <2>1, SubOwner
    <3>2. Sub(kids, scope) \subseteq Node
      BY <1>1, SubUnfolds
    <3>. QED
      BY ONLY <1>1, <3>1, <3>2 DEF RootOnTop
  <2>. QED
    BY <2>1
<1>5. Sub(kids, scope) \ {scope} \subseteq Present(kids)
  BY <1>3, <1>4 DEF Present
<1>6. ASSUME NEW key \in Key
      PROVE  /\ index[key] \in Seq(Node) /\ IsInjective(index[key])
             /\ ToSet(index[key]) = With(attrs, key, Present(kids))
  <2>1. /\ index[key] \in Seq(Node) /\ IsInjective(index[key])
        /\ ToSet(index[key]) = Listing(mode, Present(kids), attrs, key)
    BY ONLY <1>1, key \in Key, ExactList
  <2>2. Maintained(mode) = Key
    BY <1>2 DEF Maintained
  <2>. QED
    BY ONLY <2>1, <2>2, key \in Key DEF Listing
<1>. QED
  BY ONLY <1>2, <1>5, <1>6

\* A list cut down to a scope.
LEMMA InScopeFacts ==
  ASSUME Inv, NEW scope \in live, NEW s \in Seq(Node), IsInjective(s)
  PROVE  /\ InScope(s, scope) \in Seq(Node) /\ IsInjective(InScope(s, scope))
         /\ ToSet(InScope(s, scope)) = ToSet(s) \cap (Sub(kids, scope) \ {scope})
<1>1. ToSet(Below(kids, scope)) = Sub(kids, scope) \ {scope}
  BY InvFacts, BelowFacts
<1>2. PICK S : S = ToSet(Below(kids, scope))
  OBVIOUS
<1>3. PICK t : t = Keeping(s, S)
  OBVIOUS
<1>4. t \in Seq(Node) /\ IsInjective(t) /\ ToSet(t) = ToSet(s) \cap S
  BY ONLY <1>3, s \in Seq(Node), IsInjective(s), KeepingFacts
<1>5. InScope(s, scope) = t
  BY ONLY <1>2, <1>3 DEF InScope
<1>. QED
  BY ONLY <1>1, <1>2, <1>4, <1>5

\* So does a collection, from whichever list it starts.
LEMMA GetFinds ==
  ASSUME Inv, NEW scope \in live, NEW keys \in SUBSET Key, keys # {}, NEW found \in GetElements(scope, keys)
  PROVE  IsInjective(found) /\ ToSet(found) = Found(scope, keys)
<1>1. CASE ~ UsesIndex(scope)
  <2>1. found = Traversed(scope, keys)
    BY <1>1 DEF GetElements
  <2>. QED
    BY ONLY <2>1, Inv, scope \in live, TraversedFacts
<1>2. CASE UsesIndex(scope)
  <2>. DEFINE S == {el \in Element : \A other \in keys : el \in ToSet(index[other])}
  <2>1. PICK key \in keys : found = Keeping(InScope(index[key], scope), S)
    BY <1>2 DEF GetElements
  <2>2. /\ Sub(kids, scope) \ {scope} \subseteq Present(kids)
        /\ \A q \in Key : /\ index[q] \in Seq(Node) /\ IsInjective(index[q])
                          /\ ToSet(index[q]) = With(attrs, q, Present(kids))
    BY ONLY <1>2, Inv, scope \in live, ServedFacts
  <2>3. PICK s : s = index[key]
    OBVIOUS
  <2>4. s \in Seq(Node) /\ IsInjective(s) /\ ToSet(s) = With(attrs, key, Present(kids)) /\ key \in Key
    BY ONLY <2>1, <2>2, <2>3, keys \in SUBSET Key
  <2>5. PICK t : t = InScope(s, scope)
    OBVIOUS
  <2>6. t \in Seq(Node) /\ IsInjective(t) /\ ToSet(t) = ToSet(s) \cap (Sub(kids, scope) \ {scope})
    BY ONLY <2>4, <2>5, Inv, scope \in live, InScopeFacts
  <2>7. PICK T : T = S
    OBVIOUS
  <2>8. found = Keeping(t, T)
    BY ONLY <2>1, <2>3, <2>5, <2>7
  <2>. HIDE DEF S
  <2>9. /\ ToSet(Keeping(t, T)) = ToSet(t) \cap T
        /\ IsInjective(t) => IsInjective(Keeping(t, T))
    BY ONLY <2>6, KeepingFacts
  <2>10. Present(kids) \subseteq Element
    BY InvFacts, PresentFacts
  <2>11. T = {el \in Present(kids) : keys \subseteq KeysOf(attrs, el)}
    BY ONLY <2>2, <2>7, <2>10, keys \in SUBSET Key, keys # {} DEF S, With
  <2>12. ToSet(t) \cap T = Found(scope, keys)
    BY ONLY <2>1, <2>2, <2>4, <2>6, <2>10, <2>11 DEF With, Found
  <2>. QED
    BY ONLY <2>6, <2>8, <2>9, <2>12
<1>. QED
  BY <1>1, <1>2

\* And the count is the length of what a traversal finds.
LEMMA CountCounts ==
  ASSUME Inv, NEW scope \in live, NEW key \in Key
  PROVE  CountElements(scope, key) = Len(Traversed(scope, {key}))
<1>1. CASE ~ UsesIndex(scope)
  BY <1>1 DEF CountElements
<1>2. CASE UsesIndex(scope)
  <2>1. /\ Sub(kids, scope) \ {scope} \subseteq Present(kids)
        /\ \A q \in Key : /\ index[q] \in Seq(Node) /\ IsInjective(index[q])
                          /\ ToSet(index[q]) = With(attrs, q, Present(kids))
    BY ONLY <1>2, Inv, scope \in live, ServedFacts
  <2>2. PICK s : s = index[key]
    OBVIOUS
  <2>3. s \in Seq(Node) /\ IsInjective(s) /\ ToSet(s) = With(attrs, key, Present(kids))
    BY ONLY <2>1, <2>2, key \in Key
  <2>4. PICK t : t = InScope(s, scope)
    OBVIOUS
  <2>5. t \in Seq(Node) /\ IsInjective(t) /\ ToSet(t) = ToSet(s) \cap (Sub(kids, scope) \ {scope})
    BY ONLY <2>3, <2>4, Inv, scope \in live, InScopeFacts
  <2>6. PICK u : u = Traversed(scope, {key})
    OBVIOUS
  <2>7. u \in Seq(Node) /\ IsInjective(u) /\ ToSet(u) = Found(scope, {key})
    BY ONLY <2>6, Inv, scope \in live, TraversedFacts
  <2>8. Present(kids) \subseteq Element
    BY InvFacts, PresentFacts
  <2>9. ToSet(t) = ToSet(u)
    BY ONLY <2>1, <2>3, <2>5, <2>7, <2>8 DEF With, Found
  <2>10. Len(t) = Len(u)
    BY ONLY <2>5, <2>7, <2>9, SameLength
  <2>11. scope = Root => Len(s) = Len(u)
    <3>1. scope = Root => ToSet(s) = ToSet(u)
      BY ONLY <2>3, <2>7, <2>8 DEF With, Found, Present
    <3>. QED
      BY ONLY <2>3, <2>7, <3>1, SameLength
  <2>12. CountElements(scope, key) = IF scope = Root THEN Len(s) ELSE Len(t)
    BY ONLY <1>2, <2>2, <2>4 DEF CountElements
  <2>. QED
    BY ONLY <2>6, <2>10, <2>11, <2>12
<1>. QED
  BY <1>1, <1>2

(***************************************************************************)
(* A live collection finds the elements that a traversal of its scope      *)
(* finds, each once, and reports their number, whatever mode is on and     *)
(* wherever its scope is.                                                  *)
(***************************************************************************)
THEOREM CollectionsAlways == Spec => []SameElements
<1>1. Inv => SameElements
  <2>. SUFFICES ASSUME Inv, NEW scope \in live
       PROVE  /\ \A keys \in {{key} : key \in TagKey \cup {AnyTag}} \cup ((SUBSET ClassKey) \ {{}}) :
                   \A found \in GetElements(scope, keys) :
                     IsInjective(found) /\ ToSet(found) = ToSet(Traversed(scope, keys))
              /\ \A key \in TagKey \cup {AnyTag} : CountElements(scope, key) = Len(Traversed(scope, {key}))
    BY DEF SameElements
  <2>1. \A keys \in {{key} : key \in TagKey \cup {AnyTag}} \cup ((SUBSET ClassKey) \ {{}}) :
          keys \in SUBSET Key /\ keys # {}
    BY DEF Key
  <2>2. ASSUME NEW keys \in SUBSET Key, keys # {}, NEW found \in GetElements(scope, keys)
        PROVE  IsInjective(found) /\ ToSet(found) = ToSet(Traversed(scope, keys))
    <3>1. IsInjective(found) /\ ToSet(found) = Found(scope, keys)
      BY <2>2, GetFinds
    <3>2. ToSet(Traversed(scope, keys)) = Found(scope, keys)
      BY TraversedFacts
    <3>. QED
      BY ONLY <3>1, <3>2
  <2>3. \A key \in TagKey \cup {AnyTag} : CountElements(scope, key) = Len(Traversed(scope, {key}))
    BY CountCounts DEF Key
  <2>. QED
    BY ONLY <2>1, <2>2, <2>3
<1>. QED
  BY <1>1, InvAlways, PTL

\* h is in S, and of the entries of s that are, the first.
First(s, S, h) == \E i \in 1 .. Len(s) : s[i] = h /\ h \in S /\ \A j \in 1 .. Len(s) : s[j] \in S => i <= j

\* The head of what is kept is the first entry that is.
LEMMA KeptHead ==
  ASSUME NEW X, NEW s \in Seq(X), NEW S, Keeping(s, S) # <<>>
  PROVE  First(s, S, Head(Keeping(s, S)))
<1>. DEFINE T == {t \in Seq(X) : Keeping(t, S) # <<>> => First(t, S, Head(Keeping(t, S)))}
<1>1. <<>> \in T
  <2>1. <<>> \in Seq(X) /\ Keeping(<<>>, S) = <<>>
    BY KeepingEmpty
  <2>. QED
    BY <2>1
<1>2. ASSUME NEW t \in T, NEW e \in X PROVE Append(t, e) \in T
  <2>1. t \in Seq(X) /\ (Keeping(t, S) # <<>> => First(t, S, Head(Keeping(t, S))))
    OBVIOUS
  <2>2. PICK n \in Nat : n = Len(t)
    BY <2>1
  <2>3. PICK u : u = Append(t, e)
    OBVIOUS
  <2>4. u \in Seq(X) /\ Len(u) = n + 1 /\ u[n + 1] = e /\ \A i \in 1 .. n : u[i] = t[i]
    BY ONLY <2>1, <2>2, <2>3, e \in X, AppendEntries
  <2>5. PICK a : a = Keeping(t, S)
    OBVIOUS
  <2>6. a \in Seq(X) /\ ToSet(a) = ToSet(t) \cap S
    BY ONLY <2>1, <2>5, KeepingFacts
  <2>7. Keeping(u, S) = IF e \in S THEN Append(a, e) ELSE a
    BY ONLY <2>1, <2>3, <2>5, e \in X, KeepingAppend
  <2>8. CASE a # <<>>
    <3>1. Head(Append(a, e)) = Head(a)
      BY ONLY <2>6, <2>8, e \in X
    <3>2. Head(Keeping(u, S)) = Head(a)
      BY ONLY <2>7, <3>1
    <3>3. PICK i \in 1 .. n : t[i] = Head(a) /\ Head(a) \in S /\ \A j \in 1 .. n : t[j] \in S => i <= j
      BY ONLY <2>1, <2>2, <2>5, <2>8 DEF First
    <3>4. i \in 1 .. n + 1 /\ u[i] = Head(a)
      BY ONLY <2>4, <3>3, n \in Nat
    <3>5. \A j \in 1 .. n + 1 : u[j] \in S => i <= j
      BY ONLY <2>4, <3>3, n \in Nat
    <3>6. First(u, S, Head(a))
      BY ONLY <2>4, <3>3, <3>4, <3>5 DEF First
    <3>. QED
      BY ONLY <2>3, <2>4, <3>2, <3>6
  <2>9. CASE a = <<>>
    <3>1. ToSet(t) \cap S = {}
      <4>1. ToSet(<<>>) = {}
        BY DEF ToSet
      <4>. QED
        BY ONLY <2>6, <2>9, <4>1
    <3>2. \A i \in 1 .. n : t[i] \notin S
      <4>1. DOMAIN t = 1 .. n
        BY <2>1, <2>2
      <4>. QED
        BY ONLY <3>1, <4>1 DEF ToSet
    <3>3. CASE e \in S
      <4>1. Keeping(u, S) = <<e>> /\ Head(<<e>>) = e
        BY ONLY <2>7, <2>9, <3>3
      <4>2. n + 1 \in 1 .. n + 1 /\ \A j \in 1 .. n + 1 : u[j] \in S => n + 1 <= j
        BY ONLY <2>4, <3>2, n \in Nat
      <4>3. First(u, S, e)
        BY ONLY <2>4, <3>3, <4>2 DEF First
      <4>. QED
        BY ONLY <2>3, <2>4, <4>1, <4>3
    <3>4. CASE e \notin S
      <4>1. Keeping(u, S) = <<>>
        BY ONLY <2>7, <2>9, <3>4
      <4>. QED
        BY ONLY <2>3, <2>4, <4>1
    <3>. QED
      BY <3>3, <3>4
  <2>. QED
    BY <2>8, <2>9
<1>3. T = Seq(X)
  <2>. HIDE DEF T
  <2>1. T \in SUBSET Seq(X)
    BY DEF T
  <2>. QED
    BY ONLY <1>1, <1>2, <2>1, AppendInduction
<1>. QED
  BY <1>3

\* c is one of those in C, and none of them is before it in o.
Leads(o, C, c) == c \in C /\ \A d \in C : Position(o, c) <= Position(o, d)

\* The first entry in S leads those in S.
LEMMA FirstLeads ==
  ASSUME NEW X, NEW o \in Seq(X), NEW S, NEW h, First(o, S, h)
  PROVE  Leads(o, ToSet(o) \cap S, h)
<1>1. PICK n \in Nat : n = Len(o) /\ DOMAIN o = 1 .. n
  OBVIOUS
<1>2. PICK i \in 1 .. n : o[i] = h /\ h \in S /\ \A j \in 1 .. n : o[j] \in S => i <= j
  BY <1>1 DEF First
<1>3. h \in ToSet(o)
  BY <1>1, <1>2 DEF ToSet
<1>4. \A c \in ToSet(o) : Position(o, c) \in 1 .. n /\ o[Position(o, c)] = c /\ \A j \in 1 .. n : o[j] = c => Position(o, c) <= j
  BY <1>1, PositionFacts
<1>5. ASSUME NEW d \in ToSet(o) \cap S PROVE Position(o, h) <= Position(o, d)
  <2>1. Position(o, h) <= i /\ Position(o, h) \in 1 .. n
    BY ONLY <1>2, <1>3, <1>4
  <2>2. i <= Position(o, d) /\ Position(o, d) \in 1 .. n
    BY ONLY <1>2, <1>4, <1>5
  <2>. QED
    BY ONLY <2>1, <2>2, n \in Nat, i \in 1 .. n
<1>. QED
  BY ONLY <1>2, <1>3, <1>5 DEF Leads

\* Only one entry leads.
LEMMA OneLeads ==
  ASSUME NEW X, NEW o \in Seq(X), NEW C, C \subseteq ToSet(o), NEW a, NEW b, Leads(o, C, a), Leads(o, C, b)
  PROVE  a = b
<1>1. \A c \in C : Position(o, c) \in 1 .. Len(o) /\ o[Position(o, c)] = c
  BY PositionFacts
<1>2. Position(o, a) = Position(o, b)
  <2>1. Position(o, a) <= Position(o, b) /\ Position(o, b) <= Position(o, a) /\ a \in C /\ b \in C
    BY DEF Leads
  <2>2. Position(o, a) \in Int /\ Position(o, b) \in Int
    BY <1>1, <2>1
  <2>. QED
    BY ONLY <2>1, <2>2
<1>. QED
  BY ONLY <1>1, <1>2, Leads(o, C, a), Leads(o, C, b) DEF Leads

-----------------------------------------------------------------------------
\* The loop of get_element_by_id over the list l.
IsFirst(l, len, f) ==
  f = [n \in 0 .. len |->
         IF n = 0 THEN Null ELSE IF f[n - 1] = Null \/ Precedes(kids, l[n], f[n - 1]) THEN l[n] ELSE f[n - 1]]

\* The recursive function that IndexedById names exists.
LEMMA FirstExists ==
  ASSUME NEW l, NEW len \in Nat
  PROVE  \E f : IsFirst(l, len, f)
<1>. DEFINE T == {j \in Nat : \E f : IsFirst(l, j, f)}
            Next1(f, n) == IF f[n - 1] = Null \/ Precedes(kids, l[n], f[n - 1]) THEN l[n] ELSE f[n - 1]
<1>1. 0 \in T
  <2>. DEFINE f == [n \in 0 .. 0 |-> Null]
  <2>1. f = [n \in 0 .. 0 |-> IF n = 0 THEN Null ELSE Next1(f, n)]
    BY \A n \in 0 .. 0 : n = 0
  <2>2. IsFirst(l, 0, f)
    BY <2>1, Zenon DEF IsFirst
  <2>. QED
    BY <2>2
<1>2. ASSUME NEW j \in T PROVE j + 1 \in T
  <2>1. PICK f : IsFirst(l, j, f)
    OBVIOUS
  <2>2. f = [n \in 0 .. j |-> IF n = 0 THEN Null ELSE Next1(f, n)]
    BY <2>1, Zenon DEF IsFirst
  <2>. DEFINE g == [n \in 0 .. j + 1 |-> IF n <= j THEN f[n] ELSE Next1(f, n)]
  <2>3. ASSUME NEW n \in 0 .. j + 1, n # 0 PROVE n - 1 \in 0 .. j
    BY <2>3
  <2>4. \A n \in 0 .. j + 1 : n # 0 => g[n - 1] = f[n - 1]
    <3>. HIDE DEF Next1
    <3>. QED
      BY <2>3
  <2>5. \A n \in 0 .. j + 1 : n <= j => f[n] = IF n = 0 THEN Null ELSE Next1(f, n)
    <3>1. \A n \in 0 .. j : f[n] = IF n = 0 THEN Null ELSE Next1(f, n)
      BY <2>2, Zenon
    <3>2. \A n \in 0 .. j + 1 : n <= j => n \in 0 .. j
      OBVIOUS
    <3>. HIDE DEF Next1
    <3>. QED
      BY <3>1, <3>2
  <2>6. \A n \in 0 .. j + 1 : g[n] = IF n = 0 THEN Null ELSE Next1(f, n)
    <3>. HIDE DEF Next1
    <3>. QED
      BY <2>5
  <2>7. \A n \in 0 .. j + 1 : n # 0 => Next1(f, n) = Next1(g, n)
    <3>. HIDE DEF g
    <3>. QED
      BY <2>4, Zenon
  <2>8. \A n \in 0 .. j + 1 : g[n] = IF n = 0 THEN Null ELSE Next1(g, n)
    <3>. HIDE DEF g, Next1
    <3>. QED
      BY <2>6, <2>7, Zenon
  <2>9. g = [n \in 0 .. j + 1 |-> g[n]]
    OBVIOUS
  <2>10. IsFirst(l, j + 1, g)
    <3>. HIDE DEF g
    <3>. QED
      BY <2>8, <2>9, Zenon DEF IsFirst
  <2>. QED
    BY <2>10
<1>3. T = Nat
  <2>. HIDE DEF T
  <2>1. T \in SUBSET Nat
    BY DEF T
  <2>. QED
    BY <1>1, <1>2, <2>1, SetInduction
<1>. QED
  BY <1>3

\* After each round the loop holds the leading one of those it has seen.
LEMMA LoopLeads ==
  ASSUME NEW l \in Seq(Node), NEW o \in Seq(Node), o = Preorder(kids, Root), ToSet(l) \subseteq ToSet(o),
         NEW len, len = Len(l), NEW f, IsFirst(l, len, f)
  PROVE  IF len = 0 THEN f[len] = Null ELSE Leads(o, ToSet(l), f[len])
<1>1. \A n \in 0 .. len : f[n] = IF n = 0 THEN Null
                                 ELSE IF f[n - 1] = Null \/ Precedes(kids, l[n], f[n - 1]) THEN l[n] ELSE f[n - 1]
  BY Zenon DEF IsFirst
<1>2. len \in Nat /\ DOMAIN l = 1 .. len /\ Null \notin Node /\ \A i \in 1 .. len : l[i] \in Node
  BY QueryIndexAssumption
<1>3. \A c \in ToSet(o) : Position(o, c) \in Int
  BY PositionFacts
<1>4. \A a, b : Precedes(kids, a, b) <=> Position(o, a) < Position(o, b)
  BY o = Preorder(kids, Root) DEF Precedes
<1>. DEFINE T == {n \in Nat : n <= len => IF n = 0 THEN f[n] = Null ELSE Leads(o, Firsts(l, n), f[n])}
<1>5. 0 \in T
  <2>1. 0 \in 0 .. len
    BY <1>2
  <2>. QED
    BY <1>1, <2>1
<1>6. ASSUME NEW n \in T PROVE n + 1 \in T
  <2>. SUFFICES ASSUME n + 1 <= len PROVE Leads(o, Firsts(l, n + 1), f[n + 1])
    OBVIOUS
  <2>1. n \in Nat /\ n <= len /\ n + 1 \in 0 .. len /\ n + 1 # 0 /\ (n + 1) - 1 = n /\ n + 1 \in 1 .. len
    BY <1>2
  <2>2. PICK e, g : e = l[n + 1] /\ g = f[n]
    OBVIOUS
  <2>3. f[n + 1] = IF g = Null \/ Position(o, e) < Position(o, g) THEN e ELSE g
    BY ONLY <1>1, <1>4, <2>1, <2>2
  <2>4. Firsts(l, n + 1) = Firsts(l, n) \cup {e}
    <3>1. \A i \in 1 .. n + 1 : i \in 1 .. n \/ i = n + 1
      BY <2>1
    <3>2. n + 1 \in 1 .. n + 1 /\ \A i \in 1 .. n : i \in 1 .. n + 1
      BY <2>1
    <3>. QED
      BY ONLY <2>2, <3>1, <3>2 DEF Firsts
  <2>5. Firsts(l, n) \subseteq ToSet(o) /\ e \in ToSet(o) /\ e \in Node
    <3>1. \A i \in 1 .. n : i \in 1 .. len
      BY <1>2, <2>1
    <3>. QED
      BY ONLY <1>2, <2>1, <2>2, <3>1, ToSet(l) \subseteq ToSet(o) DEF Firsts, ToSet
  <2>6. CASE n = 0
    <3>1. g = Null /\ Firsts(l, n) = {}
      BY ONLY <2>1, <2>2, <2>6, n \in T DEF Firsts
    <3>2. f[n + 1] = e /\ Firsts(l, n + 1) = {e}
      BY ONLY <2>3, <2>4, <3>1
    <3>3. Position(o, e) <= Position(o, e)
      BY ONLY <1>3, <2>5
    <3>. QED
      BY ONLY <3>2, <3>3 DEF Leads
  <2>7. CASE n # 0
    <3>1. Leads(o, Firsts(l, n), g)
      BY ONLY <2>1, <2>2, <2>7, n \in T
    <3>2. g \in Firsts(l, n) /\ \A d \in Firsts(l, n) : Position(o, g) <= Position(o, d)
      BY ONLY <3>1 DEF Leads
    <3>3. g # Null
      <4>1. \A i \in 1 .. n : i \in 1 .. len
        BY <1>2, <2>1
      <4>. QED
        BY ONLY <1>2, <3>2, <4>1 DEF Firsts
    <3>4. \A d \in Firsts(l, n) \cup {e} : Position(o, d) \in Int
      BY ONLY <1>3, <2>5
    <3>5. f[n + 1] \in Firsts(l, n) \cup {e} /\ \A d \in Firsts(l, n) \cup {e} : Position(o, f[n + 1]) <= Position(o, d)
      BY ONLY <2>3, <3>2, <3>3, <3>4
    <3>. QED
      BY ONLY <2>4, <3>5 DEF Leads
  <2>. QED
    BY <2>6, <2>7
<1>7. T = Nat
  <2>. HIDE DEF T
  <2>1. T \in SUBSET Nat
    BY DEF T
  <2>. QED
    BY <1>5, <1>6, <2>1, SetInduction
<1>8. IF len = 0 THEN f[len] = Null ELSE Leads(o, Firsts(l, len), f[len])
  BY <1>2, <1>7
<1>9. Firsts(l, len) = ToSet(l)
  BY ONLY <1>2 DEF Firsts, ToSet
<1>. QED
  BY ONLY <1>8, <1>9

\* The first of the list's entries below the document.
LEMMA IndexedLeads ==
  ASSUME Inv, NEW id \in IdKey, mode # "Off",
         NEW o, o = Preorder(kids, Root), NEW C, C = With(attrs, id, Present(kids))
  PROVE  IF C = {} THEN IndexedById(id) = Null ELSE Leads(o, C, IndexedById(id))
<1>1. PICK l : l = InScope(index[id], Root)
  OBVIOUS
<1>2. /\ kids \in [Node -> Seq(Node)] /\ Grounded(kids) /\ Forest(kids) /\ Root \in live /\ Root \in Node
      /\ Exact(mode, index, Present(kids), attrs) /\ mode \in {"Off", "IdOnly", "Full"}
  BY InvFacts
<1>3. PICK s : s = index[id]
  OBVIOUS
<1>4. s \in Seq(Node) /\ IsInjective(s) /\ ToSet(s) = C
  <2>1. id \in Key /\ id \in Maintained(mode)
    BY <1>2 DEF Key, Maintained
  <2>2. s \in Seq(Node) /\ IsInjective(s) /\ ToSet(s) = Listing(mode, Present(kids), attrs, id)
    BY ONLY <1>2, <1>3, <2>1, ExactList
  <2>. QED
    BY ONLY <2>1, <2>2, C = With(attrs, id, Present(kids)) DEF Listing
<1>5. l \in Seq(Node) /\ ToSet(l) = C
  <2>1. l = InScope(s, Root)
    BY ONLY <1>1, <1>3
  <2>2. l \in Seq(Node) /\ ToSet(l) = ToSet(s) \cap (Sub(kids, Root) \ {Root})
    BY ONLY <1>2, <1>4, <2>1, Inv, InScopeFacts
  <2>. QED
    BY ONLY <1>4, <2>2, C = With(attrs, id, Present(kids)) DEF With, Present
<1>6. o \in Seq(Node) /\ C \subseteq ToSet(o)
  <2>1. o \in Seq(Node)
    BY ONLY <1>2, o = Preorder(kids, Root), SubUnfolds
  <2>2. ToSet(o) = Sub(kids, Root)
    BY ONLY o = Preorder(kids, Root) DEF Sub
  <2>. QED
    BY ONLY <2>1, <2>2, C = With(attrs, id, Present(kids)) DEF With, Present
<1>7. PICK len : len = Len(l)
  OBVIOUS
<1>8. len \in Nat /\ (len = 0 <=> C = {})
  <2>1. len \in Nat /\ DOMAIN l = 1 .. len
    BY ONLY <1>5, <1>7
  <2>2. len = 0 => ToSet(l) = {}
    BY ONLY <2>1 DEF ToSet
  <2>3. ToSet(l) = {} => l = <<>>
    BY ONLY <1>5, NothingInIt
  <2>. QED
    BY ONLY <1>5, <1>7, <2>1, <2>2, <2>3
<1>. DEFINE f == CHOOSE f : IsFirst(l, Len(l), f)
<1>9. IsFirst(l, len, f)
  BY ONLY <1>7, <1>8, FirstExists, Zenon
<1>10. IndexedById(id) = f[len]
  BY ONLY <1>1, <1>7, Zenon DEF IndexedById, IsFirst
<1>. HIDE DEF f
<1>11. IF len = 0 THEN f[len] = Null ELSE Leads(o, ToSet(l), f[len])
  BY ONLY <1>5, <1>6, <1>7, <1>9, o = Preorder(kids, Root), LoopLeads
<1>. QED
  BY ONLY <1>5, <1>8, <1>10, <1>11

\* The first that a traversal of the document meets.
LEMMA TraversalLeads ==
  ASSUME Inv, NEW id, NEW all, all = Traversed(Root, {id}),
         NEW o, o = Preorder(kids, Root), NEW C, C = With(attrs, id, Present(kids))
  PROVE  IF C = {} THEN all = <<>> ELSE all # <<>> /\ Leads(o, C, Head(all))
<1>1. /\ kids \in [Node -> Seq(Node)] /\ Grounded(kids) /\ Forest(kids) /\ Root \in live /\ Root \in Node
      /\ Root \notin Element
  BY InvFacts
<1>2. o \in Seq(Node) /\ o # <<>> /\ Head(o) = Root
  BY ONLY <1>1, o = Preorder(kids, Root), SubUnfolds
<1>3. PICK S : S = {el \in Element : {id} \subseteq KeysOf(attrs, el)}
  OBVIOUS
<1>4. all = Keeping(Tail(o), S)
  BY ONLY <1>3, all = Traversed(Root, {id}), o = Preorder(kids, Root) DEF Traversed, Below
<1>5. PICK t : t = Tail(o)
  OBVIOUS
<1>6. t \in Seq(Node) /\ o = <<Root>> \o t
  BY ONLY <1>2, <1>5
<1>7. Keeping(o, S) = Keeping(t, S)
  <2>1. <<Root>> \in Seq(Node) /\ ToSet(<<Root>>) = {Root}
    BY <1>1 DEF ToSet
  <2>2. ToSet(<<Root>>) \cap S = {}
    BY ONLY <1>1, <1>3, <2>1
  <2>3. Keeping(<<Root>>, S) = <<>>
    BY ONLY <2>1, <2>2, KeepingNone
  <2>4. Keeping(o, S) = Keeping(<<Root>>, S) \o Keeping(t, S)
    <3>1. PICK one : one = <<Root>>
      OBVIOUS
    <3>2. one \in Seq(Node) /\ o = one \o t
      BY ONLY <1>6, <2>1, <3>1
    <3>3. Keeping(one \o t, S) = Keeping(one, S) \o Keeping(t, S)
      BY ONLY <1>6, <3>2, KeepingConcat
    <3>. QED
      BY ONLY <3>1, <3>2, <3>3
  <2>5. Keeping(t, S) \in Seq(Node)
    BY ONLY <1>6, KeepingFacts
  <2>. QED
    BY ONLY <2>3, <2>4, <2>5
<1>8. all = Keeping(o, S)
  BY ONLY <1>4, <1>5, <1>7
<1>9. all \in Seq(Node) /\ ToSet(all) = ToSet(o) \cap S
  BY ONLY <1>2, <1>8, KeepingFacts
<1>10. ToSet(o) \cap S = C
  <2>1. ToSet(o) = Sub(kids, Root)
    BY ONLY o = Preorder(kids, Root) DEF Sub
  <2>2. Present(kids) \subseteq Element
    BY InvFacts, PresentFacts
  <2>. QED
    BY ONLY <1>1, <1>3, <2>1, <2>2, C = With(attrs, id, Present(kids)) DEF With, Present
<1>11. C = {} => all = <<>>
  BY ONLY <1>9, <1>10, NothingInIt
<1>12. ASSUME C # {} PROVE all # <<>> /\ Leads(o, C, Head(all))
  <2>1. all # <<>>
    <3>1. ToSet(<<>>) = {}
      BY DEF ToSet
    <3>. QED
      BY ONLY <1>9, <1>10, <1>12, <3>1
  <2>2. First(o, S, Head(all))
    BY ONLY <1>2, <1>8, <2>1, KeptHead
  <2>3. Leads(o, ToSet(o) \cap S, Head(all))
    BY ONLY <1>2, <2>2, FirstLeads
  <2>. QED
    BY ONLY <1>10, <2>1, <2>3
<1>. QED
  BY ONLY <1>11, <1>12

(***************************************************************************)
(* getElementById answers the first element in document order with the id, *)
(* in every mode, whatever the order of the list it reads.                 *)
(***************************************************************************)
THEOREM FirstAlways == Spec => []FirstById
<1>1. Inv => FirstById
  <2>. SUFFICES ASSUME Inv, NEW id \in IdKey, NEW all, all = Traversed(Root, {id})
       PROVE  GetElementById(id) = IF all = <<>> THEN Null ELSE Head(all)
    BY DEF FirstById
  <2>1. CASE mode = "Off"
    BY ONLY <2>1, all = Traversed(Root, {id}) DEF GetElementById
  <2>2. CASE mode # "Off"
    <3>1. PICK o, C : o = Preorder(kids, Root) /\ C = With(attrs, id, Present(kids))
      OBVIOUS
    <3>2. PICK r : r = IndexedById(id)
      OBVIOUS
    <3>3. IF C = {} THEN r = Null ELSE Leads(o, C, r)
      BY ONLY <2>2, <3>1, <3>2, Inv, id \in IdKey, IndexedLeads
    <3>4. IF C = {} THEN all = <<>> ELSE all # <<>> /\ Leads(o, C, Head(all))
      BY ONLY <3>1, Inv, all = Traversed(Root, {id}), TraversalLeads
    <3>5. o \in Seq(Node) /\ C \subseteq ToSet(o)
      <4>1. kids \in [Node -> Seq(Node)] /\ Grounded(kids) /\ Root \in Node
        BY InvFacts
      <4>2. o \in Seq(Node)
        BY ONLY <3>1, <4>1, SubUnfolds
      <4>. QED
        BY ONLY <3>1, <4>2 DEF With, Present, Sub
    <3>6. C # {} => r = Head(all)
      BY ONLY <3>3, <3>4, <3>5, OneLeads
    <3>7. GetElementById(id) = r
      BY ONLY <2>2, <3>2 DEF GetElementById
    <3>. QED
      BY ONLY <3>3, <3>4, <3>6, <3>7
  <2>. QED
    BY <2>1, <2>2
<1>. QED
  BY <1>1, InvAlways, PTL

-----------------------------------------------------------------------------
(***************************************************************************)
(* A move, removal or replacement that finds the lists in document order   *)
(* leaves them in document order: what stays in the document keeps its     *)
(* place among what stays, and what enters finds the lists in order and    *)
(* nothing of its own tree in them.                                        *)
(***************************************************************************)
THEOREM OrderAlwaysKept == Spec => MovesKeepOrder
<1>1. ASSUME Inv, [Next]_vars, InOrder(kids, index), kids' # kids, defined' = defined
      PROVE  InOrder(kids', index')
  <2>. SUFFICES KeepsOrder
    BY <1>1 DEF KeepsOrder
  <2>1. ASSUME NEW p \in Node, NEW n \in Node, NEW ref \in Node \cup {Null}, InsertBefore(p, n, ref) PROVE KeepsOrder
    BY <1>1, <2>1, InsertBeforeKeeps
  <2>2. ASSUME NEW c \in Node, RemoveChild(c) PROVE KeepsOrder
    BY <1>1, <2>2, RemoveChildKeeps
  <2>3. ASSUME NEW c \in Node, NEW n \in Node, ReplaceChild(c, n) PROVE KeepsOrder
    BY <1>1, <2>3, ReplaceChildKeeps
  <2>4. ASSUME NEW p \in Node, NEW xs \in Chains, NEW at \in WithParsed(xs), ReplaceChildren(p, xs, at) PROVE KeepsOrder
    BY <1>1, <2>4, ReplaceChildrenKeeps
  <2>5. ASSUME NEW c \in Node, NEW xs \in Chains, NEW at \in WithParsed(xs), ReplaceInParent(c, xs, at) PROVE KeepsOrder
    BY <1>1, <2>5, ReplaceInParentKeeps
  <2>6. \A n \in Node : ~ CreateElement(n)
    BY <1>1 DEF CreateElement
  <2>7. \A F : \A el \in Element, new \in SUBSET F : ~ WriteAttribute(el, F, new)
    BY <1>1 DEF WriteAttribute
  <2>8. \A fresh \in Chains : ~ Define(fresh)
    BY <1>1 DEF Define
  <2>9. ~ EnsureIdIndex /\ \A enabled \in BOOLEAN : ~ SetEnabled(enabled)
    BY <1>1 DEF EnsureIdIndex, SetEnabled
  <2>10. ~ UNCHANGED vars
    BY <1>1 DEF vars
  <2>. QED
    BY ONLY <1>1, <2>1, <2>2, <2>3, <2>4, <2>5, <2>6, <2>7, <2>8, <2>9, <2>10, Zenon DEF Next
<1>2. Inv /\ [Next]_vars => [InOrder(kids, index) /\ kids' # kids /\ defined' = defined => InOrder(kids', index')]_vars
  BY <1>1
<1>. QED
  BY <1>2, InvAlways, PTL DEF Spec, MovesKeepOrder
=============================================================================
