----------------------------- MODULE ListProofs -----------------------------
(***************************************************************************)
(* Induction over the naturals, and what the loops of Lists and FlattenSeq *)
(* of the community modules compute for every list.                        *)
(***************************************************************************)
EXTENDS Lists, SequencesExt, WellFoundedInduction, TLAPS

-----------------------------------------------------------------------------
(***************************************************************************)
(* Induction by a least counterexample, over sets of naturals: it needs no *)
(* theorem that takes an operator.                                         *)
(***************************************************************************)
LEMMA LeastNatural ==
  ASSUME NEW T \in SUBSET Nat, T # {}
  PROVE  \E x \in T : \A y \in T : x <= y
<1>1. \E x \in T : \A y \in T : ~ (<<y, x>> \in OpToRel(<, Nat))
  BY NatLessThanWellFounded, WFMin, Zenon
<1>2. ASSUME NEW x \in Nat, NEW y \in Nat PROVE <<y, x>> \in OpToRel(<, Nat) <=> y < x
  BY DEF OpToRel
<1>3. \E x \in T : \A y \in T : ~ (y < x)
  BY <1>1, <1>2, Zenon
<1>. QED
  BY <1>3

LEMMA SetInduction ==
  ASSUME NEW T \in SUBSET Nat, 0 \in T, \A n \in T : n + 1 \in T
  PROVE  T = Nat
<1>. DEFINE R == Nat \ T
<1>. SUFFICES ASSUME R # {} PROVE FALSE
  OBVIOUS
<1>1. R \in SUBSET Nat
  OBVIOUS
<1>. HIDE DEF R
<1>2. PICK x \in R : \A y \in R : x <= y
  BY <1>1, LeastNatural
<1>3. x \in Nat /\ x # 0 /\ x - 1 \in Nat /\ x - 1 \notin R /\ x \notin T
  BY <1>1, <1>2 DEF R
<1>4. x - 1 \in T
  BY <1>3 DEF R
<1>5. (x - 1) + 1 \in T
  BY <1>4
<1>. QED
  BY <1>3, <1>5

-----------------------------------------------------------------------------
(***************************************************************************)
(* What a list is, and what it is without its first entry.                 *)
(***************************************************************************)
LEMMA SeqFacts ==
  ASSUME NEW s, NEW X, s \in Seq(X)
  PROVE  /\ Len(s) \in Nat /\ DOMAIN s = 1 .. Len(s) /\ \A i \in DOMAIN s : s[i] \in X
         /\ (s # <<>> => 1 \in DOMAIN s) /\ (s = <<>> => DOMAIN s = {})
  OBVIOUS

LEMMA SeqAgain ==
  ASSUME NEW s, NEW X, s \in Seq(X), NEW t, t = [i \in DOMAIN s |-> t[i]]
  PROVE  t \in Seq(ToSet(t)) /\ DOMAIN t = DOMAIN s /\ Len(t) = Len(s)
<1>1. Len(s) \in Nat /\ DOMAIN s = 1 .. Len(s)
  OBVIOUS
<1>2. t = [i \in 1 .. Len(s) |-> t[i]] /\ \A i \in 1 .. Len(s) : t[i] \in ToSet(t)
  BY <1>1 DEF ToSet
<1>. HIDE DEF ToSet
<1>3. t \in Seq(ToSet(t))
  BY <1>1, <1>2
<1>. QED
  BY <1>1, <1>2, <1>3

LEMMA RangeTyped ==
  ASSUME NEW s, NEW X, s \in Seq(X)
  PROVE  s \in Seq(ToSet(s))
<1>1. s = [i \in DOMAIN s |-> s[i]]
  OBVIOUS
<1>. QED
  BY <1>1, SeqAgain

LEMMA TailFacts ==
  ASSUME NEW X, NEW s \in Seq(X), s # <<>>
  PROVE  /\ Tail(s) \in Seq(X) /\ Head(s) \in X
         /\ ToSet(Tail(s)) \subseteq ToSet(s) /\ ToSet(s) \subseteq ToSet(Tail(s)) \cup {Head(s)}
         /\ IsInjective(s) => IsInjective(Tail(s)) /\ Head(s) \notin ToSet(Tail(s))
<1>1. Len(s) \in Nat /\ Len(s) # 0 /\ DOMAIN s = 1 .. Len(s) /\ Head(s) = s[1]
      /\ Tail(s) \in Seq(X) /\ DOMAIN Tail(s) = 1 .. Len(s) - 1 /\ \A i \in 1 .. Len(s) : s[i] \in X
  OBVIOUS
<1>2. \A i \in 1 .. Len(s) - 1 : Tail(s)[i] = s[i + 1] /\ i + 1 \in 1 .. Len(s) /\ i + 1 # 1
  BY <1>1
<1>3. \A i \in 1 .. Len(s) : i # 1 => i - 1 \in 1 .. Len(s) - 1 /\ Tail(s)[i - 1] = s[i]
  BY <1>1
<1>4. 1 \in 1 .. Len(s)
  BY <1>1
<1>5. ToSet(Tail(s)) \subseteq ToSet(s)
  BY <1>1, <1>2 DEF ToSet
<1>6. ToSet(s) \subseteq ToSet(Tail(s)) \cup {Head(s)}
  BY <1>1, <1>3 DEF ToSet
<1>7. ASSUME IsInjective(s) PROVE IsInjective(Tail(s)) /\ Head(s) \notin ToSet(Tail(s))
  <2>1. \A i, j \in 1 .. Len(s) : s[i] = s[j] => i = j
    BY <1>1, <1>7 DEF IsInjective
  <2>2. \A i, j \in 1 .. Len(s) - 1 : Tail(s)[i] = Tail(s)[j] => i + 1 = j + 1
    BY <1>2, <2>1
  <2>3. IsInjective(Tail(s))
    BY <1>1, <2>2 DEF IsInjective
  <2>4. Head(s) \notin ToSet(Tail(s))
    BY <1>1, <1>2, <1>4, <2>1 DEF ToSet
  <2>. QED
    BY <2>3, <2>4
<1>. QED
  BY <1>1, <1>4, <1>5, <1>6, <1>7

-----------------------------------------------------------------------------
(***************************************************************************)
(* Concatenation.                                                          *)
(***************************************************************************)
LEMMA AppendFacts ==
  ASSUME NEW X, NEW s \in Seq(X), NEW e \in X
  PROVE  /\ Append(s, e) \in Seq(X) /\ ToSet(Append(s, e)) = ToSet(s) \cup {e}
         /\ IsInjective(s) /\ e \notin ToSet(s) => IsInjective(Append(s, e))
<1>1. Append(s, e) \in Seq(X) /\ DOMAIN Append(s, e) = DOMAIN s \cup {Len(s) + 1}
      /\ Append(s, e)[Len(s) + 1] = e /\ Len(s) + 1 \notin DOMAIN s
      /\ \A i \in DOMAIN s : Append(s, e)[i] = s[i]
  OBVIOUS
<1>2. ASSUME NEW x PROVE x \in ToSet(Append(s, e)) <=> x \in ToSet(s) \cup {e}
  BY <1>1 DEF ToSet
<1>3. IsInjective(s) /\ e \notin ToSet(s) => IsInjective(Append(s, e))
  BY <1>1 DEF IsInjective, ToSet
<1>. QED
  BY <1>1, <1>2, <1>3

LEMMA ConcatFacts ==
  ASSUME NEW X, NEW s \in Seq(X), NEW t \in Seq(X)
  PROVE  /\ s \o t \in Seq(X) /\ ToSet(s \o t) = ToSet(s) \cup ToSet(t)
         /\ IsInjective(s) /\ IsInjective(t) /\ ToSet(s) \cap ToSet(t) = {} => IsInjective(s \o t)
<1>1. s \o t \in Seq(X) /\ Len(s) \in Nat /\ Len(t) \in Nat /\ DOMAIN s = 1 .. Len(s) /\ DOMAIN t = 1 .. Len(t)
      /\ DOMAIN (s \o t) = 1 .. Len(s) + Len(t)
  OBVIOUS
<1>2. \A i \in 1 .. Len(s) : (s \o t)[i] = s[i]
  OBVIOUS
<1>3. \A i \in 1 .. Len(t) : (s \o t)[Len(s) + i] = t[i]
  OBVIOUS
<1>4. ASSUME NEW i \in 1 .. Len(s) + Len(t), i \notin 1 .. Len(s)
      PROVE  i - Len(s) \in 1 .. Len(t) /\ (s \o t)[i] = t[i - Len(s)]
  <2>1. i - Len(s) \in 1 .. Len(t) /\ Len(s) + (i - Len(s)) = i
    BY <1>1, <1>4
  <2>. QED
    BY <1>3, <2>1
<1>5. ASSUME NEW x PROVE x \in ToSet(s \o t) <=> x \in ToSet(s) \cup ToSet(t)
  <2>1. ASSUME x \in ToSet(s \o t) PROVE x \in ToSet(s) \cup ToSet(t)
    <3>1. PICK i \in 1 .. Len(s) + Len(t) : x = (s \o t)[i]
      BY <1>1, <2>1 DEF ToSet
    <3>. QED
      BY <1>1, <1>2, <1>4, <3>1 DEF ToSet
  <2>2. ASSUME x \in ToSet(s) PROVE x \in ToSet(s \o t)
    BY <1>1, <1>2, <2>2 DEF ToSet
  <2>3. ASSUME x \in ToSet(t) PROVE x \in ToSet(s \o t)
    <3>1. PICK i \in 1 .. Len(t) : x = t[i]
      BY <1>1, <2>3 DEF ToSet
    <3>2. Len(s) + i \in 1 .. Len(s) + Len(t)
      BY <1>1
    <3>. QED
      BY <1>1, <1>3, <3>1, <3>2 DEF ToSet
  <2>. QED
    BY <2>1, <2>2, <2>3
<1>6. ASSUME IsInjective(s), IsInjective(t), ToSet(s) \cap ToSet(t) = {}
      PROVE  IsInjective(s \o t)
  <2>. SUFFICES ASSUME NEW i \in 1 .. Len(s) + Len(t), NEW j \in 1 .. Len(s) + Len(t), (s \o t)[i] = (s \o t)[j]
                PROVE  i = j
    BY <1>1 DEF IsInjective
  <2>1. CASE i \in 1 .. Len(s) /\ j \in 1 .. Len(s)
    BY <1>1, <1>2, <1>6, <2>1 DEF IsInjective
  <2>2. CASE i \notin 1 .. Len(s) /\ j \notin 1 .. Len(s)
    <3>1. i - Len(s) = j - Len(s)
      BY <1>1, <1>4, <1>6, <2>2 DEF IsInjective
    <3>. QED
      BY <1>1, <3>1
  <2>3. CASE i \in 1 .. Len(s) /\ j \notin 1 .. Len(s)
    BY <1>1, <1>2, <1>4, <1>6, <2>3 DEF ToSet
  <2>4. CASE i \notin 1 .. Len(s) /\ j \in 1 .. Len(s)
    BY <1>1, <1>2, <1>4, <1>6, <2>4 DEF ToSet
  <2>. QED
    BY <2>1, <2>2, <2>3, <2>4
<1>. QED
  BY <1>1, <1>5, <1>6

-----------------------------------------------------------------------------
(***************************************************************************)
(* Keeping, a prefix at a time.                                            *)
(***************************************************************************)
KeepStep(s, S, g, n) ==
  IF n = 0 THEN <<>> ELSE IF s[n] \in S THEN Append(g[n - 1], s[n]) ELSE g[n - 1]

IsKept(s, S, len, f) == f = [n \in 0 .. len |-> KeepStep(s, S, f, n)]

LEMMA KeptExists ==
  ASSUME NEW s, NEW S, NEW len \in Nat
  PROVE  \E f : IsKept(s, S, len, f)
<1>. DEFINE T == {j \in Nat : \E f : IsKept(s, S, j, f)}
<1>1. 0 \in T
  <2>. DEFINE f == [k \in 0 .. 0 |-> <<>>]
  <2>1. \A k \in 0 .. 0 : KeepStep(s, S, f, k) = <<>>
    BY DEF KeepStep
  <2>2. f = [k \in 0 .. 0 |-> KeepStep(s, S, f, k)]
    BY <2>1, Zenon
  <2>3. IsKept(s, S, 0, f)
    BY <2>2, Zenon DEF IsKept
  <2>. QED
    BY <2>3
<1>2. ASSUME NEW j \in T PROVE j + 1 \in T
  <2>1. PICK f : IsKept(s, S, j, f)
    OBVIOUS
  <2>. DEFINE g == [k \in 0 .. j + 1 |-> KeepStep(s, S, f, k)]
  <2>2. \A k \in 0 .. j : g[k] = f[k]
    BY <2>1 DEF IsKept
  <2>3. \A k \in 0 .. j + 1 : k # 0 => k - 1 \in 0 .. j
    OBVIOUS
  <2>4. \A k \in 0 .. j + 1 : KeepStep(s, S, f, k) = KeepStep(s, S, g, k)
    BY <2>2, <2>3 DEF KeepStep
  <2>5. g = [k \in 0 .. j + 1 |-> KeepStep(s, S, g, k)]
    BY <2>4, Zenon
  <2>6. IsKept(s, S, j + 1, g)
    BY <2>5, Zenon DEF IsKept
  <2>. QED
    BY <2>6
<1>3. T = Nat
  BY <1>1, <1>2, SetInduction
<1>. QED
  BY <1>3

(***************************************************************************)
(* It keeps the entries in S and no other, each as often as it is there.   *)
(***************************************************************************)
FirstOf(s, n) == {s[i] : i \in 1 .. n}

LEMMA KeepingFacts ==
  ASSUME NEW X, NEW s \in Seq(X), NEW S
  PROVE  /\ Keeping(s, S) \in Seq(X) /\ ToSet(Keeping(s, S)) = ToSet(s) \cap S
         /\ IsInjective(s) => IsInjective(Keeping(s, S))
<1>. DEFINE kept == CHOOSE f : IsKept(s, S, Len(s), f)
<1>0. Len(s) \in Nat /\ DOMAIN s = 1 .. Len(s) /\ \A i \in 1 .. Len(s) : s[i] \in X
  OBVIOUS
<1>1. IsKept(s, S, Len(s), kept)
  BY <1>0, KeptExists
<1>2. Keeping(s, S) = kept[Len(s)]
  BY Zenon DEF Keeping, IsKept, KeepStep
<1>. HIDE DEF kept
<1>3. ASSUME NEW n \in 0 .. Len(s) PROVE kept[n] = KeepStep(s, S, kept, n)
  BY <1>1, Zenon DEF IsKept
<1>4. kept[0] = <<>>
  BY <1>0, <1>3 DEF KeepStep
<1>. DEFINE Facts(n) == /\ kept[n] \in Seq(X) /\ ToSet(kept[n]) = FirstOf(s, n) \cap S
                        /\ IsInjective(s) => IsInjective(kept[n])
            T == {n \in Nat : n <= Len(s) => Facts(n)}
<1>5. Facts(0)
  <2>1. <<>> \in Seq(X) /\ ToSet(<<>>) = {} /\ IsInjective(<<>>)
    BY DEF ToSet, IsInjective
  <2>2. FirstOf(s, 0) = {}
    BY DEF FirstOf
  <2>. QED
    BY <1>4, <2>1, <2>2
<1>6. ASSUME NEW n \in Nat, n + 1 <= Len(s), Facts(n) PROVE Facts(n + 1)
  <2>1. n + 1 \in DOMAIN s /\ s[n + 1] \in X /\ n + 1 \in 0 .. Len(s) /\ n + 1 # 0 /\ (n + 1) - 1 = n
    BY <1>0, <1>6
  <2>2. kept[n + 1] = IF s[n + 1] \in S THEN Append(kept[n], s[n + 1]) ELSE kept[n]
    BY <1>3, <2>1 DEF KeepStep
  <2>3. FirstOf(s, n + 1) = FirstOf(s, n) \cup {s[n + 1]}
    <3>1. 1 .. n + 1 = (1 .. n) \cup {n + 1}
      OBVIOUS
    <3>. QED
      BY <3>1 DEF FirstOf
  <2>4. IsInjective(s) => s[n + 1] \notin FirstOf(s, n)
    <3>1. \A i \in 1 .. n : i \in DOMAIN s /\ i # n + 1
      BY <1>0, <1>6
    <3>. QED
      BY <2>1, <3>1 DEF IsInjective, FirstOf
  <2>5. CASE s[n + 1] \in S
    BY <1>6, <2>1, <2>2, <2>3, <2>4, <2>5, AppendFacts
  <2>6. CASE s[n + 1] \notin S
    BY <1>6, <2>2, <2>3, <2>6
  <2>. QED
    BY <2>5, <2>6
<1>7. T = Nat
  <2>. HIDE DEF Facts
  <2>1. 0 \in T
    BY <1>5
  <2>2. \A n \in T : n + 1 \in T
    BY <1>0, <1>6
  <2>. HIDE DEF T
  <2>3. T \in SUBSET Nat
    BY DEF T
  <2>. QED
    BY <2>1, <2>2, <2>3, SetInduction
<1>8. Facts(Len(s))
  <2>. HIDE DEF Facts
  <2>. QED
    BY <1>0, <1>7
<1>9. FirstOf(s, Len(s)) = ToSet(s)
  BY <1>0 DEF ToSet, FirstOf
<1>. QED
  BY <1>2, <1>8, <1>9

-----------------------------------------------------------------------------
(***************************************************************************)
(* Induction over lists that grow at the end.                              *)
(***************************************************************************)
LEMMA ListsEqual ==
  ASSUME NEW X, NEW s \in Seq(X), NEW Y, NEW t \in Seq(Y), Len(s) = Len(t), \A i \in 1 .. Len(s) : s[i] = t[i]
  PROVE  s = t
  OBVIOUS

LEMMA AppendEntries ==
  ASSUME NEW X, NEW s \in Seq(X), NEW e \in X
  PROVE  /\ Append(s, e) \in Seq(X) /\ Len(Append(s, e)) = Len(s) + 1 /\ Append(s, e)[Len(s) + 1] = e
         /\ \A i \in 1 .. Len(s) : Append(s, e)[i] = s[i]
  OBVIOUS

Ends(X, s, n) == \E r \in Seq(X) : \E e \in X : Len(r) = n /\ s = Append(r, e)

LEMMA LastApart ==
  ASSUME NEW X, NEW s \in Seq(X), NEW n \in Nat, Len(s) = n + 1
  PROVE  Ends(X, s, n)
<1>1. PICK r \in Seq(X) : Len(r) = n /\ \A i \in 1 .. n : r[i] = s[i]
  <2>. DEFINE r == SubSeq(s, 1, n)
  <2>1. r \in Seq(X) /\ Len(r) = n /\ \A i \in 1 .. n : r[i] = s[i]
    OBVIOUS
  <2>. QED
    BY <2>1
<1>2. PICK e \in X : e = s[n + 1]
  OBVIOUS
<1>3. /\ Append(r, e) \in Seq(X) /\ Len(Append(r, e)) = Len(r) + 1 /\ Append(r, e)[Len(r) + 1] = e
      /\ \A i \in 1 .. Len(r) : Append(r, e)[i] = r[i]
  BY AppendEntries
<1>4. \A i \in 1 .. n + 1 : i \in 1 .. n \/ i = n + 1
  OBVIOUS
<1>5. s = Append(r, e)
  BY <1>1, <1>2, <1>3, <1>4, ListsEqual
<1>. QED
  BY <1>1, <1>5 DEF Ends

LEMMA AppendInduction ==
  ASSUME NEW X, NEW T \in SUBSET Seq(X), <<>> \in T,
         \A s \in T : \A e \in X : Append(s, e) \in T
  PROVE  T = Seq(X)
<1>. DEFINE N == {n \in Nat : \A s \in Seq(X) : Len(s) = n => s \in T}
<1>1. 0 \in N
  OBVIOUS
<1>2. ASSUME NEW n \in N PROVE n + 1 \in N
  <2>1. n \in Nat /\ \A r \in Seq(X) : Len(r) = n => r \in T
    BY Zenon
  <2>. HIDE DEF N
  <2>2. ASSUME NEW s \in Seq(X), Len(s) = n + 1 PROVE s \in T
    <3>0. Ends(X, s, n)
      BY <2>1, <2>2, LastApart
    <3>1. PICK r \in Seq(X) : \E e \in X : Len(r) = n /\ s = Append(r, e)
      BY <3>0 DEF Ends
    <3>2. PICK e \in X : Len(r) = n /\ s = Append(r, e)
      BY <3>1
    <3>. QED
      BY <2>1, <3>2
  <2>3. n + 1 \in Nat
    BY <2>1
  <2>. QED
    BY <2>2, <2>3, Zenon DEF N
<1>. HIDE DEF N
<1>3. N \in SUBSET Nat
  BY DEF N
<1>4. N = Nat
  BY <1>1, <1>2, <1>3, SetInduction
<1>5. \A s \in Seq(X) : Len(s) \in N
  BY <1>4
<1>. QED
  BY <1>5 DEF N

(***************************************************************************)
(* Keeping, from the end.                                                  *)
(***************************************************************************)
LEMMA NothingInIt ==
  ASSUME NEW X, NEW s \in Seq(X), ToSet(s) = {}
  PROVE  s = <<>>
<1>1. Len(s) \in Nat /\ DOMAIN s = 1 .. Len(s)
  OBVIOUS
<1>2. DOMAIN s = {}
  BY DEF ToSet
<1>3. Len(s) = 0
  BY <1>1, <1>2
<1>. QED
  BY <1>3

LEMMA KeepingNone ==
  ASSUME NEW X, NEW s \in Seq(X), NEW S, ToSet(s) \cap S = {}
  PROVE  Keeping(s, S) = <<>>
BY KeepingFacts, NothingInIt

LEMMA KeepingEmpty ==
  ASSUME NEW S
  PROVE  Keeping(<<>>, S) = <<>>
<1>1. <<>> \in Seq({}) /\ ToSet(<<>>) \cap S = {}
  BY DEF ToSet
<1>. QED
  BY <1>1, KeepingNone

LEMMA KeepingAppend ==
  ASSUME NEW X, NEW s \in Seq(X), NEW e \in X, NEW S
  PROVE  Keeping(Append(s, e), S) = IF e \in S THEN Append(Keeping(s, S), e) ELSE Keeping(s, S)
<1>. DEFINE Kept(r) == CHOOSE f : IsKept(r, S, Len(r), f)
<1>1. ASSUME NEW r \in Seq(X)
      PROVE  /\ Keeping(r, S) = Kept(r)[Len(r)]
             /\ \A n \in 0 .. Len(r) : Kept(r)[n] = KeepStep(r, S, Kept(r), n)
  <2>1. IsKept(r, S, Len(r), Kept(r))
    <3>1. Len(r) \in Nat
      OBVIOUS
    <3>. QED
      BY <3>1, KeptExists
  <2>2. Keeping(r, S) = Kept(r)[Len(r)]
    BY Zenon DEF Keeping, IsKept, KeepStep
  <2>. QED
    BY <2>1, <2>2, Zenon DEF IsKept
<1>. DEFINE t == Append(s, e)
<1>3. t \in Seq(X) /\ Len(t) = Len(s) + 1 /\ Len(s) \in Nat /\ t[Len(s) + 1] = e
      /\ \A i \in 1 .. Len(s) : t[i] = s[i]
  OBVIOUS
<1>. DEFINE f == Kept(s)
            g == Kept(t)
<1>4. /\ Keeping(s, S) = f[Len(s)] /\ Keeping(t, S) = g[Len(t)]
      /\ \A n \in 0 .. Len(s) : f[n] = KeepStep(s, S, f, n)
      /\ \A n \in 0 .. Len(t) : g[n] = KeepStep(t, S, g, n)
  BY <1>1, <1>3
<1>. HIDE DEF f, g, t, Kept
<1>. DEFINE T == {n \in Nat : n <= Len(s) => f[n] = g[n]}
<1>5. T = Nat
  <2>1. 0 \in T
    BY <1>3, <1>4 DEF KeepStep
  <2>2. ASSUME NEW n \in T PROVE n + 1 \in T
    <3>. SUFFICES ASSUME n + 1 <= Len(s) PROVE f[n + 1] = g[n + 1]
      OBVIOUS
    <3>1. n + 1 \in 1 .. Len(s) /\ n + 1 \in 0 .. Len(s) /\ n + 1 \in 0 .. Len(t) /\ n + 1 # 0 /\ (n + 1) - 1 = n
      BY <1>3
    <3>2. f[n] = g[n]
      BY <1>3
    <3>. QED
      BY <1>3, <1>4, <3>1, <3>2 DEF KeepStep
  <2>. HIDE DEF T
  <2>3. T \in SUBSET Nat
    BY DEF T
  <2>. QED
    BY <2>1, <2>2, <2>3, SetInduction
<1>6. f[Len(s)] = g[Len(s)]
  <2>1. Len(s) \in T
    BY <1>3, <1>5
  <2>. QED
    BY <1>3, <2>1
<1>7. g[Len(s) + 1] = IF e \in S THEN Append(g[Len(s)], e) ELSE g[Len(s)]
  <2>1. Len(s) + 1 \in 0 .. Len(t) /\ Len(s) + 1 # 0 /\ (Len(s) + 1) - 1 = Len(s)
    BY <1>3
  <2>. QED
    BY <1>3, <1>4, <2>1 DEF KeepStep
<1>. QED
  BY <1>3, <1>4, <1>6, <1>7 DEF t

LEMMA KeepingConcat ==
  ASSUME NEW X, NEW s \in Seq(X), NEW t \in Seq(X), NEW S
  PROVE  Keeping(s \o t, S) = Keeping(s, S) \o Keeping(t, S)
<1>. DEFINE T == {r \in Seq(X) : Keeping(s \o r, S) = Keeping(s, S) \o Keeping(r, S)}
<1>0. Keeping(s, S) \in Seq(X)
  BY KeepingFacts
<1>1. <<>> \in T
  <2>1. s \o <<>> = s /\ Keeping(s, S) \o <<>> = Keeping(s, S)
    BY <1>0
  <2>2. Keeping(<<>>, S) = <<>>
    BY KeepingEmpty
  <2>3. <<>> \in Seq(X)
    OBVIOUS
  <2>. QED
    BY <2>1, <2>2, <2>3
<1>2. ASSUME NEW r \in T, NEW e \in X PROVE Append(r, e) \in T
  <2>0. r \in Seq(X) /\ Keeping(s \o r, S) = Keeping(s, S) \o Keeping(r, S)
    OBVIOUS
  <2>1. s \o r \in Seq(X) /\ Append(r, e) \in Seq(X) /\ s \o Append(r, e) = Append(s \o r, e)
    BY <2>0
  <2>2. Keeping(r, S) \in Seq(X)
    BY <2>0, KeepingFacts
  <2>3. PICK q \in Seq(X) : q = s \o r
    BY <2>1
  <2>6. Keeping(Append(q, e), S) = IF e \in S THEN Append(Keeping(q, S), e) ELSE Keeping(q, S)
    BY KeepingAppend
  <2>4. Keeping(Append(r, e), S) = IF e \in S THEN Append(Keeping(r, S), e) ELSE Keeping(r, S)
    BY <2>0, KeepingAppend
  <2>5. Keeping(s, S) \o Append(Keeping(r, S), e) = Append(Keeping(s, S) \o Keeping(r, S), e)
    BY <1>0, <2>2
  <2>. QED
    BY <2>0, <2>1, <2>3, <2>4, <2>5, <2>6
<1>3. T \in SUBSET Seq(X)
  OBVIOUS
<1>. HIDE DEF T
<1>4. T = Seq(X)
  BY <1>1, <1>2, <1>3, AppendInduction
<1>. QED
  BY <1>4 DEF T

LEMMA KeepingAll ==
  ASSUME NEW X, NEW s \in Seq(X), NEW S, ToSet(s) \subseteq S
  PROVE  Keeping(s, S) = s
<1>. DEFINE T == {r \in Seq(X) : ToSet(r) \subseteq S => Keeping(r, S) = r}
<1>1. <<>> \in T
  <2>1. <<>> \in Seq(X)
    OBVIOUS
  <2>. QED
    BY <2>1, KeepingEmpty
<1>2. ASSUME NEW r \in T, NEW e \in X PROVE Append(r, e) \in T
  <2>1. Append(r, e) \in Seq(X) /\ ToSet(Append(r, e)) = ToSet(r) \cup {e}
    BY AppendFacts
  <2>2. Keeping(Append(r, e), S) = IF e \in S THEN Append(Keeping(r, S), e) ELSE Keeping(r, S)
    BY KeepingAppend
  <2>. QED
    BY <2>1, <2>2
<1>3. T \in SUBSET Seq(X)
  OBVIOUS
<1>. HIDE DEF T
<1>4. T = Seq(X)
  BY <1>1, <1>2, <1>3, AppendInduction
<1>. QED
  BY <1>4 DEF T

-----------------------------------------------------------------------------
(***************************************************************************)
(* FlattenSeq, a prefix at a time.                                         *)
(***************************************************************************)
FlatStep(ss, g, i) == IF i = 1 THEN ss[i] ELSE g[i - 1] \o ss[i]

IsFlat(ss, len, f) == f = [i \in 1 .. len |-> FlatStep(ss, f, i)]

LEMMA FlatExists ==
  ASSUME NEW ss, NEW len \in Nat
  PROVE  \E f : IsFlat(ss, len, f)
<1>. DEFINE T == {j \in Nat : \E f : IsFlat(ss, j, f)}
<1>1. 0 \in T
  <2>. DEFINE f == [k \in 1 .. 0 |-> <<>>]
  <2>1. \A k \in 1 .. 0 : FlatStep(ss, f, k) = <<>>
    OBVIOUS
  <2>2. f = [k \in 1 .. 0 |-> FlatStep(ss, f, k)]
    BY <2>1, Zenon
  <2>3. IsFlat(ss, 0, f)
    BY <2>2, Zenon DEF IsFlat
  <2>. QED
    BY <2>3
<1>2. ASSUME NEW j \in T PROVE j + 1 \in T
  <2>1. PICK f : IsFlat(ss, j, f)
    OBVIOUS
  <2>. DEFINE g == [k \in 1 .. j + 1 |-> FlatStep(ss, f, k)]
  <2>2. \A k \in 1 .. j : g[k] = f[k]
    BY <2>1 DEF IsFlat
  <2>3. \A k \in 1 .. j + 1 : k # 1 => k - 1 \in 1 .. j
    OBVIOUS
  <2>4. \A k \in 1 .. j + 1 : FlatStep(ss, f, k) = FlatStep(ss, g, k)
    BY <2>2, <2>3 DEF FlatStep
  <2>5. g = [k \in 1 .. j + 1 |-> FlatStep(ss, g, k)]
    BY <2>4, Zenon
  <2>6. IsFlat(ss, j + 1, g)
    BY <2>5, Zenon DEF IsFlat
  <2>. QED
    BY <2>6
<1>3. T = Nat
  BY <1>1, <1>2, SetInduction
<1>. QED
  BY <1>3

(***************************************************************************)
(* It holds what the lists hold, each once if they hold nothing twice and  *)
(* share nothing.                                                          *)
(***************************************************************************)
Apart(ss) ==
  /\ \A i \in DOMAIN ss : IsInjective(ss[i])
  /\ \A i, j \in DOMAIN ss : i # j => ToSet(ss[i]) \cap ToSet(ss[j]) = {}

InFirst(ss, n) == UNION {ToSet(ss[i]) : i \in 1 .. n}

LEMMA FlattenFacts ==
  ASSUME NEW X, NEW ss \in Seq(Seq(X))
  PROVE  /\ FlattenSeq(ss) \in Seq(X)
         /\ ToSet(FlattenSeq(ss)) = UNION {ToSet(ss[i]) : i \in DOMAIN ss}
         /\ Apart(ss) => IsInjective(FlattenSeq(ss))
<1>. DEFINE flat == CHOOSE f : IsFlat(ss, Len(ss), f)
            Facts(n) == /\ flat[n] \in Seq(X) /\ ToSet(flat[n]) = InFirst(ss, n)
                        /\ Apart(ss) => IsInjective(flat[n])
            T == {n \in Nat : n + 1 <= Len(ss) => Facts(n + 1)}
<1>0. Len(ss) \in Nat /\ DOMAIN ss = 1 .. Len(ss) /\ \A i \in 1 .. Len(ss) : ss[i] \in Seq(X)
  OBVIOUS
<1>1. IsFlat(ss, Len(ss), flat)
  BY <1>0, FlatExists
<1>2. Len(ss) # 0 => FlattenSeq(ss) = flat[Len(ss)]
  BY Zenon DEF FlattenSeq, IsFlat, FlatStep
<1>. HIDE DEF flat
<1>3. ASSUME NEW i \in 1 .. Len(ss) PROVE flat[i] = FlatStep(ss, flat, i)
  BY <1>1, Zenon DEF IsFlat
<1>4. ASSUME 1 <= Len(ss) PROVE Facts(1)
  <2>1. 1 \in 1 .. Len(ss)
    BY <1>0, <1>4
  <2>2. flat[1] = ss[1] /\ ss[1] \in Seq(X)
    BY <1>0, <1>3, <2>1 DEF FlatStep
  <2>3. InFirst(ss, 1) = ToSet(ss[1])
    <3>1. 1 .. 1 = {1}
      OBVIOUS
    <3>. QED
      BY <3>1 DEF InFirst
  <2>. QED
    BY <1>0, <2>1, <2>2, <2>3 DEF Apart
<1>5. ASSUME NEW m \in Nat, m # 0, m + 1 <= Len(ss), Facts(m) PROVE Facts(m + 1)
  <2>1. m + 1 \in 1 .. Len(ss) /\ m + 1 # 1 /\ (m + 1) - 1 = m
    BY <1>0, <1>5
  <2>2. flat[m + 1] = flat[m] \o ss[m + 1] /\ ss[m + 1] \in Seq(X)
    BY <1>0, <1>3, <2>1 DEF FlatStep
  <2>3. InFirst(ss, m + 1) = InFirst(ss, m) \cup ToSet(ss[m + 1])
    <3>1. 1 .. m + 1 = (1 .. m) \cup {m + 1}
      OBVIOUS
    <3>. QED
      BY <3>1 DEF InFirst
  <2>4. ASSUME Apart(ss) PROVE InFirst(ss, m) \cap ToSet(ss[m + 1]) = {} /\ IsInjective(ss[m + 1])
    <3>1. \A i \in 1 .. m : i \in DOMAIN ss /\ i # m + 1
      BY <1>0, <1>5
    <3>2. \A i \in 1 .. m : ToSet(ss[i]) \cap ToSet(ss[m + 1]) = {}
      BY <1>0, <2>1, <2>4, <3>1 DEF Apart
    <3>. QED
      BY <1>0, <2>1, <2>4, <3>2 DEF Apart, InFirst
  <2>5. flat[m] \in Seq(X)
    BY <1>5
  <2>. DEFINE a == flat[m]
              b == ss[m + 1]
  <2>6. a \in Seq(X) /\ b \in Seq(X)
    BY <2>2, <2>5
  <2>. HIDE DEF a, b
  <2>7. /\ a \o b \in Seq(X) /\ ToSet(a \o b) = ToSet(a) \cup ToSet(b)
        /\ IsInjective(a) /\ IsInjective(b) /\ ToSet(a) \cap ToSet(b) = {} => IsInjective(a \o b)
    BY <2>6, ConcatFacts
  <2>. QED
    BY <1>5, <2>2, <2>3, <2>4, <2>7, Zenon DEF a, b
<1>6. T = Nat
  <2>. HIDE DEF Facts
  <2>1. 0 \in T
    BY <1>4
  <2>2. \A n \in T : n + 1 \in T
    <3>. TAKE n \in T
    <3>1. n \in Nat /\ n + 1 \in Nat /\ n + 1 # 0 /\ ((n + 1) + 1 <= Len(ss) => n + 1 <= Len(ss))
      BY <1>0
    <3>. QED
      BY <1>5, <3>1
  <2>. HIDE DEF T
  <2>3. T \in SUBSET Nat
    BY DEF T
  <2>. QED
    BY <2>1, <2>2, <2>3, SetInduction
<1>7. CASE Len(ss) # 0
  <2>1. Facts(Len(ss))
    <3>. HIDE DEF Facts
    <3>1. Len(ss) - 1 \in Nat /\ (Len(ss) - 1) + 1 = Len(ss)
      BY <1>0, <1>7
    <3>2. Len(ss) - 1 \in T
      BY <1>6, <3>1
    <3>3. (Len(ss) - 1) + 1 <= Len(ss) => Facts((Len(ss) - 1) + 1)
      BY <3>2
    <3>. QED
      BY <1>0, <3>1, <3>3
  <2>2. InFirst(ss, Len(ss)) = UNION {ToSet(ss[i]) : i \in DOMAIN ss}
    BY <1>0, Zenon DEF InFirst
  <2>. QED
    BY <1>2, <1>7, <2>1, <2>2
<1>8. CASE Len(ss) = 0
  <2>1. FlattenSeq(ss) = ss /\ DOMAIN ss = {}
    BY <1>0, <1>8 DEF FlattenSeq
  <2>2. ss \in Seq(X) /\ ToSet(ss) = {} /\ IsInjective(ss)
    BY <1>0, <1>8, <2>1 DEF ToSet, IsInjective
  <2>. QED
    BY <2>1, <2>2
<1>. QED
  BY <1>7, <1>8

-----------------------------------------------------------------------------
(***************************************************************************)
(* The order that a list puts its entries in.                              *)
(***************************************************************************)
Ahead(s, x, y) == \E i, j \in 1 .. Len(s) : i < j /\ s[i] = x /\ s[j] = y

\* What is ahead of what in two lists joined.
LEMMA ConcatAhead ==
  ASSUME NEW X, NEW s \in Seq(X), NEW t \in Seq(X), NEW x, NEW y
  PROVE  Ahead(s \o t, x, y) <=> Ahead(s, x, y) \/ Ahead(t, x, y) \/ (x \in ToSet(s) /\ y \in ToSet(t))
<1>1. PICK n \in Nat, m \in Nat : n = Len(s) /\ m = Len(t)
  OBVIOUS
<1>2. PICK u : u = s \o t
  OBVIOUS
<1>3. /\ Len(u) = n + m /\ DOMAIN s = 1 .. n /\ DOMAIN t = 1 .. m
      /\ \A i \in 1 .. n : u[i] = s[i]
      /\ \A i \in 1 .. m : u[n + i] = t[i]
  BY <1>1, <1>2
<1>4. /\ ToSet(s) = {s[i] : i \in 1 .. n}
      /\ ToSet(t) = {t[i] : i \in 1 .. m}
  BY ONLY <1>3, Zenon DEF ToSet
<1>5. ASSUME Ahead(u, x, y) PROVE Ahead(s, x, y) \/ Ahead(t, x, y) \/ (x \in ToSet(s) /\ y \in ToSet(t))
  <2>1. PICK i \in 1 .. n + m, j \in 1 .. n + m : i < j /\ u[i] = x /\ u[j] = y
    BY ONLY <1>3, <1>5 DEF Ahead
  <2>2. CASE j <= n
    <3>1. i \in 1 .. n /\ j \in 1 .. n
      BY ONLY <2>1, <2>2, n \in Nat, m \in Nat
    <3>. QED
      BY ONLY <1>1, <1>3, <2>1, <3>1 DEF Ahead
  <2>3. CASE i <= n /\ n < j
    <3>1. i \in 1 .. n /\ j - n \in 1 .. m /\ n + (j - n) = j
      BY ONLY <2>1, <2>3, n \in Nat, m \in Nat
    <3>2. x = s[i] /\ y = t[j - n]
      BY ONLY <1>3, <2>1, <3>1
    <3>. QED
      BY ONLY <1>4, <3>1, <3>2
  <2>4. CASE n < i
    <3>1. i - n \in 1 .. m /\ j - n \in 1 .. m /\ i - n < j - n /\ n + (i - n) = i /\ n + (j - n) = j
      BY ONLY <2>1, <2>4, n \in Nat, m \in Nat
    <3>2. x = t[i - n] /\ y = t[j - n]
      BY ONLY <1>3, <2>1, <3>1
    <3>. QED
      BY ONLY <1>1, <3>1, <3>2 DEF Ahead
  <2>. QED
    BY ONLY <2>1, <2>2, <2>3, <2>4, n \in Nat, m \in Nat
<1>6. ASSUME Ahead(s, x, y) PROVE Ahead(u, x, y)
  <2>1. PICK i \in 1 .. n, j \in 1 .. n : i < j /\ s[i] = x /\ s[j] = y
    BY ONLY <1>1, <1>6 DEF Ahead
  <2>2. i \in 1 .. n + m /\ j \in 1 .. n + m
    BY ONLY n \in Nat, m \in Nat, i \in 1 .. n, j \in 1 .. n
  <2>. QED
    BY ONLY <1>3, <2>1, <2>2 DEF Ahead
<1>7. ASSUME Ahead(t, x, y) PROVE Ahead(u, x, y)
  <2>1. PICK i \in 1 .. m, j \in 1 .. m : i < j /\ t[i] = x /\ t[j] = y
    BY ONLY <1>1, <1>7 DEF Ahead
  <2>2. n + i \in 1 .. n + m /\ n + j \in 1 .. n + m /\ n + i < n + j
    BY ONLY <2>1, n \in Nat, m \in Nat
  <2>. QED
    BY ONLY <1>3, <2>1, <2>2 DEF Ahead
<1>8. ASSUME x \in ToSet(s), y \in ToSet(t) PROVE Ahead(u, x, y)
  <2>1. PICK i \in 1 .. n, j \in 1 .. m : s[i] = x /\ t[j] = y
    BY ONLY <1>4, <1>8
  <2>2. i \in 1 .. n + m /\ n + j \in 1 .. n + m /\ i < n + j
    BY ONLY <2>1, n \in Nat, m \in Nat
  <2>. QED
    BY ONLY <1>3, <2>1, <2>2 DEF Ahead
<1>. QED
  BY ONLY <1>2, <1>5, <1>6, <1>7, <1>8

\* Both are entries of the list.
LEMMA AheadTyped ==
  ASSUME NEW X, NEW s \in Seq(X), NEW x, NEW y, Ahead(s, x, y)
  PROVE  x \in ToSet(s) /\ y \in ToSet(s)
BY DEF Ahead, ToSet

\* No two entries of the list of one or of none.
LEMMA NoneAhead ==
  ASSUME NEW e, NEW x, NEW y
  PROVE  ~ Ahead(<<>>, x, y) /\ ~ Ahead(<<e>>, x, y)
BY DEF Ahead

\* In a list without repetition, of two entries one is ahead, and only one.
LEMMA AheadTotal ==
  ASSUME NEW X, NEW s \in Seq(X), NEW x \in ToSet(s), NEW y \in ToSet(s), x # y
  PROVE  /\ Ahead(s, x, y) \/ Ahead(s, y, x)
         /\ IsInjective(s) => ~ (Ahead(s, x, y) /\ Ahead(s, y, x))
<1>1. PICK n \in Nat : n = Len(s) /\ DOMAIN s = 1 .. n
  OBVIOUS
<1>2. PICK i \in 1 .. n, j \in 1 .. n : s[i] = x /\ s[j] = y
  BY <1>1 DEF ToSet
<1>3. i < j \/ j < i
  BY <1>2
<1>4. Ahead(s, x, y) \/ Ahead(s, y, x)
  BY ONLY <1>1, <1>2, <1>3 DEF Ahead
<1>5. ASSUME IsInjective(s), Ahead(s, x, y), Ahead(s, y, x) PROVE FALSE
  <2>1. PICK a \in 1 .. n, b \in 1 .. n : a < b /\ s[a] = x /\ s[b] = y
    BY ONLY <1>1, <1>5 DEF Ahead
  <2>2. PICK c \in 1 .. n, d \in 1 .. n : c < d /\ s[c] = y /\ s[d] = x
    BY ONLY <1>1, <1>5 DEF Ahead
  <2>3. a = d /\ b = c
    BY ONLY <1>1, <1>5, <2>1, <2>2 DEF IsInjective
  <2>. QED
    BY ONLY <2>1, <2>2, <2>3
<1>. QED
  BY <1>4, <1>5

\* Keeping keeps the order.
LEMMA KeepingAhead ==
  ASSUME NEW X, NEW s \in Seq(X), NEW S, NEW x, NEW y
  PROVE  Ahead(Keeping(s, S), x, y) <=> Ahead(s, x, y) /\ x \in S /\ y \in S
<1>. DEFINE T == {r \in Seq(X) : Ahead(Keeping(r, S), x, y) <=> Ahead(r, x, y) /\ x \in S /\ y \in S}
<1>1. <<>> \in T
  <2>1. Keeping(<<>>, S) = <<>>
    BY KeepingEmpty
  <2>2. ~ Ahead(<<>>, x, y)
    BY NoneAhead
  <2>3. <<>> \in Seq(X)
    OBVIOUS
  <2>. QED
    BY ONLY <2>1, <2>2, <2>3
<1>2. ASSUME NEW r \in T, NEW e \in X PROVE Append(r, e) \in T
  <2>0. r \in Seq(X) /\ (Ahead(Keeping(r, S), x, y) <=> Ahead(r, x, y) /\ x \in S /\ y \in S)
    OBVIOUS
  <2>. HIDE DEF T
  <2>1. PICK q : q = Keeping(r, S)
    OBVIOUS
  <2>2. q \in Seq(X) /\ ToSet(q) = ToSet(r) \cap S
    BY ONLY <2>0, <2>1, KeepingFacts
  <2>a. <<e>> \in Seq(X)
    OBVIOUS
  <2>3. PICK one \in Seq(X) : one = <<e>>
    BY <2>a
  <2>4. ToSet(one) = {e} /\ ~ Ahead(one, x, y)
    <3>1. ToSet(<<e>>) = {e}
      BY DEF ToSet
    <3>. QED
      BY <2>3, <3>1, NoneAhead
  <2>5. Append(r, e) = r \o one /\ Append(q, e) = q \o one /\ Append(r, e) \in Seq(X)
    BY <2>0, <2>2, <2>3
  <2>6. Keeping(Append(r, e), S) = IF e \in S THEN Append(q, e) ELSE q
    BY ONLY <2>0, <2>1, e \in X, KeepingAppend
  <2>7. Ahead(r \o one, x, y) <=> Ahead(r, x, y) \/ (x \in ToSet(r) /\ y = e)
    BY ONLY <2>0, <2>4, one \in Seq(X), ConcatAhead
  <2>8. Ahead(q \o one, x, y) <=> Ahead(q, x, y) \/ (x \in ToSet(q) /\ y = e)
    BY ONLY <2>2, <2>4, one \in Seq(X), ConcatAhead
  <2>9. Ahead(Keeping(Append(r, e), S), x, y) <=> Ahead(Append(r, e), x, y) /\ x \in S /\ y \in S
    BY ONLY <2>0, <2>1, <2>2, <2>5, <2>6, <2>7, <2>8
  <2>. QED
    BY <2>5, <2>9 DEF T
<1>. HIDE DEF T
<1>3. T \in SUBSET Seq(X)
  BY DEF T
<1>4. T = Seq(X)
  BY ONLY <1>1, <1>2, <1>3, AppendInduction
<1>. QED
  BY <1>4 DEF T

\* x and y are in order in one of the first n lists of ss, or in two of them.
Between(ss, n, x, y) ==
  \/ \E i \in 1 .. n : Ahead(ss[i], x, y)
  \/ \E i, j \in 1 .. n : i < j /\ x \in ToSet(ss[i]) /\ y \in ToSet(ss[j])

\* What is ahead of what in a list of lists made into one.
LEMMA FlattenAhead ==
  ASSUME NEW X, NEW ss \in Seq(Seq(X)), NEW x, NEW y, Ahead(FlattenSeq(ss), x, y)
  PROVE  Between(ss, Len(ss), x, y)
<1>. DEFINE flat == CHOOSE f : IsFlat(ss, Len(ss), f)
            Facts(n) == /\ flat[n] \in Seq(X) /\ ToSet(flat[n]) = InFirst(ss, n)
                        /\ Ahead(flat[n], x, y) => Between(ss, n, x, y)
            T == {n \in Nat : n + 1 <= Len(ss) => Facts(n + 1)}
<1>0. Len(ss) \in Nat /\ DOMAIN ss = 1 .. Len(ss) /\ \A i \in 1 .. Len(ss) : ss[i] \in Seq(X)
  OBVIOUS
<1>1. IsFlat(ss, Len(ss), flat)
  BY <1>0, FlatExists
<1>2. Len(ss) # 0 => FlattenSeq(ss) = flat[Len(ss)]
  BY Zenon DEF FlattenSeq, IsFlat, FlatStep
<1>. HIDE DEF flat
<1>3. ASSUME NEW i \in 1 .. Len(ss) PROVE flat[i] = FlatStep(ss, flat, i)
  BY <1>1, Zenon DEF IsFlat
<1>4. ASSUME 1 <= Len(ss) PROVE Facts(1)
  <2>1. 1 \in 1 .. Len(ss)
    BY <1>0, <1>4
  <2>2. flat[1] = ss[1] /\ ss[1] \in Seq(X)
    BY <1>0, <1>3, <2>1 DEF FlatStep
  <2>3. 1 .. 1 = {1}
    OBVIOUS
  <2>4. InFirst(ss, 1) = ToSet(ss[1])
    BY <2>3 DEF InFirst
  <2>. QED
    BY ONLY <2>2, <2>3, <2>4 DEF Between
<1>5. ASSUME NEW m \in Nat, m # 0, m + 1 <= Len(ss), Facts(m) PROVE Facts(m + 1)
  <2>1. m + 1 \in 1 .. Len(ss) /\ m + 1 # 1 /\ (m + 1) - 1 = m
    BY <1>0, <1>5
  <2>2. flat[m + 1] = flat[m] \o ss[m + 1] /\ ss[m + 1] \in Seq(X)
    BY <1>0, <1>3, <2>1 DEF FlatStep
  <2>a. 1 .. m + 1 = (1 .. m) \cup {m + 1} /\ \A i \in 1 .. m : i < m + 1
    OBVIOUS
  <2>3. InFirst(ss, m + 1) = InFirst(ss, m) \cup ToSet(ss[m + 1])
    BY <2>a DEF InFirst
  <2>4. PICK a, b : a = flat[m] /\ b = ss[m + 1]
    OBVIOUS
  <2>5. a \in Seq(X) /\ b \in Seq(X) /\ ToSet(a) = InFirst(ss, m) /\ (Ahead(a, x, y) => Between(ss, m, x, y))
        /\ flat[m + 1] = a \o b /\ InFirst(ss, m + 1) = InFirst(ss, m) \cup ToSet(b)
    BY ONLY <1>5, <2>2, <2>3, <2>4
  <2>6. a \o b \in Seq(X) /\ ToSet(a \o b) = ToSet(a) \cup ToSet(b)
    BY ONLY <2>5, ConcatFacts
  <2>7. Ahead(a \o b, x, y) <=> Ahead(a, x, y) \/ Ahead(b, x, y) \/ (x \in ToSet(a) /\ y \in ToSet(b))
    BY ONLY <2>5, ConcatAhead
  <2>8. ASSUME Ahead(a, x, y) PROVE Between(ss, m + 1, x, y)
    BY ONLY <2>a, <2>5, <2>8 DEF Between
  <2>9. ASSUME Ahead(b, x, y) PROVE Between(ss, m + 1, x, y)
    BY ONLY <2>a, <2>4, <2>9 DEF Between
  <2>10. ASSUME x \in ToSet(a), y \in ToSet(b) PROVE Between(ss, m + 1, x, y)
    <3>1. PICK i \in 1 .. m : x \in ToSet(ss[i])
      BY ONLY <2>5, <2>10 DEF InFirst
    <3>2. i \in 1 .. m + 1 /\ m + 1 \in 1 .. m + 1 /\ i < m + 1 /\ y \in ToSet(ss[m + 1])
      BY ONLY <2>a, <2>4, <2>10, i \in 1 .. m
    <3>. QED
      BY ONLY <3>1, <3>2 DEF Between
  <2>. QED
    BY ONLY <2>5, <2>6, <2>7, <2>8, <2>9, <2>10
<1>6. T = Nat
  <2>. HIDE DEF Facts
  <2>1. 0 \in T
    BY <1>4
  <2>2. \A n \in T : n + 1 \in T
    <3>. TAKE n \in T
    <3>1. n \in Nat /\ n + 1 \in Nat /\ n + 1 # 0 /\ ((n + 1) + 1 <= Len(ss) => n + 1 <= Len(ss))
      BY <1>0
    <3>. QED
      BY <1>5, <3>1
  <2>. HIDE DEF T
  <2>3. T \in SUBSET Nat
    BY DEF T
  <2>. QED
    BY <2>1, <2>2, <2>3, SetInduction
<1>7. CASE Len(ss) # 0
  <2>1. Facts(Len(ss))
    <3>. HIDE DEF Facts
    <3>1. Len(ss) - 1 \in Nat /\ (Len(ss) - 1) + 1 = Len(ss)
      BY <1>0, <1>7
    <3>2. Len(ss) - 1 \in T
      BY <1>6, <3>1
    <3>3. (Len(ss) - 1) + 1 <= Len(ss) => Facts((Len(ss) - 1) + 1)
      BY <3>2
    <3>. QED
      BY <1>0, <3>1, <3>3
  <2>. QED
    BY <1>2, <1>7, <2>1
<1>8. CASE Len(ss) = 0
  <2>1. FlattenSeq(ss) = <<>>
    BY <1>0, <1>8 DEF FlattenSeq
  <2>. QED
    BY <2>1, NoneAhead
<1>. QED
  BY <1>7, <1>8

-----------------------------------------------------------------------------
(***************************************************************************)
(* Lists cut in two, and put together again with others between.           *)
(***************************************************************************)
CutAt(s, i, l, r) ==
  /\ i \in 1 .. Len(s) + 1
  /\ l = SubSeq(s, 1, i - 1) /\ r = SubSeq(s, i, Len(s))

SplicedAt(s, i, xs, t) ==
  /\ i \in 1 .. Len(s) + 1
  /\ t = SubSeq(s, 1, i - 1) \o xs \o SubSeq(s, i, Len(s))

\* The two parts of a list hold what it holds.
LEMMA CutFacts ==
  ASSUME NEW X, NEW s \in Seq(X), NEW i, NEW l, NEW r, CutAt(s, i, l, r)
  PROVE  /\ l \in Seq(X) /\ r \in Seq(X) /\ ToSet(l) \cup ToSet(r) = ToSet(s)
         /\ IsInjective(s) => IsInjective(l) /\ IsInjective(r) /\ ToSet(l) \cap ToSet(r) = {}
<1>. PICK a : a = i - 1
  OBVIOUS
<1>a. i \in 1 .. Len(s) + 1 /\ l = SubSeq(s, 1, a) /\ r = SubSeq(s, i, Len(s))
  BY Zenon DEF CutAt
<1>0. PICK n \in Nat : n = Len(s)
  OBVIOUS
<1>1. /\ DOMAIN s = 1 .. n /\ i \in 1 .. n + 1 /\ \A j \in 1 .. n : s[j] \in X
  BY <1>0, <1>a
<1>2. l \in [1 .. a -> X] /\ \A j \in 1 .. a : l[j] = s[j]
  <2>1. l = [j \in 1 .. a |-> s[j]]
    BY <1>0, <1>1, <1>a
  <2>2. \A j \in 1 .. a : j \in 1 .. n
    BY <1>1
  <2>. QED
    BY ONLY <1>1, <2>1, <2>2
<1>3. r \in [1 .. n + 1 - i -> X] /\ \A j \in 1 .. n + 1 - i : r[j] = s[i + j - 1]
  <2>1. r = [j \in 1 .. n - i + 1 |-> s[i + j - 1]]
    BY <1>0, <1>1, <1>a
  <2>2. n - i + 1 = n + 1 - i /\ \A j \in 1 .. n + 1 - i : i + j - 1 \in 1 .. n
    BY <1>1
  <2>. QED
    BY <1>1, <2>1, <2>2
<1>4. l \in Seq(X) /\ r \in Seq(X)
  <2>1. a \in Nat /\ n + 1 - i \in Nat
    BY <1>1
  <2>2. \A x \in Nat : \A f \in [1 .. x -> X] : f \in Seq(X)
    OBVIOUS
  <2>. QED
    BY ONLY <1>2, <1>3, <2>1, <2>2
<1>5. DOMAIN l = 1 .. a /\ DOMAIN r = 1 .. n + 1 - i
  BY ONLY <1>2, <1>3
<1>. DEFINE low == 1 .. a  high == i .. n
<1>6. low \cup high = 1 .. n /\ low \cap high = {}
  BY ONLY <1>1, a = i - 1, n \in Nat
<1>7. ToSet(l) = {s[j] : j \in low}
  BY ONLY <1>2, <1>5, Zenon DEF ToSet
<1>8. ToSet(r) = {s[j] : j \in high}
  <2>1. \A j \in 1 .. n + 1 - i : i + j - 1 \in high
    BY ONLY <1>1, a = i - 1, n \in Nat
  <2>2. \A j \in high : j - i + 1 \in 1 .. n + 1 - i /\ i + (j - i + 1) - 1 = j
    BY ONLY <1>1, a = i - 1, n \in Nat
  <2>. HIDE DEF high
  <2>3. \A e \in ToSet(r) : e \in {s[j] : j \in high}
    BY ONLY <1>3, <1>5, <2>1 DEF ToSet
  <2>4. \A e \in {s[j] : j \in high} : e \in ToSet(r)
    BY ONLY <1>3, <1>5, <2>2 DEF ToSet
  <2>. QED
    BY ONLY <2>3, <2>4
<1>9. ToSet(s) = {s[j] : j \in 1 .. n}
  BY ONLY <1>1 DEF ToSet
<1>. HIDE DEF low, high
<1>10. ToSet(l) \cup ToSet(r) = ToSet(s)
  BY ONLY <1>6, <1>7, <1>8, <1>9
<1>11. ASSUME IsInjective(s) PROVE IsInjective(l) /\ IsInjective(r) /\ ToSet(l) \cap ToSet(r) = {}
  <2>1. \A x, y \in 1 .. n : s[x] = s[y] => x = y
    BY ONLY <1>1, <1>11 DEF IsInjective
  <2>2. ToSet(l) \cap ToSet(r) = {}
    BY ONLY <1>6, <1>7, <1>8, <2>1
  <2>3. IsInjective(l)
    <3>1. \A x \in 1 .. a : x \in 1 .. n
      BY ONLY <1>1, a = i - 1, n \in Nat
    <3>. QED
      BY ONLY <1>2, <1>5, <2>1, <3>1 DEF IsInjective
  <2>4. IsInjective(r)
    <3>1. \A x \in 1 .. n + 1 - i : i + x - 1 \in 1 .. n
      BY ONLY <1>1, a = i - 1, n \in Nat
    <3>2. \A x, y \in 1 .. n + 1 - i : i + x - 1 = i + y - 1 => x = y
      BY ONLY <1>1, a = i - 1, n \in Nat
    <3>3. \A x, y \in 1 .. n + 1 - i : r[x] = r[y] => x = y
      BY ONLY <1>3, <2>1, <3>1, <3>2
    <3>. QED
      BY ONLY <1>5, <3>3 DEF IsInjective
  <2>. QED
    BY <2>2, <2>3, <2>4
<1>. QED
  BY ONLY <1>4, <1>10, <1>11

\* They are its entries before the cut and after it, and make it again.
LEMMA CutParts ==
  ASSUME NEW X, NEW s \in Seq(X), NEW i, NEW l, NEW r, CutAt(s, i, l, r), NEW n, n = Len(s)
  PROVE  ToSet(l) = {s[m] : m \in 1 .. i - 1} /\ ToSet(r) = {s[m] : m \in i .. n} /\ s = l \o r
<1>a. n \in Nat /\ DOMAIN s = 1 .. n /\ i \in 1 .. n + 1 /\ l = SubSeq(s, 1, i - 1) /\ r = SubSeq(s, i, n)
  BY DEF CutAt
<1>1. Len(l) = i - 1 /\ DOMAIN l = 1 .. i - 1 /\ \A j \in 1 .. i - 1 : l[j] = s[j]
  BY <1>a
<1>2. Len(r) = n + 1 - i /\ DOMAIN r = 1 .. n + 1 - i /\ \A j \in 1 .. n + 1 - i : r[j] = s[i + j - 1]
  BY <1>a
<1>3. ToSet(l) = {s[m] : m \in 1 .. i - 1}
  BY ONLY <1>1 DEF ToSet
<1>4. ToSet(r) = {s[m] : m \in i .. n}
  <2>1. \A j \in 1 .. n + 1 - i : i + j - 1 \in i .. n
    BY ONLY <1>a
  <2>2. \A j \in i .. n : j - i + 1 \in 1 .. n + 1 - i /\ i + (j - i + 1) - 1 = j
    BY ONLY <1>a
  <2>3. \A e \in ToSet(r) : e \in {s[j] : j \in i .. n}
    BY ONLY <1>2, <2>1 DEF ToSet
  <2>4. \A e \in {s[j] : j \in i .. n} : e \in ToSet(r)
    BY ONLY <1>2, <2>2 DEF ToSet
  <2>. QED
    BY ONLY <2>3, <2>4
<1>5. s = l \o r
  <2>1. l \in Seq(X) /\ r \in Seq(X)
    BY CutFacts
  <2>2. PICK u : u = l \o r
    OBVIOUS
  <2>3. u \in Seq(X) /\ Len(u) = Len(l) + Len(r)
    BY <2>1, <2>2
  <2>4. Len(u) = n
    BY ONLY <1>a, <1>1, <1>2, <2>3
  <2>5. \A j \in 1 .. Len(l) : u[j] = l[j]
    BY <2>1, <2>2
  <2>6. \A j \in 1 .. Len(r) : u[Len(l) + j] = r[j]
    BY <2>1, <2>2
  <2>7. ASSUME NEW j \in 1 .. n PROVE u[j] = s[j]
    <3>1. CASE j < i
      <4>1. j \in 1 .. i - 1
        BY ONLY <1>a, <3>1, j \in 1 .. n
      <4>. QED
        BY ONLY <1>1, <2>5, <4>1
    <3>2. CASE i <= j
      <4>1. j - i + 1 \in 1 .. n + 1 - i /\ i + (j - i + 1) - 1 = j /\ (i - 1) + (j - i + 1) = j
        BY ONLY <1>a, <3>2, j \in 1 .. n
      <4>. QED
        BY ONLY <1>1, <1>2, <2>6, <4>1
    <3>. QED
      BY ONLY <1>a, <3>1, <3>2, j \in 1 .. n
  <2>. QED
    BY ONLY n = Len(s), <2>2, <2>3, <2>4, <2>7, s \in Seq(X), ListsEqual
<1>. QED
  BY ONLY <1>3, <1>4, <1>5

\* A list with others put in holds both.
LEMMA SpliceFacts ==
  ASSUME NEW X, NEW s \in Seq(X), NEW i, NEW xs \in Seq(X), NEW t, SplicedAt(s, i, xs, t)
  PROVE  /\ t \in Seq(X) /\ ToSet(t) = ToSet(s) \cup ToSet(xs)
         /\ IsInjective(s) /\ IsInjective(xs) /\ ToSet(s) \cap ToSet(xs) = {} => IsInjective(t)
<1>1. PICK l : l = SubSeq(s, 1, i - 1)
  OBVIOUS
<1>2. PICK r : r = SubSeq(s, i, Len(s))
  OBVIOUS
<1>a. CutAt(s, i, l, r)
  BY <1>1, <1>2, Zenon DEF CutAt, SplicedAt
<1>3. /\ l \in Seq(X) /\ r \in Seq(X) /\ ToSet(l) \cup ToSet(r) = ToSet(s)
      /\ IsInjective(s) => IsInjective(l) /\ IsInjective(r) /\ ToSet(l) \cap ToSet(r) = {}
  BY ONLY <1>a, s \in Seq(X), CutFacts
<1>4. /\ l \o xs \in Seq(X) /\ ToSet(l \o xs) = ToSet(l) \cup ToSet(xs)
      /\ IsInjective(l) /\ IsInjective(xs) /\ ToSet(l) \cap ToSet(xs) = {} => IsInjective(l \o xs)
  BY <1>3, ConcatFacts
<1>5. PICK m : m = l \o xs
  OBVIOUS
<1>6. /\ m \o r \in Seq(X) /\ ToSet(m \o r) = ToSet(m) \cup ToSet(r)
      /\ IsInjective(m) /\ IsInjective(r) /\ ToSet(m) \cap ToSet(r) = {} => IsInjective(m \o r)
  <2>1. m \in Seq(X) /\ r \in Seq(X)
    BY <1>3, <1>4, <1>5, Zenon
  <2>. QED
    BY ONLY <2>1, ConcatFacts
<1>7. t = m \o r
  BY <1>1, <1>2, <1>5, Zenon DEF SplicedAt
<1>. QED
  BY ONLY <1>3, <1>4, <1>5, <1>6, <1>7

\* Every entry of a list over X is in X, and in the list's range.
LEMMA RangeTypes ==
  ASSUME NEW X, NEW s \in Seq(X)
  PROVE  ToSet(s) \subseteq X /\ \A i \in DOMAIN s : s[i] \in X /\ s[i] \in ToSet(s)
BY DEF ToSet

-----------------------------------------------------------------------------
(***************************************************************************)
(* Lists that nodes have of other nodes, when every set of nodes has a     *)
(* lowest one; and what a node leads to, in depth first order.             *)
(***************************************************************************)
Bottomed(N, k) == \A S \in SUBSET N : S # {} => \E n \in S : ToSet(k[n]) \cap S = {}

ClosedIn(N, k, S) == S \in SUBSET N /\ \A n \in S : ToSet(k[n]) \subseteq S

DepthFirst(N, k, n) ==
  LET pre[m \in N] == <<m>> \o FlattenSeq([i \in DOMAIN k[m] |-> pre[k[m][i]]])
  IN  pre[n]

\* The entries of the lists are nodes.
LEMMA EntriesTyped ==
  ASSUME NEW N, NEW k \in [N -> Seq(N)], NEW n \in N
  PROVE  /\ k[n] \in Seq(N) /\ ToSet(k[n]) \subseteq N
         /\ \A i \in DOMAIN k[n] : k[n][i] \in N /\ k[n][i] \in ToSet(k[n])
<1>1. k[n] \in Seq(N)
  OBVIOUS
<1>2. PICK s \in Seq(N) : s = k[n]
  BY <1>1
<1>3. \A i \in DOMAIN s : s[i] \in N /\ s[i] \in ToSet(s)
  BY DEF ToSet
<1>4. ToSet(s) \subseteq N
  BY DEF ToSet
<1>. QED
  BY <1>2, <1>3, <1>4

\* What passes from the entries of a node to the node holds of every node.
LEMMA BottomInduction ==
  ASSUME NEW N, NEW k \in [N -> Seq(N)], Bottomed(N, k), NEW T \in SUBSET N,
         \A m \in N : ToSet(k[m]) \subseteq T => m \in T
  PROVE  T = N
<1>. SUFFICES ASSUME N \ T # {} PROVE FALSE
  OBVIOUS
<1>1. PICK m \in N \ T : ToSet(k[m]) \cap (N \ T) = {}
  BY DEF Bottomed
<1>2. ToSet(k[m]) \subseteq N
  BY EntriesTyped
<1>. QED
  BY <1>1, <1>2

(***************************************************************************)
(* The recursion of DepthFirst has a solution: the least relation closed   *)
(* under it is a function.                                                 *)
(***************************************************************************)
Rooted(m, t) == <<m>> \o FlattenSeq(t)

PreClosed(N, k, W) ==
  \A m \in N : \A t \in [DOMAIN k[m] -> Seq(N)] :
    (\A i \in DOMAIN k[m] : <<k[m][i], t[i]>> \in W) => <<m, Rooted(m, t)>> \in W

PreVal(N, k) ==
  {e \in N \X Seq(N) : \A W \in SUBSET (N \X Seq(N)) : PreClosed(N, k, W) => e \in W}

IsPre(N, k, f) == f = [m \in N |-> Rooted(m, [i \in DOMAIN k[m] |-> f[k[m][i]]])]

\* A node before the lists of its subtrees: its type, its range and when it
\* repeats nothing.
LEMMA RootedTyped ==
  ASSUME NEW N, NEW s \in Seq(N), NEW m \in N, NEW t \in [DOMAIN s -> Seq(N)]
  PROVE  /\ Rooted(m, t) \in Seq(N) /\ Rooted(m, t) # <<>> /\ Head(Rooted(m, t)) = m
         /\ ToSet(Rooted(m, t)) = {m} \cup UNION {ToSet(t[i]) : i \in DOMAIN s}
         /\ Apart(t) /\ (\A i \in DOMAIN s : m \notin ToSet(t[i])) => IsInjective(Rooted(m, t))
<1>1. t \in Seq(Seq(N)) /\ DOMAIN t = DOMAIN s
  OBVIOUS
<1>2. /\ FlattenSeq(t) \in Seq(N)
      /\ ToSet(FlattenSeq(t)) = UNION {ToSet(t[i]) : i \in DOMAIN t}
      /\ Apart(t) => IsInjective(FlattenSeq(t))
  BY <1>1, FlattenFacts
<1>. DEFINE r == FlattenSeq(t)
<1>3. r \in Seq(N)
  BY <1>2
<1>. HIDE DEF r
<1>4. <<m>> \in Seq(N) /\ ToSet(<<m>>) = {m} /\ IsInjective(<<m>>)
  BY DEF ToSet, IsInjective
<1>5. /\ <<m>> \o r \in Seq(N) /\ ToSet(<<m>> \o r) = ToSet(<<m>>) \cup ToSet(r)
      /\ IsInjective(<<m>>) /\ IsInjective(r) /\ ToSet(<<m>>) \cap ToSet(r) = {} => IsInjective(<<m>> \o r)
  BY <1>3, <1>4, ConcatFacts
<1>6. <<m>> \o r # <<>> /\ Head(<<m>> \o r) = m
  BY <1>3
<1>7. Rooted(m, t) = <<m>> \o r
  BY DEF Rooted, r
<1>8. ToSet(r) = UNION {ToSet(t[i]) : i \in DOMAIN s} /\ (Apart(t) => IsInjective(r))
  BY <1>1, <1>2 DEF r
<1>9. (\A i \in DOMAIN s : m \notin ToSet(t[i])) => {m} \cap ToSet(r) = {}
  BY <1>8
<1>. QED
  BY <1>4, <1>5, <1>6, <1>7, <1>8, <1>9

\* The relation that lists subtrees relates a node to the lists its children
\* get.
LEMMA PreValClosed ==
  ASSUME NEW N, NEW k \in [N -> Seq(N)]
  PROVE  PreClosed(N, k, PreVal(N, k))
<1>. SUFFICES ASSUME NEW m \in N, NEW t \in [DOMAIN k[m] -> Seq(N)],
                     \A i \in DOMAIN k[m] : <<k[m][i], t[i]>> \in PreVal(N, k)
              PROVE  <<m, Rooted(m, t)>> \in PreVal(N, k)
  BY DEF PreClosed
<1>1. Rooted(m, t) \in Seq(N)
  BY EntriesTyped, RootedTyped
<1>2. ASSUME NEW W \in SUBSET (N \X Seq(N)), PreClosed(N, k, W)
      PROVE  <<m, Rooted(m, t)>> \in W
  <2>1. \A i \in DOMAIN k[m] : <<k[m][i], t[i]>> \in W
    BY <1>2, Zenon DEF PreVal
  <2>. QED
    BY <1>2, <2>1, Zenon DEF PreClosed
<1>3. <<m, Rooted(m, t)>> \in N \X Seq(N)
  BY <1>1
<1>. QED
  BY <1>2, <1>3, Zenon DEF PreVal

SingleList(N, k, m) == \E s \in Seq(N) : <<m, s>> \in PreVal(N, k) /\ \A r : <<m, r>> \in PreVal(N, k) => r = s

\* In trees without a cycle that relation gives each node one list.
LEMMA PreValSingle ==
  ASSUME NEW N, NEW k \in [N -> Seq(N)], Bottomed(N, k)
  PROVE  \A m \in N : SingleList(N, k, m)
<1>. DEFINE T == {m \in N : SingleList(N, k, m)}
<1>1. ASSUME NEW m \in N, ToSet(k[m]) \subseteq T PROVE m \in T
  <2>. DEFINE t == [i \in DOMAIN k[m] |-> CHOOSE s : <<k[m][i], s>> \in PreVal(N, k)]
  <2>0. \A i \in DOMAIN k[m] : k[m][i] \in ToSet(k[m])
    BY EntriesTyped
  <2>1. \A i \in DOMAIN k[m] : SingleList(N, k, k[m][i])
    BY <1>1, <2>0
  <2>2. ASSUME NEW i \in DOMAIN k[m]
        PROVE  t[i] \in Seq(N) /\ <<k[m][i], t[i]>> \in PreVal(N, k)
               /\ \A r : <<k[m][i], r>> \in PreVal(N, k) => r = t[i]
    <3>1. PICK s \in Seq(N) : <<k[m][i], s>> \in PreVal(N, k) /\ \A r : <<k[m][i], r>> \in PreVal(N, k) => r = s
      BY <2>1, Zenon DEF SingleList
    <3>. QED
      BY <3>1, Zenon
  <2>3. t \in [DOMAIN k[m] -> Seq(N)]
    BY <2>2
  <2>. HIDE DEF t
  <2>4. <<m, Rooted(m, t)>> \in PreVal(N, k)
    BY <2>2, <2>3, PreValClosed, Zenon DEF PreClosed
  <2>5. Rooted(m, t) \in Seq(N)
    BY <2>3, EntriesTyped, RootedTyped
  <2>6. ASSUME NEW w, <<m, w>> \in PreVal(N, k), w # Rooted(m, t) PROVE FALSE
    <3>. DEFINE W == PreVal(N, k) \ {<<m, w>>}
    <3>1. W \in SUBSET (N \X Seq(N))
      BY DEF PreVal
    <3>2. ASSUME NEW n \in N, NEW u \in [DOMAIN k[n] -> Seq(N)],
                 \A i \in DOMAIN k[n] : <<k[n][i], u[i]>> \in W
          PROVE  <<n, Rooted(n, u)>> \in W
      <4>1. \A i \in DOMAIN k[n] : <<k[n][i], u[i]>> \in PreVal(N, k)
        BY <3>2
      <4>2. <<n, Rooted(n, u)>> \in PreVal(N, k)
        BY <4>1, PreValClosed, Zenon DEF PreClosed
      <4>3. ASSUME n = m PROVE u = t
        <5>1. \A i \in DOMAIN k[m] : u[i] = t[i]
          BY <2>2, <4>1, <4>3
        <5>. QED
          BY <2>3, <4>3, <5>1
      <4>4. <<n, Rooted(n, u)>> # <<m, w>>
        BY <2>6, <4>3
      <4>. QED
        BY <4>2, <4>4
    <3>3. PreClosed(N, k, W)
      BY <3>2, Zenon DEF PreClosed
    <3>4. <<m, w>> \in W
      BY <2>6, <3>1, <3>3, Zenon DEF PreVal
    <3>. QED
      BY <3>4
  <2>7. SingleList(N, k, m)
    BY <2>4, <2>5, <2>6, Zenon DEF SingleList
  <2>. QED
    BY <2>7
<1>. HIDE DEF T
<1>2. T \in SUBSET N
  BY DEF T
<1>3. T = N
  BY <1>1, <1>2, BottomInduction
<1>. QED
  BY <1>3 DEF T

\* So the recursive function that DepthFirst names exists.
LEMMA PreExists ==
  ASSUME NEW N, NEW k \in [N -> Seq(N)], Bottomed(N, k)
  PROVE  \E f \in [N -> Seq(N)] : IsPre(N, k, f)
<1>. DEFINE f == [m \in N |-> CHOOSE s : <<m, s>> \in PreVal(N, k)]
<1>1. ASSUME NEW m \in N
      PROVE  f[m] \in Seq(N) /\ <<m, f[m]>> \in PreVal(N, k) /\ \A r : <<m, r>> \in PreVal(N, k) => r = f[m]
  <2>1. PICK s \in Seq(N) : <<m, s>> \in PreVal(N, k) /\ \A r : <<m, r>> \in PreVal(N, k) => r = s
    BY PreValSingle, Zenon DEF SingleList
  <2>. QED
    BY <2>1, Zenon
<1>2. f \in [N -> Seq(N)]
  BY <1>1
<1>. HIDE DEF f
<1>3. ASSUME NEW m \in N PROVE f[m] = Rooted(m, [i \in DOMAIN k[m] |-> f[k[m][i]]])
  <2>. DEFINE t == [i \in DOMAIN k[m] |-> f[k[m][i]]]
  <2>1. \A i \in DOMAIN k[m] : k[m][i] \in N
    BY EntriesTyped
  <2>2. t \in [DOMAIN k[m] -> Seq(N)]
    BY <1>2, <2>1
  <2>3. \A i \in DOMAIN k[m] : <<k[m][i], t[i]>> \in PreVal(N, k)
    BY <1>1, <2>1
  <2>. HIDE DEF t
  <2>4. <<m, Rooted(m, t)>> \in PreVal(N, k)
    BY <2>2, <2>3, PreValClosed, Zenon DEF PreClosed
  <2>5. f[m] = Rooted(m, t)
    BY <1>1, <2>4
  <2>. QED
    BY <2>5 DEF t
<1>4. f = [m \in N |-> f[m]]
  BY <1>2
<1>5. IsPre(N, k, f)
  BY <1>3, <1>4, Zenon DEF IsPre
<1>. QED
  BY <1>2, <1>5

(***************************************************************************)
(* What DepthFirst lists, without its recursion: the least set that holds  *)
(* the node and is closed under taking children.                           *)
(***************************************************************************)
Reach(N, k, a) == ToSet(DepthFirst(N, k, a))

\* DepthFirst is the node before the preorders of its children.
LEMMA DepthFirstUnfolds ==
  ASSUME NEW N, NEW k \in [N -> Seq(N)], Bottomed(N, k), NEW a \in N
  PROVE  \E t \in [DOMAIN k[a] -> Seq(N)] :
           /\ \A i \in DOMAIN k[a] : t[i] = DepthFirst(N, k, k[a][i])
           /\ DepthFirst(N, k, a) = Rooted(a, t)
<1>. DEFINE f == CHOOSE f : IsPre(N, k, f)
<1>1. IsPre(N, k, f)
  BY PreExists, Zenon
<1>2. \A n : DepthFirst(N, k, n) = f[n]
  BY Zenon DEF DepthFirst, IsPre, Rooted
<1>. HIDE DEF f
<1>3. \A m \in N : f[m] = Rooted(m, [i \in DOMAIN k[m] |-> f[k[m][i]]])
  BY <1>1, Zenon DEF IsPre
<1>. DEFINE T == {m \in N : f[m] \in Seq(N)}
<1>4. ASSUME NEW m \in N, ToSet(k[m]) \subseteq T PROVE m \in T
  <2>1. \A i \in DOMAIN k[m] : f[k[m][i]] \in Seq(N)
    BY <1>4, EntriesTyped
  <2>2. [i \in DOMAIN k[m] |-> f[k[m][i]]] \in [DOMAIN k[m] -> Seq(N)]
    BY <2>1
  <2>3. k[m] \in Seq(N)
    OBVIOUS
  <2>4. Rooted(m, [i \in DOMAIN k[m] |-> f[k[m][i]]]) \in Seq(N)
    BY <2>2, <2>3, RootedTyped
  <2>. QED
    BY <1>3, <2>4
<1>5. T = N
  <2>. HIDE DEF T
  <2>1. T \in SUBSET N
    BY DEF T
  <2>. QED
    BY <1>4, <2>1, BottomInduction
<1>. DEFINE t == [i \in DOMAIN k[a] |-> f[k[a][i]]]
<1>6. t \in [DOMAIN k[a] -> Seq(N)]
  BY <1>5, EntriesTyped
<1>7. f[a] = Rooted(a, t) /\ \A i \in DOMAIN k[a] : t[i] = f[k[a][i]]
  BY <1>3
<1>. QED
  BY <1>2, <1>6, <1>7

\* A subtree is its node and the subtrees of the node's children.
LEMMA ReachUnfolds ==
  ASSUME NEW N, NEW k \in [N -> Seq(N)], Bottomed(N, k), NEW a \in N
  PROVE  /\ DepthFirst(N, k, a) \in Seq(N) /\ DepthFirst(N, k, a) # <<>> /\ Head(DepthFirst(N, k, a)) = a
         /\ Reach(N, k, a) \subseteq N /\ a \in Reach(N, k, a)
         /\ Reach(N, k, a) = {a} \cup UNION {Reach(N, k, c) : c \in ToSet(k[a])}
<1>1. PICK t \in [DOMAIN k[a] -> Seq(N)] :
        (\A i \in DOMAIN k[a] : t[i] = DepthFirst(N, k, k[a][i])) /\ DepthFirst(N, k, a) = Rooted(a, t)
  BY DepthFirstUnfolds
<1>2. k[a] \in Seq(N) /\ t \in [DOMAIN k[a] -> Seq(N)] /\ a \in N
  OBVIOUS
<1>3. /\ Rooted(a, t) \in Seq(N) /\ Rooted(a, t) # <<>> /\ Head(Rooted(a, t)) = a
      /\ ToSet(Rooted(a, t)) = {a} \cup UNION {ToSet(t[i]) : i \in DOMAIN k[a]}
  <2>1. PICK s : s = k[a]
    OBVIOUS
  <2>2. s \in Seq(N) /\ t \in [DOMAIN s -> Seq(N)] /\ a \in N
    BY <1>2, <2>1
  <2>3. /\ Rooted(a, t) \in Seq(N) /\ Rooted(a, t) # <<>> /\ Head(Rooted(a, t)) = a
        /\ ToSet(Rooted(a, t)) = {a} \cup UNION {ToSet(t[i]) : i \in DOMAIN s}
    BY ONLY <2>2, RootedTyped
  <2>. QED
    BY ONLY <2>1, <2>3
<1>4. \A i \in DOMAIN k[a] : ToSet(t[i]) = Reach(N, k, k[a][i])
  BY <1>1, Zenon DEF Reach
<1>5. UNION {ToSet(t[i]) : i \in DOMAIN k[a]} = UNION {Reach(N, k, c) : c \in ToSet(k[a])}
  <2>1. ToSet(k[a]) = {k[a][i] : i \in DOMAIN k[a]}
    BY Zenon DEF ToSet
  <2>. QED
    BY ONLY <1>4, <2>1
<1>6. Reach(N, k, a) = ToSet(Rooted(a, t))
  BY <1>1, Zenon DEF Reach
<1>7. ToSet(Rooted(a, t)) \subseteq N
  BY <1>3, RangeTypes
<1>. QED
  BY ONLY <1>1, <1>3, <1>5, <1>6, <1>7

\* A subtree holds the children of its nodes.
LEMMA ReachClosed ==
  ASSUME NEW N, NEW k \in [N -> Seq(N)], Bottomed(N, k), NEW a \in N
  PROVE  ClosedIn(N, k, Reach(N, k, a))
<1>. DEFINE T == {n \in N : \A x \in Reach(N, k, n) : ToSet(k[x]) \subseteq Reach(N, k, n)}
<1>1. ASSUME NEW n \in N, ToSet(k[n]) \subseteq T PROVE n \in T
  <2>1. Reach(N, k, n) = {n} \cup UNION {Reach(N, k, c) : c \in ToSet(k[n])}
    BY ReachUnfolds
  <2>2. \A c \in ToSet(k[n]) : c \in N /\ c \in Reach(N, k, c)
    BY EntriesTyped, ReachUnfolds
  <2>3. \A x \in Reach(N, k, n) : ToSet(k[x]) \subseteq Reach(N, k, n)
    <3>. TAKE x \in Reach(N, k, n)
    <3>1. CASE x = n
      BY <2>1, <2>2, <3>1
    <3>2. CASE x # n
      <4>1. PICK c \in ToSet(k[n]) : x \in Reach(N, k, c)
        BY <2>1, <3>2
      <4>2. ToSet(k[x]) \subseteq Reach(N, k, c)
        BY <1>1, <4>1
      <4>. QED
        BY <2>1, <4>1, <4>2
    <3>. QED
      BY <3>1, <3>2
  <2>. QED
    BY <2>3
<1>. HIDE DEF T
<1>2. T = N
  <2>1. T \in SUBSET N
    BY DEF T
  <2>. QED
    BY <1>1, <2>1, BottomInduction
<1>3. a \in T
  BY <1>2
<1>4. Reach(N, k, a) \subseteq N
  BY ReachUnfolds
<1>. QED
  BY <1>3, <1>4 DEF T, ClosedIn

\* A subtree is within every set that does so.
LEMMA ReachLeast ==
  ASSUME NEW N, NEW k \in [N -> Seq(N)], Bottomed(N, k), NEW S, ClosedIn(N, k, S), NEW a \in S
  PROVE  Reach(N, k, a) \subseteq S
<1>. DEFINE T == {n \in N : n \in S => Reach(N, k, n) \subseteq S}
<1>1. ASSUME NEW n \in N, ToSet(k[n]) \subseteq T PROVE n \in T
  <2>. SUFFICES ASSUME n \in S PROVE Reach(N, k, n) \subseteq S
    OBVIOUS
  <2>1. Reach(N, k, n) = {n} \cup UNION {Reach(N, k, c) : c \in ToSet(k[n])}
    BY ReachUnfolds
  <2>2. ToSet(k[n]) \subseteq S
    BY DEF ClosedIn
  <2>. QED
    BY <1>1, <2>1, <2>2
<1>. HIDE DEF T
<1>2. T = N
  <2>1. T \in SUBSET N
    BY DEF T
  <2>. QED
    BY <1>1, <2>1, BottomInduction
<1>3. a \in T
  BY <1>2 DEF ClosedIn
<1>. QED
  BY <1>3 DEF T
=============================================================================
