---------------------------- MODULE ArenaProofs ----------------------------
(***************************************************************************)
(* However many slots, generations and allocations an arena has, a stale   *)
(* handle reads nothing and the free list is exact.                        *)
(***************************************************************************)
EXTENDS Arena, FiniteSetTheorems, TLAPS

USE ArenaAssumption

(***************************************************************************)
(* No handle is ahead of its slot: a slot's next occupant gets a           *)
(* generation no handle of the slot carries yet.                           *)
(***************************************************************************)
MintedBehind ==
  \A m \in minted :
    /\ m[1].slot \in DOMAIN slots
    /\ m[1].generation <= slots[m[1].slot].generation

(***************************************************************************)
(* The entries of the free list are vacated slots.                         *)
(***************************************************************************)
FreeVacated ==
  \A k \in DOMAIN free : free[k] \in DOMAIN slots /\ slots[free[k]].value = Empty

IInv == TypeOK /\ MintedBehind /\ NoAlias /\ FreeVacated /\ FreeListExact

LEMMA IInvInit == Init => IInv
BY DEF Init, IInv, TypeOK, MintedBehind, NoAlias, FreeVacated, FreeListExact

(***************************************************************************)
(* Recycling the slot at entry k of the free list.                         *)
(***************************************************************************)
LEMMA ReuseKeeps ==
  ASSUME IInv, allocated < MaxAllocations, NEW k \in DOMAIN free, Reusable(k), Reuse(k)
  PROVE  IInv'
<1>. DEFINE i == free[k]
            g == slots[i].generation + 1
<1>1. i \in DOMAIN slots /\ slots[i].value = Empty
  BY DEF IInv, FreeVacated
<1>2. /\ slots \in Seq(Slot) /\ Len(slots) <= MaxSlots /\ free \in Seq(1 .. MaxSlots)
      /\ len \in Int /\ allocated \in Nat
  BY DEF IInv, TypeOK
<1>3. slots[i] \in Slot
  BY <1>1, <1>2
<1>4. slots[i].generation \in 0 .. MAX_GENERATION /\ slots[i].generation # MAX_GENERATION
  BY <1>3 DEF Reusable, Retired, Slot
<1>5. g \in 1 .. MAX_GENERATION /\ allocated + 1 \in Value /\ i \in 1 .. MaxSlots
  BY <1>1, <1>2, <1>4 DEF Value
<1>6. /\ slots' = [slots EXCEPT ![i] = [generation |-> g, value |-> allocated + 1]]
      /\ free' = SubSeq(free, 1, k - 1)
      /\ minted' = minted \cup {<<[slot |-> i, generation |-> g], allocated + 1>>}
      /\ allocated' = allocated + 1 /\ len' = len + 1
  BY DEF Reuse, Minted, Occupied
<1>7. /\ DOMAIN slots' = DOMAIN slots /\ Len(slots') = Len(slots)
      /\ slots'[i] = [generation |-> g, value |-> allocated + 1]
      /\ \A j \in DOMAIN slots \ {i} : slots'[j] = slots[j]
  BY <1>1, <1>2, <1>6
<1>8. DOMAIN free' = 1 .. k - 1 /\ \A j \in 1 .. k - 1 : j \in DOMAIN free /\ free'[j] = free[j]
  BY <1>2, <1>6
<1>9. TypeOK'
  <2>1. [generation |-> g, value |-> allocated + 1] \in Slot
    BY <1>5 DEF Slot
  <2>2. slots' \in Seq(Slot)
    BY <1>1, <1>2, <1>6, <2>1
  <2>3. free' \in Seq(1 .. MaxSlots)
    BY <1>2, <1>6
  <2>4. <<[slot |-> i, generation |-> g], allocated + 1>> \in NodeId \X Value
    BY <1>5 DEF NodeId
  <2>5. minted' \in SUBSET (NodeId \X Value)
    BY <1>6, <2>4 DEF IInv, TypeOK
  <2>. QED
    BY <1>2, <1>5, <1>6, <1>7, <2>2, <2>3, <2>5 DEF TypeOK, Value
<1>. HIDE DEF i, g
<1>10. \A m \in minted : m[1].slot \in DOMAIN slots
                         /\ (m[1].slot = i => m[1].generation < g)
  BY <1>4 DEF IInv, MintedBehind, TypeOK, NodeId, g
<1>11. MintedBehind'
  <2>. SUFFICES ASSUME NEW m \in minted'
                PROVE  /\ m[1].slot \in DOMAIN slots'
                       /\ m[1].generation <= slots'[m[1].slot].generation
    BY DEF MintedBehind
  <2>1. CASE m \in minted
    <3>1. m[1].slot \in DOMAIN slots
            /\ m[1].generation <= slots[m[1].slot].generation
      BY <2>1 DEF IInv, MintedBehind
    <3>2. CASE m[1].slot = i
      <4>1. m[1].generation < g /\ slots'[m[1].slot].generation = g
        BY <1>7, <1>10, <2>1, <3>2
      <4>2. m[1] \in NodeId
        BY <2>1 DEF IInv, TypeOK
      <4>3. m[1].generation \in Nat /\ g \in Nat
        BY <1>5, <4>2 DEF NodeId
      <4>. QED
        BY <1>7, <3>1, <4>1, <4>3
    <3>3. CASE m[1].slot # i
      BY <1>7, <3>1, <3>3
    <3>. QED
      BY <3>2, <3>3
  <2>2. CASE m = <<[slot |-> i, generation |-> g], allocated + 1>>
    BY <1>1, <1>5, <1>7, <2>2 DEF i
  <2>. QED
    BY <1>6, <2>1, <2>2
<1>12. NoAlias'
  <2>. SUFFICES ASSUME NEW m \in minted', Contains(m[1])'
                PROVE  slots'[m[1].slot].value = m[2]
    BY DEF NoAlias, Get
  <2>1. CASE m \in minted
    <3>1. m[1].slot # i
      BY <1>5, <1>7, <1>10, <2>1 DEF Contains, IInv, TypeOK, NodeId
    <3>2. slots'[m[1].slot] = slots[m[1].slot]
      BY <1>7, <1>10, <2>1, <3>1
    <3>. QED
      BY <1>7, <2>1, <3>2 DEF Contains, IInv, NoAlias, Get
  <2>2. CASE m = <<[slot |-> i, generation |-> g], allocated + 1>>
    BY <1>7, <2>2
  <2>. QED
    BY <1>6, <2>1, <2>2
<1>13. \A j, l \in DOMAIN free : free[j] = free[l] => j = l
  BY DEF IInv, FreeListExact
<1>14. \A j \in 1 .. k - 1 : free[j] # i /\ free'[j] = free[j]
  BY <1>2, <1>8, <1>13 DEF i
<1>15. FreeVacated'
  BY <1>7, <1>8, <1>14 DEF FreeVacated, IInv
<1>16. FreeListExact'
  <2>1. \A j, l \in DOMAIN free' : free'[j] = free'[l] => j = l
    BY <1>8, <1>13
  <2>2. ASSUME NEW s \in DOMAIN slots', ~ Retired(s)'
        PROVE  slots'[s].value = Empty <=> \E j \in DOMAIN free' : free'[j] = s
    <3>1. CASE s = i
      BY <1>2, <1>5, <1>7, <1>8, <1>14, <3>1 DEF Value, Empty
    <3>2. CASE s # i
      <4>1. slots'[s] = slots[s] /\ s \in DOMAIN slots /\ ~ Retired(s)
        BY <1>7, <2>2, <3>2 DEF Retired
      <4>2. slots[s].value = Empty <=> \E j \in DOMAIN free : free[j] = s
        BY <4>1 DEF IInv, FreeListExact
      <4>3. ASSUME NEW j \in DOMAIN free, free[j] = s PROVE j \in 1 .. k - 1
        <5>1. ~ (j \in k + 1 .. Len(free))
          BY <2>2, <4>1, <4>3 DEF Reusable, Retired
        <5>2. j # k
          BY <3>2, <4>3 DEF i
        <5>3. j \in 1 .. Len(free) /\ k \in 1 .. Len(free)
          BY <1>2
        <5>. QED
          BY <5>1, <5>2, <5>3
      <4>. QED
        BY <1>8, <4>1, <4>2, <4>3
    <3>. QED
      BY <3>1, <3>2
  <2>. QED
    BY <2>1, <2>2 DEF FreeListExact
<1>. QED
  BY <1>9, <1>11, <1>12, <1>15, <1>16 DEF IInv

(***************************************************************************)
(* A slot appended to the storage: no handle of it exists yet, and no      *)
(* entry of the free list is lost but retired ones.                        *)
(***************************************************************************)
LEMMA FreshKeeps ==
  ASSUME IInv, AllocateFresh
  PROVE  IInv'
<1>. DEFINE i == Len(slots) + 1
            node == [generation |-> 0, value |-> allocated + 1]
            m0 == <<[slot |-> i, generation |-> 0], allocated + 1>>
<1>1. /\ slots \in Seq(Slot) /\ Len(slots) <= MaxSlots /\ len \in Int
      /\ allocated \in 0 .. MaxAllocations /\ minted \in SUBSET (NodeId \X Value)
  BY DEF IInv, TypeOK
<1>2. /\ allocated + 1 \in Value /\ i \in 1 .. MaxSlots
      /\ slots' = Append(slots, node) /\ free' = <<>>
      /\ minted' = minted \cup {m0}
      /\ allocated' = allocated + 1 /\ len' = len + 1
      /\ \A j \in DOMAIN free : Retired(free[j])
  BY <1>1 DEF AllocateFresh, Minted, Occupied, Value, NoneReusable
<1>3. /\ DOMAIN slots' = DOMAIN slots \cup {i} /\ i \notin DOMAIN slots
      /\ slots'[i] = node /\ Len(slots') = i
      /\ \A j \in DOMAIN slots : slots'[j] = slots[j]
  BY <1>1, <1>2
<1>4. TypeOK'
  <2>1. node \in Slot
    BY <1>2 DEF Slot
  <2>2. slots' \in Seq(Slot)
    BY <1>1, <1>2, <2>1
  <2>3. m0 \in NodeId \X Value
    BY <1>2 DEF NodeId
  <2>4. minted' \in SUBSET (NodeId \X Value)
    BY <1>1, <1>2, <2>3
  <2>. QED
    BY <1>1, <1>2, <1>3, <2>2, <2>4 DEF TypeOK, Value
<1>5. \A m \in minted : m[1].slot \in DOMAIN slots
  BY DEF IInv, MintedBehind
<1>6. MintedBehind'
  <2>1. ASSUME NEW m \in minted
        PROVE  /\ m[1].slot \in DOMAIN slots'
               /\ m[1].generation <= slots'[m[1].slot].generation
    BY <1>3, <1>5, <2>1 DEF IInv, MintedBehind
  <2>2. m0[1].slot \in DOMAIN slots' /\ m0[1].generation <= slots'[m0[1].slot].generation
    BY <1>3
  <2>. QED
    BY <1>2, <2>1, <2>2 DEF MintedBehind
<1>7. NoAlias'
  <2>. SUFFICES ASSUME NEW m \in minted', Contains(m[1])'
                PROVE  slots'[m[1].slot].value = m[2]
    BY DEF NoAlias, Get
  <2>1. CASE m \in minted
    BY <1>3, <1>5, <2>1 DEF IInv, NoAlias, Contains, Get
  <2>2. CASE m = m0
    BY <1>3, <2>2
  <2>. QED
    BY <1>2, <2>1, <2>2
<1>8. FreeVacated'
  BY <1>2 DEF FreeVacated
<1>9. FreeListExact'
  <2>1. ASSUME NEW s \in DOMAIN slots', ~ Retired(s)'
        PROVE  slots'[s].value # Empty
    <3>1. CASE s = i
      BY <1>2, <1>3, <3>1 DEF Value, Empty
    <3>2. CASE s # i
      BY <1>2, <1>3, <2>1, <3>2 DEF IInv, FreeListExact, Retired
    <3>. QED
      BY <3>1, <3>2
  <2>. QED
    BY <1>2, <2>1 DEF FreeListExact
<1>. QED
  BY <1>4, <1>6, <1>7, <1>8, <1>9 DEF IInv

(***************************************************************************)
(* A node removed from its slot.                                           *)
(***************************************************************************)
LEMMA RemoveKeeps ==
  ASSUME IInv, NEW m0 \in minted, Remove(m0[1])
  PROVE  IInv'
<1>. DEFINE i == m0[1].slot
<1>1. /\ slots \in Seq(Slot) /\ Len(slots) <= MaxSlots /\ free \in Seq(1 .. MaxSlots)
      /\ len \in Int /\ i \in DOMAIN slots /\ slots[i].value # Empty
  BY DEF IInv, TypeOK, Remove, Contains
<1>2. /\ slots' = [slots EXCEPT ![i].value = Empty] /\ free' = Append(free, i)
      /\ len' = len - 1 /\ UNCHANGED <<allocated, minted>>
  BY DEF Remove
<1>3. slots[i] \in Slot
  BY <1>1
<1>4. /\ DOMAIN slots' = DOMAIN slots /\ Len(slots') = Len(slots)
      /\ slots'[i] = [slots[i] EXCEPT !.value = Empty]
      /\ \A j \in DOMAIN slots \ {i} : slots'[j] = slots[j]
  BY <1>1, <1>2
<1>5. slots'[i] \in Slot /\ slots'[i].value = Empty
        /\ slots'[i].generation = slots[i].generation
  BY <1>3, <1>4 DEF Slot
<1>6. /\ DOMAIN free' = DOMAIN free \cup {Len(free) + 1}
      /\ Len(free) + 1 \notin DOMAIN free /\ free'[Len(free) + 1] = i
      /\ \A j \in DOMAIN free : free'[j] = free[j]
  BY <1>1, <1>2
<1>. HIDE DEF i
<1>7. \A j \in DOMAIN free : free[j] # i /\ free[j] \in DOMAIN slots
  BY <1>1 DEF IInv, FreeVacated
<1>8. TypeOK'
  <2>1. slots' \in Seq(Slot)
    BY <1>1, <1>4, <1>5, <1>2
  <2>2. free' \in Seq(1 .. MaxSlots)
    BY <1>1, <1>2
  <2>. QED
    BY <1>1, <1>2, <1>4, <2>1, <2>2 DEF IInv, TypeOK
<1>9. MintedBehind'
  BY <1>2, <1>4, <1>5 DEF IInv, MintedBehind
<1>10. NoAlias'
  BY <1>2, <1>4, <1>5 DEF IInv, NoAlias, Contains, Get
<1>11. FreeVacated'
  <2>1. ASSUME NEW k \in DOMAIN free'
        PROVE  free'[k] \in DOMAIN slots' /\ slots'[free'[k]].value = Empty
    <3>1. CASE k \in DOMAIN free
      BY <1>4, <1>6, <1>7, <3>1 DEF IInv, FreeVacated
    <3>2. CASE k = Len(free) + 1
      BY <1>1, <1>4, <1>5, <1>6, <3>2
    <3>. QED
      BY <1>6, <3>1, <3>2
  <2>. QED
    BY <2>1 DEF FreeVacated
<1>12. FreeListExact'
  <2>1. \A j, k \in DOMAIN free' : free'[j] = free'[k] => j = k
    BY <1>6, <1>7 DEF IInv, FreeListExact
  <2>2. ASSUME NEW s \in DOMAIN slots', ~ Retired(s)'
        PROVE  slots'[s].value = Empty <=> \E j \in DOMAIN free' : free'[j] = s
    <3>1. CASE s = i
      BY <1>5, <1>6, <3>1
    <3>2. CASE s # i
      <4>1. slots'[s] = slots[s] /\ s \in DOMAIN slots /\ ~ Retired(s)
        BY <1>4, <2>2, <3>2 DEF Retired
      <4>2. slots[s].value = Empty <=> \E j \in DOMAIN free : free[j] = s
        BY <4>1 DEF IInv, FreeListExact
      <4>. QED
        BY <1>6, <3>2, <4>1, <4>2
    <3>. QED
      BY <3>1, <3>2
  <2>. QED
    BY <2>1, <2>2 DEF FreeListExact
<1>. QED
  BY <1>8, <1>9, <1>10, <1>11, <1>12 DEF IInv

LEMMA IInvStep == IInv /\ [Next]_vars => IInv'
<1>. SUFFICES ASSUME IInv, [Next]_vars PROVE IInv'
  OBVIOUS
<1>1. CASE AllocateReused
  BY <1>1, ReuseKeeps DEF AllocateReused
<1>2. CASE AllocateFresh
  BY <1>2, FreshKeeps
<1>3. ASSUME NEW m \in minted, Remove(m[1]) PROVE IInv'
  BY <1>3, RemoveKeeps
<1>4. CASE UNCHANGED vars
  BY <1>4 DEF vars, IInv, TypeOK, MintedBehind, NoAlias, FreeVacated, FreeListExact,
              Contains, Get, Retired
<1>. QED
  BY <1>1, <1>2, <1>3, <1>4 DEF Next

LEMMA Invariance == Spec => []IInv
<1>1. Init => IInv
  BY IInvInit
<1>2. IInv /\ [Next]_vars => IInv'
  BY IInvStep
<1>. QED
  BY <1>1, <1>2, PTL DEF Spec

-----------------------------------------------------------------------------
(***************************************************************************)
(* The slots, the free list and the handles keep their types: generations  *)
(* never pass MAX_GENERATION.                                              *)
(***************************************************************************)
THEOREM TypeCorrect == Spec => []TypeOK
<1>1. IInv => TypeOK
  BY DEF IInv
<1>. QED
  BY <1>1, Invariance, PTL

(***************************************************************************)
(* A handle Arena::check accepts designates the node it was returned for.  *)
(***************************************************************************)
THEOREM HandlesNeverAlias == Spec => []NoAlias
<1>1. IInv => NoAlias
  BY DEF IInv
<1>. QED
  BY <1>1, Invariance, PTL

(***************************************************************************)
(* The free list holds every reusable vacated slot, and nothing twice.     *)
(***************************************************************************)
THEOREM FreeListAlwaysExact == Spec => []FreeListExact
<1>1. IInv => FreeListExact
  BY DEF IInv
<1>. QED
  BY <1>1, Invariance, PTL

-----------------------------------------------------------------------------
Occupants == {i \in DOMAIN slots : slots[i].value # Empty}

LEMMA LenExactStep == IInv /\ LenExact /\ [Next]_vars => LenExact'
<1>. SUFFICES ASSUME IInv, LenExact, [Next]_vars PROVE LenExact'
  OBVIOUS
<1>1. slots \in Seq(Slot) /\ len = Cardinality(Occupants) /\ len \in Int
      /\ allocated \in Nat
  BY DEF IInv, TypeOK, LenExact, Occupants
<1>2. IsFiniteSet(Occupants)
  <2>1. Len(slots) \in Int
    BY <1>1
  <2>2. IsFiniteSet(1 .. Len(slots))
    BY <2>1, FS_Interval
  <2>3. Occupants \in SUBSET (1 .. Len(slots))
    BY <1>1 DEF Occupants
  <2>. QED
    BY <2>2, <2>3, FS_Subset
<1>3. SUFFICES len' = Cardinality(Occupants')
  BY DEF LenExact, Occupants
<1>4. ASSUME NEW k \in DOMAIN free, Reuse(k) PROVE len' = Cardinality(Occupants')
  <2>1. free[k] \in DOMAIN slots /\ slots[free[k]].value = Empty
    BY DEF IInv, FreeVacated
  <2>2. slots' = [slots EXCEPT ![free[k]] = Occupied(slots[free[k]].generation + 1)]
        /\ len' = len + 1
    BY <1>4 DEF Reuse
  <2>3. Occupied(slots[free[k]].generation + 1).value # Empty
    BY <1>1 DEF Occupied, Empty
  <2>4. Occupants' = Occupants \cup {free[k]} /\ free[k] \notin Occupants
    BY <1>1, <2>1, <2>2, <2>3 DEF Occupants
  <2>. QED
    BY <1>1, <1>2, <2>2, <2>4, FS_AddElement
<1>5. CASE AllocateFresh
  <2>1. slots' = Append(slots, Occupied(0)) /\ len' = len + 1
    BY <1>5 DEF AllocateFresh
  <2>2. Occupied(0).value # Empty
    BY <1>1 DEF Occupied, Empty
  <2>3. Occupants' = Occupants \cup {Len(slots) + 1} /\ Len(slots) + 1 \notin Occupants
    BY <1>1, <2>1, <2>2 DEF Occupants
  <2>. QED
    BY <1>1, <1>2, <2>1, <2>3, FS_AddElement
<1>6. ASSUME NEW m \in minted, Remove(m[1]) PROVE len' = Cardinality(Occupants')
  <2>1. /\ m[1].slot \in DOMAIN slots /\ slots[m[1].slot].value # Empty
        /\ slots' = [slots EXCEPT ![m[1].slot].value = Empty] /\ len' = len - 1
    BY <1>6 DEF Remove, Contains
  <2>2. slots[m[1].slot] \in Slot
    BY <1>1, <2>1
  <2>3. slots'[m[1].slot].value = Empty
    BY <1>1, <2>1, <2>2 DEF Slot
  <2>4. Occupants' = Occupants \ {m[1].slot} /\ m[1].slot \in Occupants
    BY <1>1, <2>1, <2>3 DEF Occupants
  <2>. QED
    BY <1>1, <1>2, <2>1, <2>4, FS_RemoveElement
<1>7. CASE UNCHANGED vars
  BY <1>1, <1>7 DEF vars, Occupants
<1>. QED
  BY <1>4, <1>5, <1>6, <1>7 DEF Next, AllocateReused

(***************************************************************************)
(* len is the number of occupied slots.                                    *)
(***************************************************************************)
THEOREM LenAlwaysExact == Spec => []LenExact
<1>1. Init => LenExact
  BY FS_EmptySet DEF Init, LenExact
<1>2. IInv /\ LenExact /\ [Next]_vars => LenExact'
  BY LenExactStep
<1>. QED
  BY <1>1, <1>2, Invariance, PTL DEF Spec
=============================================================================
