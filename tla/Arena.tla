------------------------------- MODULE Arena -------------------------------
(***************************************************************************)
(* The generational slot arena every document keeps its nodes in           *)
(* (crates/mad-dom-core/src/arena).  A NodeId is a slot index and the      *)
(* generation the slot had when the node was allocated; the document id    *)
(* the code also stores in it is the same for every handle of one arena    *)
(* and is left out.  What the code stores in a slot (a Node) is modelled   *)
(* by its identity: the serial number of the allocation that stored it.    *)
(***************************************************************************)
EXTENDS Integers, Sequences, FiniteSets

CONSTANTS
  MAX_GENERATION,  \* the generation at which a slot is retired (u32::MAX)
  MaxSlots,        \* 2^32 slots; allocating one more panics
  MaxAllocations   \* bound on the number of allocations explored

ASSUME ArenaAssumption ==
  /\ MAX_GENERATION \in Nat
  /\ MaxSlots \in Nat
  /\ MaxAllocations \in Nat

VARIABLES
  slots,      \* the backing storage; slot indices start at 1
  free,       \* stack of recyclable slot indices, its top is its last element
  len,        \* number of live slots
  allocated,  \* number of successful allocations
  minted      \* history: <<handle, value>> for every handle ever returned

vars == <<slots, free, len, allocated, minted>>

Empty == 0                     \* a slot whose value was taken
Value == 1 .. MaxAllocations   \* serial numbers of allocations
Slot == [generation : 0 .. MAX_GENERATION, value : Value \cup {Empty}]
NodeId == [slot : 1 .. MaxSlots, generation : 0 .. MAX_GENERATION]

(***************************************************************************)
(* Arena::check, and the reads built on it: contains and get.              *)
(***************************************************************************)
Contains(id) ==
  /\ id.slot \in DOMAIN slots
  /\ slots[id.slot].value # Empty
  /\ slots[id.slot].generation = id.generation

Get(id) == slots[id.slot].value

(***************************************************************************)
(* next_generation: a slot at MAX_GENERATION has no next generation.       *)
(***************************************************************************)
RetiredNever(i) == FALSE  \* mutant: the generation counter has no cap

Retired(i) == slots[i].generation = MAX_GENERATION

(***************************************************************************)
(* The pops of Arena::allocate: retired slots on top of the stack are      *)
(* dropped; what is found is the highest entry that is not retired.        *)
(***************************************************************************)
Reusable(k) ==
  /\ k \in DOMAIN free
  /\ ~ Retired(free[k])
  /\ \A j \in k + 1 .. Len(free) : Retired(free[j])

NoneReusable == \A j \in DOMAIN free : Retired(free[j])

Minted(i, g) ==
  /\ allocated' = allocated + 1
  /\ minted' = minted \cup {<<[slot |-> i, generation |-> g], allocated + 1>>}

Occupied(g) == [generation |-> g, value |-> allocated + 1]

\* Mutant: a recycled slot keeps its generation.
ReuseSameGeneration(k) ==
  /\ slots' = [slots EXCEPT ![free[k]].value = allocated + 1]
  /\ free' = SubSeq(free, 1, k - 1)
  /\ len' = len + 1
  /\ Minted(free[k], slots[free[k]].generation)

\* Mutant: the recycled slot is read from the free list but not popped.
ReuseWithoutPop(k) ==
  LET g == slots[free[k]].generation + 1
  IN  /\ slots' = [slots EXCEPT ![free[k]] = Occupied(g)]
      /\ free' = SubSeq(free, 1, k)
      /\ len' = len + 1
      /\ Minted(free[k], g)

\* Mutant: only fresh slots are counted in len.
ReuseUncounted(k) ==
  LET g == slots[free[k]].generation + 1
  IN  /\ slots' = [slots EXCEPT ![free[k]] = Occupied(g)]
      /\ free' = SubSeq(free, 1, k - 1)
      /\ UNCHANGED len
      /\ Minted(free[k], g)

Reuse(k) ==
  LET g == slots[free[k]].generation + 1
  IN  /\ slots' = [slots EXCEPT ![free[k]] = Occupied(g)]
      /\ free' = SubSeq(free, 1, k - 1)
      /\ len' = len + 1
      /\ Minted(free[k], g)

AllocateReused ==
  /\ allocated < MaxAllocations
  /\ \E k \in DOMAIN free : Reusable(k) /\ Reuse(k)

AllocateFresh ==
  /\ allocated < MaxAllocations
  /\ NoneReusable
  /\ Len(slots) < MaxSlots
  /\ slots' = Append(slots, Occupied(0))
  /\ free' = <<>>
  /\ len' = len + 1
  /\ Minted(Len(slots) + 1, 0)

(***************************************************************************)
(* Arena::remove of a handle the arena has returned before.                *)
(***************************************************************************)
Remove(id) ==
  /\ Contains(id)
  /\ slots' = [slots EXCEPT ![id.slot].value = Empty]
  /\ len' = len - 1
  /\ free' = Append(free, id.slot)
  /\ UNCHANGED <<allocated, minted>>

Init ==
  /\ slots = <<>>
  /\ free = <<>>
  /\ len = 0
  /\ allocated = 0
  /\ minted = {}

Next ==
  \/ AllocateReused
  \/ AllocateFresh
  \/ \E m \in minted : Remove(m[1])

Spec == Init /\ [][Next]_vars

-----------------------------------------------------------------------------
(***************************************************************************)
(* Every variable has its type.                                            *)
(***************************************************************************)
TypeOK ==
  /\ slots \in Seq(Slot) /\ Len(slots) <= MaxSlots
  /\ free \in Seq(1 .. MaxSlots)
  /\ len \in Int
  /\ allocated \in 0 .. MaxAllocations
  /\ minted \in SUBSET (NodeId \X Value)

(***************************************************************************)
(* A handle that the arena accepts designates the very node it was         *)
(* returned for: however often slots are removed, recycled and retired, a  *)
(* stale handle never reads the node that now occupies its slot            *)
(* (Arena::check, Arena::allocate).                                        *)
(***************************************************************************)
NoAlias == \A m \in minted : Contains(m[1]) => Get(m[1]) = m[2]

(***************************************************************************)
(* A slot that is free for reuse is on the free list exactly once, unless  *)
(* it is live or retired: nothing leaks and nothing is handed out twice    *)
(* (Arena::remove, the pops of Arena::allocate).                           *)
(***************************************************************************)
FreeListExact ==
  /\ \A j, k \in DOMAIN free : free[j] = free[k] => j = k
  /\ \A i \in DOMAIN slots :
       ~ Retired(i) =>
         (slots[i].value = Empty <=> \E k \in DOMAIN free : free[k] = i)

(***************************************************************************)
(* len counts the live slots (Arena::len, which caps the parent walk of    *)
(* Document::is_descendant_of).                                            *)
(***************************************************************************)
LenExact == len = Cardinality({i \in DOMAIN slots : slots[i].value # Empty})
=============================================================================
