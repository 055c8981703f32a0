--------------------------- MODULE ObserverProofs ---------------------------
(***************************************************************************)
(* The delivery of mutation records, in two parts.  First the microtasks:  *)
(* an observation is marked as scheduled while exactly one microtask is on *)
(* its way to it, whatever records the mutations tell.  Then the records:  *)
(* what an entry of the mutation API queues about the children of a node   *)
(* is a tale that leads from the children that were there to the ones that *)
(* are there now, so an observation that hears every record about its      *)
(* target can replay them; and each record is queued where those who see   *)
(* its target before the call, or after it, hear it.                       *)
(***************************************************************************)
EXTENDS MutationObservers, ListProofs

-----------------------------------------------------------------------------
(***************************************************************************)
(* The inductive invariant.                                                *)
(***************************************************************************)
Shaped(obs) ==
  /\ obs = [key |-> obs.key, target |-> obs.target, types |-> obs.types, subtree |-> obs.subtree,
            records |-> obs.records, microtaskQueued |-> obs.microtaskQueued]
  /\ obs.key \in Nat /\ obs.microtaskQueued \in BOOLEAN

\* The observations of one observer: a key is below next and used once.
WellKept(s, next) ==
  /\ s \in Seq(ToSet(s))
  /\ \A i \in DOMAIN s : Shaped(s[i]) /\ s[i].key < next
  /\ \A i, j \in DOMAIN s : s[i].key = s[j].key => i = j

WatchKept ==
  /\ nextKey \in Nat
  /\ watch = [o \in Observer |-> watch[o]]
  /\ \A o \in Observer : WellKept(watch[o], nextKey)

Deliveries == [observer : Observer, key : Nat]

MicrotasksKept ==
  /\ microtasks \in Seq(Deliveries)
  /\ \A d \in ToSet(microtasks) : d.key < nextKey

\* Who has observations is registered, once, and has its callback.
RegistryKept ==
  /\ registered \in Seq(Observer) /\ IsInjective(registered)
  /\ \A o \in Observer : watch[o] # <<>> => o \in ToSet(registered) /\ o \in callbacks
  /\ phase = "destroyed" => \A o \in Observer : watch[o] = <<>>

IInv == WatchKept /\ MicrotasksKept /\ RegistryKept /\ ScheduledOnce

-----------------------------------------------------------------------------
(***************************************************************************)
(* The queues of one observer.                                             *)
(***************************************************************************)
\* A step that keeps the keys of the observations keeps them well.
LEMMA KeptAgain ==
  ASSUME NEW s, NEW next, WellKept(s, next), NEW t, t = [i \in DOMAIN s |-> t[i]],
         \A i \in DOMAIN s : Shaped(t[i]) /\ t[i].key = s[i].key
  PROVE  WellKept(t, next)
<1>1. t \in Seq(ToSet(t)) /\ DOMAIN t = DOMAIN s
  BY SeqAgain DEF WellKept
<1>. QED
  BY <1>1 DEF WellKept

LEMMA NoneKept ==
  ASSUME NEW next PROVE WellKept(<<>>, next)
  BY DEF WellKept, ToSet

LEMMA OneMore ==
  ASSUME NEW s, NEW next \in Nat, WellKept(s, next), NEW obs, Shaped(obs), obs.key = next
  PROVE  /\ WellKept(Append(s, obs), next + 1)
         /\ DOMAIN Append(s, obs) = DOMAIN s \cup {Len(s) + 1} /\ Append(s, obs)[Len(s) + 1] = obs
         /\ \A i \in DOMAIN s : Append(s, obs)[i] = s[i]
<1>. DEFINE X == ToSet(s) \cup {obs}
            t == Append(s, obs)
<1>1. s \in Seq(X)
  <2>1. s \in Seq(ToSet(s))
    BY DEF WellKept
  <2>2. Len(s) \in Nat /\ s = [i \in 1 .. Len(s) |-> s[i]] /\ \A i \in 1 .. Len(s) : s[i] \in X
    BY <2>1
  <2>. HIDE DEF X
  <2>. QED
    BY <2>2
<1>2. t \in Seq(X) /\ DOMAIN t = DOMAIN s \cup {Len(s) + 1} /\ t[Len(s) + 1] = obs
      /\ (\A i \in DOMAIN s : t[i] = s[i]) /\ Len(s) + 1 \notin DOMAIN s
  <2>. obs \in X
    OBVIOUS
  <2>. HIDE DEF X
  <2>. QED
    BY <1>1
<1>. HIDE DEF X, t
<1>3. t \in Seq(ToSet(t))
  BY <1>2, RangeTyped
<1>4. \A i \in DOMAIN s : s[i].key \in Nat /\ s[i].key < next
  BY DEF WellKept, Shaped
<1>5. \A i \in DOMAIN t : Shaped(t[i]) /\ t[i].key < next + 1
  <2>1. \A i \in DOMAIN s : Shaped(s[i])
    BY DEF WellKept
  <2>. QED
    BY <1>2, <1>4, <2>1
<1>6. \A i, j \in DOMAIN t : t[i].key = t[j].key => i = j
  <2>1. \A i, j \in DOMAIN s : s[i].key = s[j].key => i = j
    BY DEF WellKept
  <2>2. \A i \in DOMAIN s : s[i].key # next
    BY <1>4
  <2>. QED
    BY <1>2, <2>1, <2>2
<1>. QED
  BY <1>2, <1>3, <1>5, <1>6 DEF WellKept, t

-----------------------------------------------------------------------------
(***************************************************************************)
(* The pending deliveries: one for each pending observation.               *)
(***************************************************************************)
LEMMA DeliveriesToFacts ==
  ASSUME NEW o \in Observer, NEW s, NEW next, WellKept(s, next)
  PROVE  /\ DeliveriesTo(o, s) \in Seq(Deliveries) /\ IsInjective(DeliveriesTo(o, s))
         /\ \A d : d \in ToSet(DeliveriesTo(o, s))
               <=> \E i \in DOMAIN s : Pending(s[i]) /\ d = [observer |-> o, key |-> s[i].key]
<1>. DEFINE S == {obs \in ToSet(s) : Pending(obs)}
<1>1. PICK waiting : waiting = Keeping(s, S)
  OBVIOUS
<1>2. PICK d : d = DeliveriesTo(o, s)
  OBVIOUS
<1>3. d = [i \in DOMAIN waiting |-> [observer |-> o, key |-> waiting[i].key]]
  BY <1>1, <1>2 DEF DeliveriesTo
<1>4. s \in Seq(ToSet(s)) /\ IsInjective(s)
  BY DEF WellKept, IsInjective
<1>5. waiting \in Seq(ToSet(s)) /\ ToSet(waiting) = ToSet(s) \cap S /\ IsInjective(waiting)
  <2>. HIDE DEF S
  <2>. QED
    BY <1>1, <1>4, KeepingFacts
<1>6. ASSUME NEW i \in DOMAIN waiting
      PROVE  \E a \in DOMAIN s : waiting[i] = s[a] /\ Pending(s[a])
  <2>1. waiting[i] \in ToSet(s) \cap S
    BY <1>5 DEF ToSet
  <2>. QED
    BY <2>1 DEF ToSet
<1>7. ASSUME NEW a \in DOMAIN s, Pending(s[a]) PROVE \E i \in DOMAIN waiting : waiting[i] = s[a]
  <2>1. s[a] \in ToSet(s)
    BY DEF ToSet
  <2>2. s[a] \in ToSet(waiting)
    BY <1>5, <1>7, <2>1
  <2>. QED
    BY <2>2 DEF ToSet
<1>8. d \in Seq(Deliveries)
  <2>1. \A i \in DOMAIN waiting : waiting[i].key \in Nat
    BY <1>6 DEF WellKept, Shaped
  <2>2. Len(waiting) \in Nat /\ DOMAIN waiting = 1 .. Len(waiting)
    BY <1>5, SeqFacts
  <2>3. \A i \in DOMAIN waiting : [observer |-> o, key |-> waiting[i].key] \in Deliveries
    BY <2>1 DEF Deliveries
  <2>. QED
    BY <1>3, <2>2, <2>3
<1>9. IsInjective(d)
  <2>. SUFFICES ASSUME NEW i \in DOMAIN waiting, NEW j \in DOMAIN waiting, d[i] = d[j] PROVE i = j
    BY <1>3 DEF IsInjective
  <2>1. d[i].key = waiting[i].key /\ d[j].key = waiting[j].key
    BY <1>3
  <2>2. waiting[i] = waiting[j]
    BY <1>6, <2>1 DEF WellKept
  <2>. QED
    BY <1>5, <2>2 DEF IsInjective
<1>10. ASSUME NEW e PROVE e \in ToSet(d)
               <=> \E i \in DOMAIN s : Pending(s[i]) /\ e = [observer |-> o, key |-> s[i].key]
  <2>1. e \in ToSet(d) <=> \E i \in DOMAIN waiting : e = [observer |-> o, key |-> waiting[i].key]
    BY <1>3 DEF ToSet
  <2>. QED
    BY <1>6, <1>7, <2>1
<1>. QED
  BY <1>2, <1>8, <1>9, <1>10

LEMMA PendingFacts ==
  ASSUME NEW w, NEW next, \A o \in Observer : WellKept(w[o], next),
         registered \in Seq(Observer), IsInjective(registered),
         \A o \in Observer : w[o] # <<>> => o \in ToSet(registered)
  PROVE  /\ PendingDeliveries(w) \in Seq(Deliveries) /\ IsInjective(PendingDeliveries(w))
         /\ \A d : d \in ToSet(PendingDeliveries(w))
               <=> \E o \in Observer : \E i \in DOMAIN w[o] :
                     Pending(w[o][i]) /\ d = [observer |-> o, key |-> w[o][i].key]
<1>1. PICK ss : ss = [j \in DOMAIN registered |-> DeliveriesTo(registered[j], w[registered[j]])]
  OBVIOUS
<1>2. PendingDeliveries(w) = FlattenSeq(ss)
  BY <1>1 DEF PendingDeliveries
<1>3. Len(registered) \in Nat /\ DOMAIN registered = 1 .. Len(registered)
      /\ \A j \in DOMAIN registered : registered[j] \in Observer
  BY SeqFacts
<1>4. DOMAIN ss = DOMAIN registered
      /\ \A j \in DOMAIN registered : ss[j] = DeliveriesTo(registered[j], w[registered[j]])
  BY <1>1
<1>5. \A j \in DOMAIN ss : ss[j] \in Seq(Deliveries) /\ IsInjective(ss[j])
  BY <1>3, <1>4, DeliveriesToFacts
<1>6. ss \in Seq(Seq(Deliveries))
  <2>1. ss = [j \in 1 .. Len(registered) |-> ss[j]]
    BY <1>1, <1>3
  <2>. QED
    BY <1>3, <1>4, <1>5, <2>1
<1>7. ASSUME NEW j \in DOMAIN ss, NEW d
      PROVE  d \in ToSet(ss[j])
               <=> \E i \in DOMAIN w[registered[j]] :
                     /\ Pending(w[registered[j]][i])
                     /\ d = [observer |-> registered[j], key |-> w[registered[j]][i].key]
  <2>1. PICK o \in Observer : o = registered[j]
    BY <1>3, <1>4
  <2>2. PICK t : t = w[o]
    OBVIOUS
  <2>3. WellKept(t, next) /\ ss[j] = DeliveriesTo(o, t)
    BY <1>4, <2>1, <2>2
  <2>4. d \in ToSet(DeliveriesTo(o, t))
          <=> \E i \in DOMAIN t : Pending(t[i]) /\ d = [observer |-> o, key |-> t[i].key]
    BY <2>3, DeliveriesToFacts
  <2>. QED
    BY <2>1, <2>2, <2>3, <2>4, Zenon
<1>8. Apart(ss)
  <2>1. ASSUME NEW i \in DOMAIN ss, NEW j \in DOMAIN ss, NEW d, d \in ToSet(ss[i]), d \in ToSet(ss[j])
        PROVE  i = j
    <3>1. d.observer = registered[i]
      BY <1>7, <2>1
    <3>2. d.observer = registered[j]
      BY <1>7, <2>1
    <3>. QED
      BY <1>4, <3>1, <3>2 DEF IsInjective
  <2>. QED
    BY <1>5, <2>1 DEF Apart
<1>9. ToSet(FlattenSeq(ss)) = UNION {ToSet(ss[i]) : i \in DOMAIN ss}
  BY <1>6, FlattenFacts
<1>10. ASSUME NEW d
       PROVE  d \in ToSet(FlattenSeq(ss))
               <=> \E o \in Observer : \E i \in DOMAIN w[o] :
                     Pending(w[o][i]) /\ d = [observer |-> o, key |-> w[o][i].key]
  <2>1. d \in ToSet(FlattenSeq(ss)) <=> \E j \in DOMAIN ss : d \in ToSet(ss[j])
    BY <1>9
  <2>2. ASSUME NEW o \in Observer, NEW i \in DOMAIN w[o]
        PROVE  \E j \in DOMAIN ss : registered[j] = o
    <3>1. w[o] # <<>>
      BY SeqFacts DEF WellKept
    <3>. QED
      BY <1>4, <3>1 DEF ToSet
  <2>. QED
    BY <1>3, <1>4, <1>7, <2>1, <2>2
<1>. QED
  BY <1>2, <1>6, <1>8, <1>10, FlattenFacts

-----------------------------------------------------------------------------
(***************************************************************************)
(* Queuing the records of a mutation, and scheduling what is pending.      *)
(***************************************************************************)
StaticVars == <<registered, nextKey, callbacks, phase>>

\* Every observation keeps its key.
SameKeys(w) ==
  /\ w = [o \in Observer |-> w[o]]
  /\ \A o \in Observer : w[o] = [i \in DOMAIN watch[o] |-> w[o][i]]
  /\ \A o \in Observer : \A i \in DOMAIN watch[o] :
       Shaped(w[o][i]) /\ w[o][i].key = watch[o][i].key

\* And its mark.
SameMarks(w) ==
  \A o \in Observer : \A i \in DOMAIN watch[o] :
    w[o][i].microtaskQueued = watch[o][i].microtaskQueued

\* What a step writes into an observation leaves it an observation.
LEMMA WithRecords ==
  ASSUME NEW obs, Shaped(obs), NEW r, NEW e, e = [obs EXCEPT !.records = r]
  PROVE  Shaped(e) /\ e.key = obs.key /\ e.microtaskQueued = obs.microtaskQueued
  BY DEF Shaped

LEMMA WithMark ==
  ASSUME NEW obs, Shaped(obs), NEW b \in BOOLEAN, NEW e, e = [obs EXCEPT !.microtaskQueued = b]
  PROVE  Shaped(e) /\ e.key = obs.key /\ e.microtaskQueued = b
  BY DEF Shaped

LEMMA Drained ==
  ASSUME NEW obs, Shaped(obs), NEW e,
         e = [obs EXCEPT !.records = <<>>, !.microtaskQueued = FALSE]
  PROVE  Shaped(e) /\ e.key = obs.key /\ e.microtaskQueued = FALSE
  BY DEF Shaped

LEMMA QueuedFacts ==
  ASSUME WatchKept, NEW log PROVE SameKeys(Queued(log)) /\ SameMarks(Queued(log))
<1>1. PICK w : w = Queued(log)
  OBVIOUS
<1>2. w = [o \in Observer |-> w[o]]
  BY <1>1 DEF Queued
<1>3. ASSUME NEW o \in Observer
      PROVE  /\ w[o] = [i \in DOMAIN watch[o] |-> w[o][i]]
             /\ \A i \in DOMAIN watch[o] :
                  w[o][i] = [watch[o][i] EXCEPT !.records = watch[o][i].records \o RecordsFor(watch[o][i], log)]
  BY <1>1, Zenon DEF Queued
<1>4. ASSUME NEW o \in Observer, NEW i \in DOMAIN watch[o]
      PROVE  /\ Shaped(w[o][i]) /\ w[o][i].key = watch[o][i].key
             /\ w[o][i].microtaskQueued = watch[o][i].microtaskQueued
  <2>1. Shaped(watch[o][i])
    BY DEF WatchKept, WellKept
  <2>2. PICK r : r = watch[o][i].records \o RecordsFor(watch[o][i], log)
    OBVIOUS
  <2>3. w[o][i] = [watch[o][i] EXCEPT !.records = r]
    BY <1>3, <2>2
  <2>. QED
    BY <2>1, <2>3, WithRecords
<1>. QED
  BY <1>1, <1>2, <1>3, <1>4 DEF SameKeys, SameMarks

LEMMA KeptThrough ==
  ASSUME WatchKept, NEW w, SameKeys(w)
  PROVE  /\ \A o \in Observer : WellKept(w[o], nextKey) /\ DOMAIN w[o] = DOMAIN watch[o]
         /\ \A o \in Observer : w[o] # <<>> => watch[o] # <<>>
<1>1. ASSUME NEW o \in Observer PROVE WellKept(w[o], nextKey) /\ DOMAIN w[o] = DOMAIN watch[o]
  <2>1. PICK t : t = w[o]
    OBVIOUS
  <2>2. PICK s : s = watch[o]
    OBVIOUS
  <2>3. WellKept(s, nextKey) /\ t = [i \in DOMAIN s |-> t[i]]
        /\ \A i \in DOMAIN s : Shaped(t[i]) /\ t[i].key = s[i].key
    BY <2>1, <2>2 DEF WatchKept, SameKeys
  <2>4. WellKept(t, nextKey) /\ DOMAIN t = DOMAIN s
    BY <2>3, KeptAgain
  <2>. QED
    BY <2>1, <2>2, <2>4
<1>2. ASSUME NEW o \in Observer, w[o] # <<>> PROVE watch[o] # <<>>
  <2>1. 1 \in DOMAIN w[o]
    BY <1>1, <1>2, SeqFacts DEF WellKept
  <2>. QED
    BY <1>1, <2>1
<1>. QED
  BY <1>1, <1>2

\* A step that keeps the keys keeps all but the schedule.
LEMMA SameKeysStep ==
  ASSUME IInv, SameKeys(watch'), UNCHANGED StaticVars
  PROVE  WatchKept' /\ RegistryKept'
<1>1. PICK w : w = watch'
  OBVIOUS
<1>2. SameKeys(w)
  BY <1>1
<1>3. /\ \A o \in Observer : WellKept(w[o], nextKey) /\ DOMAIN w[o] = DOMAIN watch[o]
      /\ \A o \in Observer : w[o] # <<>> => watch[o] # <<>>
  BY <1>2, KeptThrough DEF IInv
<1>4. WatchKept'
  BY <1>1, <1>2, <1>3 DEF IInv, WatchKept, SameKeys, StaticVars
<1>5. RegistryKept'
  BY <1>1, <1>3 DEF IInv, RegistryKept, StaticVars
<1>. QED
  BY <1>4, <1>5

LEMMA SameMarksStep ==
  ASSUME IInv, SameKeys(watch'), SameMarks(watch'), UNCHANGED microtasks, UNCHANGED StaticVars
  PROVE  IInv'
<1>1. WatchKept' /\ RegistryKept'
  BY SameKeysStep
<1>2. MicrotasksKept'
  BY DEF IInv, MicrotasksKept, StaticVars
<1>3. ASSUME phase # "destroyed" PROVE ScheduledOnce'
  <2>1. PICK w : w = watch'
    OBVIOUS
  <2>2. SameKeys(w) /\ SameMarks(w)
    BY <2>1
  <2>3. \A o \in Observer : \A i \in DOMAIN w[o] :
          i \in DOMAIN watch[o] /\ w[o][i].key = watch[o][i].key
          /\ w[o][i].microtaskQueued = watch[o][i].microtaskQueued
    BY <2>2, KeptThrough DEF SameKeys, SameMarks, IInv
  <2>4. IsInjective(microtasks) /\ \A o \in Observer : \A i \in DOMAIN watch[o] :
          watch[o][i].microtaskQueued
            <=> [observer |-> o, key |-> watch[o][i].key] \in ToSet(microtasks)
    BY <1>3 DEF IInv, ScheduledOnce
  <2>5. \A o \in Observer : \A i \in DOMAIN w[o] :
          w[o][i].microtaskQueued
            <=> [observer |-> o, key |-> w[o][i].key] \in ToSet(microtasks)
    BY <2>3, <2>4
  <2>. QED
    BY <2>1, <2>4, <2>5 DEF ScheduledOnce
<1>4. ASSUME phase = "destroyed" PROVE ScheduledOnce'
  BY <1>4 DEF ScheduledOnce, StaticVars
<1>. QED
  BY <1>1, <1>2, <1>3, <1>4 DEF IInv

\* Every pending observation is marked, and a microtask of its own is queued.
LEMMA ScheduleStep ==
  ASSUME IInv, phase # "destroyed", NEW w, SameKeys(w), SameMarks(w), Schedule(w), UNCHANGED StaticVars
  PROVE  IInv'
<1>1. PICK v : v = Flagged(w)
  OBVIOUS
<1>2. PICK ds : ds = PendingDeliveries(w)
  OBVIOUS
<1>3. watch' = v /\ microtasks' = microtasks \o ds
  BY <1>1, <1>2 DEF Schedule
<1>4. \A o \in Observer : WellKept(w[o], nextKey) /\ DOMAIN w[o] = DOMAIN watch[o]
                         /\ (w[o] # <<>> => watch[o] # <<>>)
  BY KeptThrough DEF IInv
<1>5. ASSUME NEW o \in Observer
      PROVE  /\ v[o] = [i \in DOMAIN w[o] |-> v[o][i]]
             /\ \A i \in DOMAIN w[o] : v[o][i] = [w[o][i] EXCEPT !.microtaskQueued =
                                       w[o][i].microtaskQueued \/ Pending(w[o][i])]
  BY <1>1, Zenon DEF Flagged
<1>6. ASSUME NEW o \in Observer, NEW i \in DOMAIN w[o]
      PROVE  /\ Shaped(v[o][i]) /\ v[o][i].key = w[o][i].key
             /\ v[o][i].microtaskQueued <=> (w[o][i].microtaskQueued \/ Pending(w[o][i]))
  <2>1. Shaped(w[o][i])
    BY <1>4 DEF WellKept
  <2>2. PICK b \in BOOLEAN : b = (w[o][i].microtaskQueued \/ Pending(w[o][i]))
    OBVIOUS
  <2>3. v[o][i] = [w[o][i] EXCEPT !.microtaskQueued = b]
    BY <1>5, <2>2
  <2>4. Shaped(v[o][i]) /\ v[o][i].key = w[o][i].key /\ v[o][i].microtaskQueued = b
    BY <2>1, <2>3, WithMark
  <2>. QED
    BY <2>2, <2>4
<1>7. v = [o \in Observer |-> v[o]]
  BY <1>1 DEF Flagged
<1>8. SameKeys(v)
  BY <1>4, <1>5, <1>6, <1>7 DEF SameKeys
<1>9. WatchKept' /\ RegistryKept'
  BY <1>3, <1>8, SameKeysStep
<1>10. /\ ds \in Seq(Deliveries) /\ IsInjective(ds)
       /\ \A d : d \in ToSet(ds)
             <=> \E o \in Observer : \E i \in DOMAIN w[o] :
                   Pending(w[o][i]) /\ d = [observer |-> o, key |-> w[o][i].key]
  <2>1. registered \in Seq(Observer) /\ IsInjective(registered)
        /\ \A o \in Observer : w[o] # <<>> => o \in ToSet(registered)
    BY <1>4 DEF IInv, RegistryKept
  <2>2. \A o \in Observer : WellKept(w[o], nextKey)
    BY <1>4
  <2>3. /\ PendingDeliveries(w) \in Seq(Deliveries) /\ IsInjective(PendingDeliveries(w))
        /\ \A d : d \in ToSet(PendingDeliveries(w))
              <=> \E o \in Observer : \E i \in DOMAIN w[o] :
                    Pending(w[o][i]) /\ d = [observer |-> o, key |-> w[o][i].key]
    BY <2>1, <2>2, PendingFacts, Zenon
  <2>. QED
    BY <1>2, <2>3, Zenon
<1>11. microtasks \in Seq(Deliveries) /\ IsInjective(microtasks)
       /\ (\A d \in ToSet(microtasks) : d.key < nextKey)
       /\ \A o \in Observer : \A i \in DOMAIN watch[o] :
            watch[o][i].microtaskQueued
              <=> [observer |-> o, key |-> watch[o][i].key] \in ToSet(microtasks)
  BY DEF IInv, MicrotasksKept, ScheduledOnce
<1>12. \A o \in Observer : \A i \in DOMAIN w[o] :
         w[o][i].microtaskQueued
           <=> [observer |-> o, key |-> w[o][i].key] \in ToSet(microtasks)
  <2>1. \A o \in Observer : \A i \in DOMAIN w[o] :
          i \in DOMAIN watch[o] /\ w[o][i].key = watch[o][i].key
          /\ w[o][i].microtaskQueued = watch[o][i].microtaskQueued
    BY <1>4 DEF SameKeys, SameMarks
  <2>. QED
    BY <1>11, <2>1
<1>13. ToSet(microtasks) \cap ToSet(ds) = {}
  BY <1>10, <1>12 DEF Pending
<1>14. /\ microtasks' \in Seq(Deliveries) /\ IsInjective(microtasks')
       /\ ToSet(microtasks') = ToSet(microtasks) \cup ToSet(ds)
  BY <1>3, <1>10, <1>11, <1>13, ConcatFacts
<1>15. MicrotasksKept'
  <2>1. \A d \in ToSet(ds) : d.key < nextKey
    BY <1>4, <1>10 DEF WellKept
  <2>. QED
    BY <1>11, <1>14, <2>1 DEF MicrotasksKept, StaticVars
<1>16. ASSUME NEW o \in Observer, NEW i \in DOMAIN w[o]
       PROVE  Pending(w[o][i]) <=> [observer |-> o, key |-> w[o][i].key] \in ToSet(ds)
  <2>1. ASSUME [observer |-> o, key |-> w[o][i].key] \in ToSet(ds) PROVE Pending(w[o][i])
    <3>. PICK p \in Observer : \E j \in DOMAIN w[p] :
            Pending(w[p][j]) /\ [observer |-> o, key |-> w[o][i].key] = [observer |-> p, key |-> w[p][j].key]
      BY <1>10, <2>1
    <3>1. PICK j \in DOMAIN w[p] :
            Pending(w[p][j]) /\ [observer |-> o, key |-> w[o][i].key] = [observer |-> p, key |-> w[p][j].key]
      OBVIOUS
    <3>2. o = p /\ w[o][i].key = w[p][j].key
      BY <3>1
    <3>3. i = j
      BY <1>4, <3>2 DEF WellKept
    <3>. QED
      BY <3>1, <3>2, <3>3
  <2>. QED
    BY <1>10, <2>1
<1>17. ScheduledOnce'
  <2>1. \A o \in Observer : DOMAIN v[o] = DOMAIN w[o]
    BY <1>5
  <2>2. \A o \in Observer : \A i \in DOMAIN v[o] :
          v[o][i].microtaskQueued
            <=> [observer |-> o, key |-> v[o][i].key] \in ToSet(microtasks')
    BY <1>6, <1>12, <1>14, <1>16, <2>1
  <2>. QED
    BY <1>3, <1>14, <2>2 DEF ScheduledOnce
<1>. QED
  BY <1>9, <1>15, <1>17 DEF IInv

-----------------------------------------------------------------------------
(***************************************************************************)
(* The calls of the mutation API.                                          *)
(***************************************************************************)
LEMMA MutateStep ==
  ASSUME IInv, NEW s, Mutate(s) PROVE IInv'
<1>1. PICK w : w = Queued(s.log)
  OBVIOUS
<1>2. SameKeys(w) /\ SameMarks(w)
  BY <1>1, QueuedFacts DEF IInv
<1>3. phase # "destroyed" /\ Schedule(w) /\ UNCHANGED StaticVars
  BY <1>1 DEF Mutate, StaticVars
<1>. QED
  BY <1>2, <1>3, ScheduleStep

LEMMA MutateOnlyStep ==
  ASSUME IInv, NEW s, MutateOnly(s) PROVE IInv'
<1>1. PICK w : w = Queued(s.log)
  OBVIOUS
<1>2. SameKeys(w) /\ SameMarks(w)
  BY <1>1, QueuedFacts DEF IInv
<1>3. w = watch' /\ UNCHANGED microtasks /\ UNCHANGED StaticVars
  BY <1>1 DEF MutateOnly, StaticVars
<1>4. SameKeys(watch') /\ SameMarks(watch')
  BY <1>2, <1>3
<1>. QED
  BY <1>3, <1>4, SameMarksStep

-----------------------------------------------------------------------------
(***************************************************************************)
(* observe: a key that was never used, and no microtask for it.            *)
(***************************************************************************)
LEMMA RegisteredFacts ==
  ASSUME RegistryKept, NEW o \in Observer, NEW r,
         r = IF o \in ToSet(registered) THEN registered ELSE Append(registered, o)
  PROVE  /\ r \in Seq(Observer) /\ IsInjective(r)
         /\ ToSet(registered) \subseteq ToSet(r) /\ o \in ToSet(r)
<1>1. registered \in Seq(Observer) /\ IsInjective(registered)
  BY DEF RegistryKept
<1>2. CASE o \in ToSet(registered)
  BY <1>1, <1>2
<1>3. CASE o \notin ToSet(registered)
  BY <1>1, <1>3, AppendFacts
<1>. QED
  BY <1>2, <1>3

LEMMA ObserveNewStep ==
  ASSUME IInv, NEW o \in Observer, NEW target, NEW options, ObserveNew(o, target, options),
         phase = "open", o \in callbacks, UNCHANGED <<microtasks, callbacks, phase>>,
         registered' = IF o \in ToSet(registered) THEN registered ELSE Append(registered, o)
  PROVE  IInv'
<1>1. PICK obs : obs = [key |-> nextKey, target |-> target, types |-> options.types,
                        subtree |-> options.subtree, records |-> <<>>, microtaskQueued |-> FALSE]
  OBVIOUS
<1>2. PICK s : s = watch[o]
  OBVIOUS
<1>3. PICK t : t = Append(s, obs)
  OBVIOUS
<1>4. nextKey \in Nat /\ nextKey' = nextKey + 1 /\ watch = [p \in Observer |-> watch[p]]
      /\ \A p \in Observer : WellKept(watch[p], nextKey)
  BY DEF IInv, WatchKept, ObserveNew
<1>5. watch' = [watch EXCEPT ![o] = t]
  BY <1>1, <1>2, <1>3, Zenon DEF ObserveNew
<1>6. watch'[o] = t /\ \A p \in Observer : p # o => watch'[p] = watch[p]
  BY <1>4, <1>5
<1>7. Shaped(obs) /\ obs.key = nextKey /\ obs.microtaskQueued = FALSE
  BY <1>1, <1>4 DEF Shaped
<1>8. /\ WellKept(t, nextKey + 1) /\ DOMAIN t = DOMAIN s \cup {Len(s) + 1} /\ t[Len(s) + 1] = obs
      /\ \A i \in DOMAIN s : t[i] = s[i]
  BY <1>2, <1>3, <1>4, <1>7, OneMore
<1>9. \A p \in Observer : WellKept(watch[p], nextKey + 1)
  <2>1. ASSUME NEW p \in Observer, NEW i \in DOMAIN watch[p] PROVE watch[p][i].key < nextKey + 1
    <3>1. watch[p][i].key \in Nat /\ watch[p][i].key < nextKey
      BY <1>4 DEF WellKept, Shaped
    <3>. QED
      BY <1>4, <3>1
  <2>. QED
    BY <1>4, <2>1 DEF WellKept
<1>10. WatchKept'
  <2>1. watch' = [p \in Observer |-> watch'[p]]
    BY <1>4, <1>5
  <2>. QED
    BY <1>4, <1>6, <1>8, <1>9, <2>1 DEF WatchKept
<1>11. \A d \in ToSet(microtasks) : d.key \in Nat /\ d.key < nextKey
  <2>1. microtasks \in Seq(Deliveries) /\ \A d \in ToSet(microtasks) : d.key < nextKey
    BY DEF IInv, MicrotasksKept
  <2>2. \A d \in ToSet(microtasks) : d \in Deliveries
    BY <2>1, SeqFacts DEF ToSet
  <2>. QED
    BY <2>1, <2>2 DEF Deliveries
<1>12. MicrotasksKept'
  <2>1. \A d \in ToSet(microtasks) : d.key < nextKey'
    BY <1>4, <1>11
  <2>. QED
    BY <2>1 DEF IInv, MicrotasksKept
<1>13. RegistryKept'
  <2>1. PICK r : r = registered'
    OBVIOUS
  <2>2. /\ r \in Seq(Observer) /\ IsInjective(r)
        /\ ToSet(registered) \subseteq ToSet(r) /\ o \in ToSet(r)
    BY <2>1, RegisteredFacts DEF IInv
  <2>. QED
    BY <1>6, <2>1, <2>2 DEF IInv, RegistryKept
<1>14. ScheduledOnce'
  <2>1. IsInjective(microtasks) /\ \A p \in Observer : \A i \in DOMAIN watch[p] :
          watch[p][i].microtaskQueued
            <=> [observer |-> p, key |-> watch[p][i].key] \in ToSet(microtasks)
    BY DEF IInv, ScheduledOnce
  <2>2. [observer |-> o, key |-> obs.key] \notin ToSet(microtasks)
    BY <1>4, <1>7, <1>11
  <2>3. \A i \in DOMAIN t : t[i].microtaskQueued
            <=> [observer |-> o, key |-> t[i].key] \in ToSet(microtasks)
    BY <1>2, <1>7, <1>8, <2>1, <2>2
  <2>. QED
    BY <1>6, <2>1, <2>3 DEF ScheduledOnce
<1>. QED
  BY <1>10, <1>12, <1>13, <1>14 DEF IInv

\* What one observer's list is rewritten to.
LEMMA ListRewritten ==
  ASSUME WatchKept, NEW o \in Observer, NEW t, t = [j \in DOMAIN watch[o] |-> t[j]],
         \A j \in DOMAIN watch[o] : Shaped(t[j]) /\ t[j].key = watch[o][j].key,
         watch' = [watch EXCEPT ![o] = t]
  PROVE  SameKeys(watch') /\ watch'[o] = t /\ \A p \in Observer : p # o => watch'[p] = watch[p]
<1>1. watch = [p \in Observer |-> watch[p]] /\ \A p \in Observer : WellKept(watch[p], nextKey)
  BY DEF WatchKept
<1>2. \A p \in Observer : \A j \in DOMAIN watch[p] : Shaped(watch[p][j])
  BY <1>1 DEF WellKept
<1>3. \A p \in Observer : watch[p] = [j \in DOMAIN watch[p] |-> watch[p][j]]
  <2>. TAKE p \in Observer
  <2>1. PICK s : s = watch[p]
    OBVIOUS
  <2>2. s \in Seq(ToSet(s))
    BY <1>1, <2>1 DEF WellKept
  <2>3. s = [j \in DOMAIN s |-> s[j]]
    BY <2>2
  <2>. QED
    BY <2>1, <2>3
<1>4. watch' = [p \in Observer |-> watch'[p]] /\ watch'[o] = t
      /\ \A p \in Observer : p # o => watch'[p] = watch[p]
  BY <1>1
<1>. QED
  BY <1>2, <1>3, <1>4 DEF SameKeys

\* observe again: the mark and the key stay.
LEMMA ObserveAgainFacts ==
  ASSUME WatchKept, NEW o \in Observer, NEW i \in DOMAIN watch[o], NEW options,
         ObserveAgain(o, i, options)
  PROVE  SameKeys(watch') /\ SameMarks(watch') /\ UNCHANGED nextKey
<1>1. PICK s : s = watch[o]
  OBVIOUS
<1>2. PICK obs : obs = s[i]
  OBVIOUS
<1>3. PICK e : e = [obs EXCEPT !.types = options.types, !.subtree = options.subtree]
  OBVIOUS
<1>4. PICK t : t = [s EXCEPT ![i] = e]
  OBVIOUS
<1>5. watch' = [watch EXCEPT ![o] = t] /\ UNCHANGED nextKey
  BY <1>1, <1>2, <1>3, <1>4, Zenon DEF ObserveAgain
<1>6. s \in Seq(ToSet(s)) /\ \A j \in DOMAIN s : Shaped(s[j])
  BY <1>1 DEF WatchKept, WellKept
<1>7. Shaped(e) /\ e.key = obs.key /\ e.microtaskQueued = obs.microtaskQueued
  <2>1. Shaped(obs)
    BY <1>1, <1>2, <1>6
  <2>2. PICK a : a = options.types
    OBVIOUS
  <2>3. PICK b : b = options.subtree
    OBVIOUS
  <2>4. e = [obs EXCEPT !.types = a, !.subtree = b]
    BY <1>3, <2>2, <2>3
  <2>. QED
    BY <2>1, <2>4 DEF Shaped
<1>8. t = [j \in DOMAIN s |-> t[j]] /\ t[i] = e /\ \A j \in DOMAIN s : j # i => t[j] = s[j]
  BY <1>1, <1>4, <1>6
<1>9. \A j \in DOMAIN s : Shaped(t[j]) /\ t[j].key = s[j].key /\ t[j].microtaskQueued = s[j].microtaskQueued
  BY <1>1, <1>2, <1>6, <1>7, <1>8
<1>10. SameKeys(watch') /\ watch'[o] = t /\ \A p \in Observer : p # o => watch'[p] = watch[p]
  BY <1>1, <1>5, <1>8, <1>9, ListRewritten
<1>. QED
  BY <1>1, <1>5, <1>9, <1>10 DEF SameMarks

\* Registering changes nothing else.
LEMMA ObserveAgainStep ==
  ASSUME IInv, NEW o \in Observer, NEW i \in DOMAIN watch[o], NEW options,
         ObserveAgain(o, i, options), UNCHANGED <<microtasks, callbacks, phase>>,
         phase = "open",
         registered' = IF o \in ToSet(registered) THEN registered ELSE Append(registered, o)
  PROVE  IInv'
<1>1. watch[o] # <<>>
  BY SeqFacts DEF IInv, WatchKept, WellKept
<1>2. UNCHANGED registered
  BY <1>1 DEF IInv, RegistryKept
<1>3. SameKeys(watch') /\ SameMarks(watch') /\ UNCHANGED nextKey
  BY ObserveAgainFacts DEF IInv
<1>. QED
  BY <1>2, <1>3, SameMarksStep DEF StaticVars

LEMMA ObserveStep ==
  ASSUME IInv, NEW o \in Observer, NEW target \in Node, NEW options \in Options,
         Observe(o, target, options)
  PROVE  IInv'
<1>1. phase = "open" /\ o \in callbacks /\ UNCHANGED <<microtasks, callbacks, phase>>
      /\ registered' = IF o \in ToSet(registered) THEN registered ELSE Append(registered, o)
  BY DEF Observe
<1>2. CASE ObserveNew(o, target, options)
  BY <1>1, <1>2, ObserveNewStep
<1>3. ASSUME NEW i \in DOMAIN watch[o], ObserveAgain(o, i, options) PROVE IInv'
  BY <1>1, <1>3, ObserveAgainStep
<1>. QED
  BY <1>2, <1>3 DEF Observe

-----------------------------------------------------------------------------
(***************************************************************************)
(* takeRecords, and the delivery by the first microtask.                   *)
(***************************************************************************)
LEMMA TakeRecordsStep ==
  ASSUME IInv, NEW o \in Observer, TakeRecords(o) PROVE IInv'
<1>1. PICK s : s = watch[o]
  OBVIOUS
<1>2. PICK t : t = [i \in DOMAIN s |-> [s[i] EXCEPT !.records = <<>>]]
  OBVIOUS
<1>3. watch' = [watch EXCEPT ![o] = t] /\ UNCHANGED microtasks /\ UNCHANGED StaticVars
  BY <1>1, <1>2, Zenon DEF TakeRecords, StaticVars
<1>4. \A j \in DOMAIN s : Shaped(s[j])
  BY <1>1 DEF IInv, WatchKept, WellKept
<1>5. t = [j \in DOMAIN s |-> t[j]]
  BY <1>2
<1>6. ASSUME NEW j \in DOMAIN s
      PROVE  Shaped(t[j]) /\ t[j].key = s[j].key /\ t[j].microtaskQueued = s[j].microtaskQueued
  <2>1. PICK obs : obs = s[j]
    OBVIOUS
  <2>2. Shaped(obs) /\ t[j] = [obs EXCEPT !.records = <<>>]
    BY <1>2, <1>4, <2>1
  <2>. QED
    BY <2>1, <2>2, WithRecords
<1>7. SameKeys(watch') /\ watch'[o] = t /\ \A p \in Observer : p # o => watch'[p] = watch[p]
  BY <1>1, <1>3, <1>5, <1>6, ListRewritten DEF IInv
<1>8. SameMarks(watch')
  BY <1>1, <1>6, <1>7 DEF SameMarks
<1>. QED
  BY <1>3, <1>7, <1>8, SameMarksStep

\* The first microtask is spent: what it was for has its mark taken off.
LEMMA SpentStep ==
  ASSUME IInv, microtasks # <<>>, microtasks' = Tail(microtasks),
         UNCHANGED <<registered, nextKey, phase>>, callbacks' \subseteq callbacks,
         \A o \in Observer : watch[o] # <<>> /\ o \in callbacks => o \in callbacks',
         SameKeys(watch'),
         phase # "destroyed" =>
           \A o \in Observer : \A i \in DOMAIN watch[o] :
             IF [observer |-> o, key |-> watch[o][i].key] = Head(microtasks)
             THEN watch'[o][i].microtaskQueued = FALSE
             ELSE watch'[o][i].microtaskQueued = watch[o][i].microtaskQueued
  PROVE  IInv'
<1>1. PICK w : w = watch'
  OBVIOUS
<1>2. SameKeys(w) /\ WatchKept /\ microtasks \in Seq(Deliveries)
      /\ \A d \in ToSet(microtasks) : d.key < nextKey
  BY <1>1 DEF IInv, MicrotasksKept
<1>3. /\ \A o \in Observer : WellKept(w[o], nextKey) /\ DOMAIN w[o] = DOMAIN watch[o]
      /\ \A o \in Observer : w[o] # <<>> => watch[o] # <<>>
  BY <1>2, KeptThrough
<1>4. /\ Tail(microtasks) \in Seq(Deliveries) /\ Head(microtasks) \in Deliveries
      /\ ToSet(Tail(microtasks)) \subseteq ToSet(microtasks)
      /\ ToSet(microtasks) \subseteq ToSet(Tail(microtasks)) \cup {Head(microtasks)}
      /\ IsInjective(microtasks)
           => IsInjective(Tail(microtasks)) /\ Head(microtasks) \notin ToSet(Tail(microtasks))
  BY <1>2, TailFacts
<1>5. WatchKept'
  BY <1>1, <1>2, <1>3 DEF WatchKept, SameKeys
<1>6. MicrotasksKept'
  BY <1>2, <1>4 DEF MicrotasksKept
<1>7. RegistryKept'
  BY <1>1, <1>3 DEF IInv, RegistryKept
<1>8. ASSUME phase # "destroyed" PROVE ScheduledOnce'
  <2>1. IsInjective(microtasks) /\ \A o \in Observer : \A i \in DOMAIN watch[o] :
          watch[o][i].microtaskQueued
            <=> [observer |-> o, key |-> watch[o][i].key] \in ToSet(microtasks)
    BY <1>8 DEF IInv, ScheduledOnce
  <2>2. ASSUME NEW o \in Observer, NEW i \in DOMAIN w[o]
        PROVE  w[o][i].microtaskQueued
                 <=> [observer |-> o, key |-> w[o][i].key] \in ToSet(Tail(microtasks))
    <3>1. i \in DOMAIN watch[o] /\ w[o][i].key = watch[o][i].key
      BY <1>2, <1>3 DEF SameKeys
    <3>2. PICK d : d = [observer |-> o, key |-> watch[o][i].key]
      OBVIOUS
    <3>3. CASE d = Head(microtasks)
      <4>1. w[o][i].microtaskQueued = FALSE
        BY <1>1, <1>8, <3>1, <3>2, <3>3
      <4>. QED
        BY <1>4, <2>1, <3>1, <3>2, <3>3, <4>1
    <3>4. CASE d # Head(microtasks)
      <4>1. w[o][i].microtaskQueued = watch[o][i].microtaskQueued
        BY <1>1, <1>8, <3>1, <3>2, <3>4
      <4>2. d \in ToSet(Tail(microtasks)) <=> d \in ToSet(microtasks)
        BY <1>4, <3>4
      <4>. QED
        BY <2>1, <3>1, <3>2, <4>1, <4>2
    <3>. QED
      BY <3>3, <3>4
  <2>. QED
    BY <1>1, <1>4, <2>1, <2>2 DEF ScheduledOnce
<1>9. ASSUME phase = "destroyed" PROVE ScheduledOnce'
  BY <1>9 DEF ScheduledOnce
<1>. QED
  BY <1>5, <1>6, <1>7, <1>8, <1>9 DEF IInv

LEMMA DeliverStep ==
  ASSUME IInv, Deliver PROVE IInv'
<1>1. PICK o : o = Head(microtasks).observer
  OBVIOUS
<1>2. PICK key : key = Head(microtasks).key
  OBVIOUS
<1>3. microtasks # <<>> /\ microtasks' = Tail(microtasks) /\ UNCHANGED <<registered, nextKey, phase>>
  BY DEF Deliver
<1>4. o \in Observer /\ Head(microtasks) = [observer |-> o, key |-> key]
  <2>1. microtasks \in Seq(Deliveries) /\ microtasks # <<>>
    BY <1>3 DEF IInv, MicrotasksKept
  <2>2. Head(microtasks) \in Deliveries
    BY <2>1, TailFacts
  <2>. QED
    BY <1>1, <1>2, <2>2 DEF Deliveries
<1>5. WatchKept /\ \A p \in Observer : watch[p] = <<>> => DOMAIN watch[p] = {}
  BY DEF IInv
<1>6. SameKeys(watch)
  <2>1. watch = [p \in Observer |-> watch[p]] /\ \A p \in Observer : WellKept(watch[p], nextKey)
    BY <1>5 DEF WatchKept
  <2>2. \A p \in Observer : \A j \in DOMAIN watch[p] : Shaped(watch[p][j])
    BY <2>1 DEF WellKept
  <2>3. \A p \in Observer : watch[p] = [j \in DOMAIN watch[p] |-> watch[p][j]]
    <3>. TAKE p \in Observer
    <3>1. PICK s : s = watch[p]
      OBVIOUS
    <3>2. s \in Seq(ToSet(s))
      BY <2>1, <3>1 DEF WellKept
    <3>3. s = [j \in DOMAIN s |-> s[j]]
      BY <3>2
    <3>. QED
      BY <3>1, <3>3
  <2>. QED
    BY <2>1, <2>2, <2>3 DEF SameKeys
<1>7. CASE o \notin callbacks
  <2>1. UNCHANGED <<watch, callbacks>>
    BY <1>1, <1>7 DEF Deliver
  <2>2. watch[o] = <<>>
    BY <1>4, <1>7 DEF IInv, RegistryKept
  <2>3. \A p \in Observer : \A i \in DOMAIN watch[p] :
          [observer |-> p, key |-> watch[p][i].key] # Head(microtasks)
    BY <1>4, <1>5, <2>2
  <2>4. SameKeys(watch')
    BY <1>6, <2>1
  <2>. QED
    BY <1>3, <2>1, <2>3, <2>4, SpentStep
<1>8. CASE o \in callbacks /\ phase = "destroyed"
  <2>1. callbacks' = callbacks \ {o} /\ UNCHANGED watch
    BY <1>1, <1>8 DEF Deliver
  <2>2. \A p \in Observer : watch[p] = <<>>
    BY <1>8 DEF IInv, RegistryKept
  <2>3. SameKeys(watch')
    BY <1>6, <2>1
  <2>. QED
    BY <1>3, <1>8, <2>1, <2>2, <2>3, SpentStep
<1>9. CASE o \in callbacks /\ phase # "destroyed"
  <2>1. PICK s : s = watch[o]
    OBVIOUS
  <2>2. PICK t : t = [i \in DOMAIN s |->
                        IF s[i].key = key
                        THEN [s[i] EXCEPT !.records = <<>>, !.microtaskQueued = FALSE]
                        ELSE s[i]]
    OBVIOUS
  <2>3. watch' = [watch EXCEPT ![o] = t] /\ UNCHANGED callbacks
    BY <1>1, <1>2, <1>9, <2>1, <2>2, Zenon DEF Deliver
  <2>4. \A j \in DOMAIN s : Shaped(s[j])
    BY <1>4, <1>5, <2>1 DEF WatchKept, WellKept
  <2>5. t = [j \in DOMAIN s |-> t[j]]
    BY <2>2
  <2>6. ASSUME NEW j \in DOMAIN s
        PROVE  /\ Shaped(t[j]) /\ t[j].key = s[j].key
               /\ IF s[j].key = key THEN t[j].microtaskQueued = FALSE
                  ELSE t[j].microtaskQueued = s[j].microtaskQueued
    <3>1. PICK obs : obs = s[j]
      OBVIOUS
    <3>2. Shaped(obs)
      BY <2>4, <3>1
    <3>3. CASE obs.key = key
      <4>1. t[j] = [obs EXCEPT !.records = <<>>, !.microtaskQueued = FALSE]
        BY <2>2, <3>1, <3>3
      <4>. QED
        BY <3>1, <3>2, <3>3, <4>1, Drained
    <3>4. CASE obs.key # key
      <4>1. t[j] = obs
        BY <2>2, <3>1, <3>4
      <4>. QED
        BY <3>1, <3>2, <3>4, <4>1
    <3>. QED
      BY <3>3, <3>4
  <2>7. SameKeys(watch') /\ watch'[o] = t /\ \A p \in Observer : p # o => watch'[p] = watch[p]
    BY <1>4, <1>5, <2>1, <2>3, <2>5, <2>6, ListRewritten
  <2>8. \A p \in Observer : \A i \in DOMAIN watch[p] :
          IF [observer |-> p, key |-> watch[p][i].key] = Head(microtasks)
          THEN watch'[p][i].microtaskQueued = FALSE
          ELSE watch'[p][i].microtaskQueued = watch[p][i].microtaskQueued
    <3>1. \A p \in Observer : \A i \in DOMAIN watch[p] :
            [observer |-> p, key |-> watch[p][i].key] = Head(microtasks) <=> p = o /\ watch[p][i].key = key
      BY <1>4
    <3>2. \A p \in Observer : \A i \in DOMAIN watch[p] : p # o => watch'[p][i] = watch[p][i]
      BY <2>7
    <3>3. \A i \in DOMAIN watch[o] :
            IF watch[o][i].key = key THEN watch'[o][i].microtaskQueued = FALSE
            ELSE watch'[o][i].microtaskQueued = watch[o][i].microtaskQueued
      BY <2>1, <2>6, <2>7
    <3>. TAKE p \in Observer
    <3>4. CASE p = o
      BY <3>1, <3>3, <3>4
    <3>5. CASE p # o
      BY <3>1, <3>2, <3>5
    <3>. QED
      BY <3>4, <3>5
  <2>. QED
    BY <1>3, <2>3, <2>7, <2>8, SpentStep
<1>. QED
  BY <1>7, <1>8, <1>9

-----------------------------------------------------------------------------
(***************************************************************************)
(* disconnect, closeWindow, destroy and the Drop of a callback's handle.   *)
(***************************************************************************)
LEMMA DisconnectedFacts ==
  ASSUME IInv, NEW os \in SUBSET Observer, Disconnected(os), UNCHANGED <<nextKey, microtasks>>
  PROVE  /\ WatchKept' /\ MicrotasksKept'
         /\ \A o \in Observer : watch'[o] = IF o \in os THEN <<>> ELSE watch[o]
         /\ phase # "destroyed" => ScheduledOnce'
<1>1. watch' = [o \in Observer |-> IF o \in os THEN <<>> ELSE watch[o]]
  BY DEF Disconnected
<1>2. \A o \in Observer : watch'[o] = IF o \in os THEN <<>> ELSE watch[o]
  BY <1>1
<1>3. WatchKept'
  <2>1. nextKey \in Nat /\ \A o \in Observer : WellKept(watch[o], nextKey)
    BY DEF IInv, WatchKept
  <2>2. \A o \in Observer : WellKept(watch'[o], nextKey)
    BY <1>2, <2>1, NoneKept
  <2>3. watch' = [o \in Observer |-> watch'[o]]
    BY <1>1
  <2>. QED
    BY <2>1, <2>2, <2>3 DEF WatchKept
<1>4. MicrotasksKept'
  BY DEF IInv, MicrotasksKept
<1>5. ASSUME phase # "destroyed" PROVE ScheduledOnce'
  <2>1. IsInjective(microtasks) /\ \A o \in Observer : \A i \in DOMAIN watch[o] :
          watch[o][i].microtaskQueued
            <=> [observer |-> o, key |-> watch[o][i].key] \in ToSet(microtasks)
    BY <1>5 DEF IInv, ScheduledOnce
  <2>2. \A o \in Observer : \A i \in DOMAIN watch'[o] : o \notin os
    BY <1>2
  <2>. QED
    BY <1>2, <2>1, <2>2 DEF ScheduledOnce
<1>. QED
  BY <1>2, <1>3, <1>4, <1>5

LEMMA DisconnectStep ==
  ASSUME IInv, NEW o \in Observer, Disconnect(o) PROVE IInv'
<1>1. phase # "destroyed" /\ Disconnected({o}) /\ {o} \in SUBSET Observer
      /\ UNCHANGED <<registered, nextKey, microtasks, callbacks, phase>>
  BY DEF Disconnect
<1>2. /\ WatchKept' /\ MicrotasksKept' /\ ScheduledOnce'
      /\ \A p \in Observer : watch'[p] = IF p \in {o} THEN <<>> ELSE watch[p]
  BY <1>1, DisconnectedFacts
<1>3. RegistryKept'
  BY <1>1, <1>2 DEF IInv, RegistryKept
<1>. QED
  BY <1>2, <1>3 DEF IInv

LEMMA CloseWindowStep ==
  ASSUME IInv, CloseWindow PROVE IInv'
<1>1. phase # "destroyed" /\ phase' # "destroyed" /\ Disconnected(Observer) /\ Observer \in SUBSET Observer
      /\ UNCHANGED <<registered, nextKey, microtasks, callbacks>>
  BY DEF CloseWindow
<1>2. /\ WatchKept' /\ MicrotasksKept' /\ ScheduledOnce'
      /\ \A p \in Observer : watch'[p] = IF p \in Observer THEN <<>> ELSE watch[p]
  BY <1>1, DisconnectedFacts
<1>3. RegistryKept'
  BY <1>1, <1>2 DEF IInv, RegistryKept
<1>. QED
  BY <1>2, <1>3 DEF IInv

LEMMA DestroyStep ==
  ASSUME IInv, Destroy PROVE IInv'
<1>1. phase' = "destroyed" /\ registered' = <<>> /\ Disconnected(Observer) /\ Observer \in SUBSET Observer
      /\ UNCHANGED <<nextKey, microtasks>>
  BY DEF Destroy
<1>2. /\ WatchKept' /\ MicrotasksKept'
      /\ \A p \in Observer : watch'[p] = IF p \in Observer THEN <<>> ELSE watch[p]
  BY <1>1, DisconnectedFacts
<1>3. RegistryKept'
  <2>1. <<>> \in Seq(Observer) /\ IsInjective(<<>>)
    BY DEF IsInjective
  <2>. QED
    BY <1>1, <1>2, <2>1 DEF RegistryKept
<1>4. ScheduledOnce'
  BY <1>1 DEF ScheduledOnce
<1>. QED
  BY <1>2, <1>3, <1>4 DEF IInv

LEMMA DropStep ==
  ASSUME IInv, NEW o \in Observer, Drop(o) PROVE IInv'
<1>1. UNCHANGED <<registered, watch, nextKey, microtasks, phase>>
      /\ watch[o] = <<>> /\ callbacks' = callbacks \ {o}
  BY DEF Drop
<1>2. WatchKept' /\ MicrotasksKept' /\ ScheduledOnce'
  BY <1>1 DEF IInv, WatchKept, MicrotasksKept, ScheduledOnce
<1>3. RegistryKept'
  BY <1>1 DEF IInv, RegistryKept
<1>. QED
  BY <1>2, <1>3 DEF IInv

-----------------------------------------------------------------------------
LEMMA InitHolds == Init => IInv
<1>. SUFFICES ASSUME Init PROVE IInv
  OBVIOUS
<1>1. registered = <<>> /\ watch = [o \in Observer |-> <<>>] /\ nextKey = 0 /\ microtasks = <<>>
      /\ phase = "open"
  BY DEF Init
<1>2. \A o \in Observer : watch[o] = <<>>
  BY <1>1
<1>3. WatchKept
  BY <1>1, <1>2, NoneKept DEF WatchKept
<1>4. <<>> \in Seq(Observer) /\ <<>> \in Seq(Deliveries) /\ IsInjective(<<>>) /\ ToSet(<<>>) = {}
  BY DEF IsInjective, ToSet
<1>5. MicrotasksKept /\ RegistryKept /\ ScheduledOnce
  BY <1>1, <1>2, <1>4 DEF MicrotasksKept, RegistryKept, ScheduledOnce
<1>. QED
  BY <1>3, <1>5 DEF IInv

LEMMA StepHolds == IInv /\ [Next]_vars => IInv'
<1>. SUFFICES ASSUME IInv, [Next]_vars PROVE IInv'
  OBVIOUS
<1>1. ASSUME NEW s, Mutate(s) \/ MutateOnly(s) PROVE IInv'
  BY <1>1, MutateStep, MutateOnlyStep
<1>2. ASSUME NEW p \in Node, NEW n \in Node, NEW ref \in Links, InsertBefore(p, n, ref) PROVE IInv'
  BY <1>1, <1>2, Zenon DEF InsertBefore
<1>3. ASSUME NEW c \in Node, RemoveChild(c) PROVE IInv'
  BY <1>1, <1>3, Zenon DEF RemoveChild
<1>4. ASSUME NEW c \in Node, NEW n \in Node, ReplaceChild(c, n) PROVE IInv'
  BY <1>1, <1>4, Zenon DEF ReplaceChild
<1>5. ASSUME NEW p \in Node, NEW xs, ReplaceChildren(p, xs) PROVE IInv'
  BY <1>1, <1>5, Zenon DEF ReplaceChildren
<1>6. ASSUME NEW el \in Node, SetAttribute(el) PROVE IInv'
  BY <1>1, <1>6, Zenon DEF SetAttribute
<1>7. ASSUME NEW el \in Node, SetInputValue(el) PROVE IInv'
  BY <1>1, <1>7, Zenon DEF SetInputValue
<1>8. ASSUME NEW p \in Node, NEW from, NEW to, RangeDeleteContents(p, from, to) PROVE IInv'
  BY <1>1, <1>8, Zenon DEF RangeDeleteContents
<1>9. ASSUME NEW p \in Node, NEW n \in Node, NEW at, RangeInsertNode(p, at, n) PROVE IInv'
  BY <1>1, <1>9, Zenon DEF RangeInsertNode
<1>10. CASE UNCHANGED vars
  BY <1>10 DEF vars, IInv, WatchKept, MicrotasksKept, RegistryKept, ScheduledOnce
<1>. QED
  BY <1>2, <1>3, <1>4, <1>5, <1>6, <1>7, <1>8, <1>9, <1>10, ObserveStep, DisconnectStep,
     TakeRecordsStep, DeliverStep, CloseWindowStep, DestroyStep, DropStep DEF Next

(***************************************************************************)
(* An observation is marked as scheduled exactly while one microtask is on *)
(* its way to it, for any number of observers, nodes and observations      *)
(* (pending_observer_deliveries, take_observer_records, deliver_observer_  *)
(* records).                                                               *)
(***************************************************************************)
THEOREM ScheduledAlwaysOnce == Spec => []ScheduledOnce
<1>1. Init => IInv
  BY InitHolds
<1>2. IInv /\ [Next]_vars => IInv'
  BY StepHolds
<1>3. IInv => ScheduledOnce
  BY DEF IInv
<1>. QED
  BY <1>1, <1>2, <1>3, PTL DEF Spec

-----------------------------------------------------------------------------
(***************************************************************************)
(* Records as a tale: told to who knows the children v, each removal names *)
(* siblings that are there, and in the end the children are t.             *)
(***************************************************************************)
After(s, r) == (s \ {r.removed}) \cup ({r.added} \ {Null})

ReplayStep(v, rs, g, i) == IF i = 0 THEN v ELSE After(g[i - 1], rs[i])

IsReplay(v, rs, len, f) == f = [i \in 0 .. len |-> ReplayStep(v, rs, f, i)]

SiblingsIn(s, r) ==
  LET around == {r.previousSibling, r.nextSibling} \ {Null}
  IN  r.removed # Null =>
        /\ around \cup {r.removed} \subseteq s
        /\ r.removed \notin around
        /\ r.previousSibling = r.nextSibling => around = {}

TaleBy(v, rs, t, f) ==
  /\ IsReplay(v, rs, Len(rs), f) /\ f[Len(rs)] = t
  /\ \A i \in 1 .. Len(rs) : SiblingsIn(f[i - 1], rs[i])

Tale(v, rs, t) == \E f : TaleBy(v, rs, t, f)

\* The recursive function that Replayed names exists.
LEMMA ReplayExists ==
  ASSUME NEW v, NEW rs, NEW len \in Nat
  PROVE  \E f : IsReplay(v, rs, len, f)
<1>. DEFINE T == {j \in Nat : \E f : IsReplay(v, rs, j, f)}
<1>1. 0 \in T
  <2>. DEFINE f == [k \in 0 .. 0 |-> v]
  <2>1. \A k \in 0 .. 0 : ReplayStep(v, rs, f, k) = v
    BY DEF ReplayStep
  <2>2. f = [k \in 0 .. 0 |-> ReplayStep(v, rs, f, k)]
    BY <2>1, Zenon
  <2>3. IsReplay(v, rs, 0, f)
    BY <2>2, Zenon DEF IsReplay
  <2>. QED
    BY <2>3
<1>2. ASSUME NEW j \in T PROVE j + 1 \in T
  <2>1. PICK f : IsReplay(v, rs, j, f)
    OBVIOUS
  <2>. DEFINE g == [k \in 0 .. j + 1 |-> ReplayStep(v, rs, f, k)]
  <2>2. \A k \in 0 .. j : g[k] = f[k]
    BY <2>1 DEF IsReplay
  <2>3. \A k \in 0 .. j + 1 : k # 0 => k - 1 \in 0 .. j
    OBVIOUS
  <2>4. \A k \in 0 .. j + 1 : ReplayStep(v, rs, f, k) = ReplayStep(v, rs, g, k)
    BY <2>2, <2>3 DEF ReplayStep
  <2>5. g = [k \in 0 .. j + 1 |-> ReplayStep(v, rs, g, k)]
    BY <2>4, Zenon
  <2>6. IsReplay(v, rs, j + 1, g)
    BY <2>5, Zenon DEF IsReplay
  <2>. QED
    BY <2>6
<1>3. T = Nat
  BY <1>1, <1>2, SetInduction
<1>. QED
  BY <1>3

\* f and g are the same from first to n.
Same(f, g, first, n) == \A i \in first .. n : f[i] = g[i]

\* What has been replayed depends on the records so far.
LEMMA ReplayUnique ==
  ASSUME NEW v, NEW rs, NEW us, NEW len \in Nat, NEW long \in Nat, NEW n \in Nat, n <= len, n <= long,
         NEW f, IsReplay(v, rs, len, f), NEW g, IsReplay(v, us, long, g), Same(rs, us, 1, n)
  PROVE  Same(f, g, 0, n)
<1>1. /\ \A i \in 0 .. len : f[i] = ReplayStep(v, rs, f, i)
      /\ \A i \in 0 .. long : g[i] = ReplayStep(v, us, g, i)
  BY Zenon DEF IsReplay
<1>. DEFINE T == {i \in Nat : i <= n => f[i] = g[i]}
<1>2. 0 \in T
  <2>1. 0 \in 0 .. len /\ 0 \in 0 .. long
    OBVIOUS
  <2>2. f[0] = v /\ g[0] = v
    BY ONLY <1>1, <2>1 DEF ReplayStep
  <2>. QED
    BY <2>2
<1>3. ASSUME NEW i \in T PROVE i + 1 \in T
  <2>. SUFFICES ASSUME i + 1 <= n PROVE f[i + 1] = g[i + 1]
    OBVIOUS
  <2>1. i + 1 \in 0 .. len /\ i + 1 \in 0 .. long /\ i + 1 # 0 /\ (i + 1) - 1 = i /\ i + 1 \in 1 .. n /\ i <= n
    OBVIOUS
  <2>2. f[i] = g[i]
    BY <2>1
  <2>3. rs[i + 1] = us[i + 1]
    BY <2>1 DEF Same
  <2>4. f[i + 1] = After(f[i], rs[i + 1]) /\ g[i + 1] = After(g[i], us[i + 1])
    BY ONLY <1>1, <2>1 DEF ReplayStep
  <2>. QED
    BY ONLY <2>2, <2>3, <2>4
<1>4. T = Nat
  <2>. HIDE DEF T
  <2>1. T \in SUBSET Nat
    BY DEF T
  <2>. QED
    BY <1>2, <1>3, <2>1, SetInduction
<1>. QED
  BY <1>4 DEF Same

\* Replayed ends where any replay does.
LEMMA ReplayedIs ==
  ASSUME NEW v, v # {Null}, NEW rs, Len(rs) \in Nat, NEW f, NEW long \in Nat, IsReplay(v, rs, long, f), Len(rs) <= long
  PROVE  Replayed(v, rs) = f[Len(rs)]
<1>. DEFINE g == CHOOSE g : IsReplay(v, rs, Len(rs), g)
<1>1. IsReplay(v, rs, Len(rs), g)
  BY ReplayExists, Zenon
<1>2. Replayed(v, rs) = g[Len(rs)]
  BY Zenon DEF Replayed, IsReplay, ReplayStep, After
<1>. HIDE DEF g
<1>3. PICK len \in Nat : len = Len(rs)
  OBVIOUS
<1>4. IsReplay(v, rs, len, g) /\ len <= len /\ len <= long /\ len \in 0 .. len
  BY <1>1, <1>3
<1>a. Same(rs, rs, 1, len)
  BY DEF Same
<1>5. Same(g, f, 0, len)
  BY ONLY <1>4, <1>a, len \in Nat, long \in Nat, IsReplay(v, rs, long, f), ReplayUnique
<1>. QED
  BY <1>2, <1>3, <1>4, <1>5 DEF Same

\* No record tells nothing.
LEMMA TaleNone ==
  ASSUME NEW v PROVE Tale(v, <<>>, v)
<1>1. PICK f : IsReplay(v, <<>>, 0, f)
  BY ReplayExists
<1>2. f[0] = v
  <2>1. 0 \in 0 .. 0
    OBVIOUS
  <2>. QED
    BY ONLY <1>1, <2>1 DEF IsReplay, ReplayStep
<1>3. Len(<<>>) = 0 /\ 1 .. 0 = {}
  OBVIOUS
<1>4. TaleBy(v, <<>>, v, f)
  BY ONLY <1>1, <1>2, <1>3 DEF TaleBy
<1>. QED
  BY <1>4 DEF Tale

\* One record more.
LEMMA TaleAppend ==
  ASSUME NEW X, NEW rs \in Seq(X), NEW r \in X, NEW v, NEW t, Tale(v, rs, t), SiblingsIn(t, r)
  PROVE  Tale(v, Append(rs, r), After(t, r))
<1>1. PICK f : TaleBy(v, rs, t, f)
  BY DEF Tale
<1>2. PICK n \in Nat : n = Len(rs)
  OBVIOUS
<1>3. PICK us : us = Append(rs, r)
  OBVIOUS
<1>4. PICK m \in Nat : m = n + 1
  OBVIOUS
<1>5. Len(us) = m /\ us[m] = r /\ Same(rs, us, 1, n)
  BY <1>2, <1>3, <1>4, AppendEntries DEF Same
<1>6. PICK g : IsReplay(v, us, m, g)
  BY ReplayExists
<1>7. IsReplay(v, rs, n, f) /\ f[n] = t /\ \A i \in 1 .. n : SiblingsIn(f[i - 1], rs[i])
  BY ONLY <1>1, <1>2 DEF TaleBy
<1>8. n <= n /\ n <= m /\ n \in 0 .. n /\ m \in 0 .. m /\ m # 0 /\ m - 1 = n
  BY <1>4
<1>9. Same(f, g, 0, n)
  BY ONLY <1>5, <1>6, <1>7, <1>8, n \in Nat, m \in Nat, ReplayUnique
<1>10. g[m] = After(g[n], us[m])
  BY ONLY <1>6, <1>8 DEF IsReplay, ReplayStep
<1>11. g[n] = t
  BY ONLY <1>7, <1>8, <1>9 DEF Same
<1>12. \A i \in 1 .. m : SiblingsIn(g[i - 1], us[i])
  <2>1. ASSUME NEW i \in 1 .. n PROVE SiblingsIn(g[i - 1], us[i])
    <3>1. i - 1 \in 0 .. n
      OBVIOUS
    <3>2. g[i - 1] = f[i - 1] /\ us[i] = rs[i]
      BY ONLY <1>5, <1>9, <2>1, <3>1 DEF Same
    <3>. QED
      BY <1>7, <3>2
  <2>2. SiblingsIn(g[m - 1], us[m])
    BY ONLY <1>5, <1>8, <1>11, SiblingsIn(t, r)
  <2>3. \A i \in 1 .. m : i \in 1 .. n \/ i = m
    BY <1>4
  <2>. QED
    BY ONLY <2>1, <2>2, <2>3
<1>13. TaleBy(v, us, After(t, r), g)
  BY ONLY <1>5, <1>6, <1>10, <1>11, <1>12 DEF TaleBy
<1>. QED
  BY <1>3, <1>13 DEF Tale

\* And one less.
LEMMA TaleBefore ==
  ASSUME NEW X, NEW rs \in Seq(X), NEW r \in X, NEW v, NEW w, Tale(v, Append(rs, r), w)
  PROVE  \E t : Tale(v, rs, t) /\ SiblingsIn(t, r) /\ w = After(t, r)
<1>1. PICK us : us = Append(rs, r)
  OBVIOUS
<1>2. PICK n \in Nat : n = Len(rs)
  OBVIOUS
<1>3. PICK m \in Nat : m = n + 1
  OBVIOUS
<1>4. Len(us) = m /\ us[m] = r /\ Same(rs, us, 1, n)
  BY <1>1, <1>2, <1>3, AppendEntries DEF Same
<1>5. PICK g : TaleBy(v, us, w, g)
  BY <1>1 DEF Tale
<1>6. IsReplay(v, us, m, g) /\ g[m] = w /\ \A i \in 1 .. m : SiblingsIn(g[i - 1], us[i])
  BY ONLY <1>4, <1>5 DEF TaleBy
<1>7. PICK f : IsReplay(v, rs, n, f)
  BY ReplayExists
<1>8. n <= n /\ n <= m /\ n \in 0 .. n /\ m \in 0 .. m /\ m \in 1 .. m /\ m # 0 /\ m - 1 = n
  BY <1>3
<1>9. Same(f, g, 0, n)
  BY ONLY <1>4, <1>6, <1>7, <1>8, n \in Nat, m \in Nat, ReplayUnique
<1>10. g[m] = After(g[n], us[m])
  BY ONLY <1>6, <1>8 DEF IsReplay, ReplayStep
<1>11. f[n] = g[n]
  BY ONLY <1>8, <1>9 DEF Same
<1>12. SiblingsIn(g[n], r)
  <2>1. SiblingsIn(g[m - 1], us[m])
    BY ONLY <1>6, <1>8
  <2>. QED
    BY ONLY <1>4, <1>8, <2>1
<1>13. \A i \in 1 .. n : SiblingsIn(f[i - 1], rs[i])
  <2>. TAKE i \in 1 .. n
  <2>1. i - 1 \in 0 .. n /\ i \in 1 .. m
    BY <1>3
  <2>2. g[i - 1] = f[i - 1] /\ us[i] = rs[i]
    BY ONLY <1>4, <1>9, i \in 1 .. n, <2>1 DEF Same
  <2>. QED
    BY <1>6, <2>1, <2>2
<1>14. TaleBy(v, rs, f[n], f)
  BY ONLY <1>2, <1>7, <1>13 DEF TaleBy
<1>. QED
  BY <1>4, <1>6, <1>10, <1>11, <1>12, <1>14 DEF Tale

\* One tale after the other.
LEMMA TaleConcat ==
  ASSUME NEW X, NEW rs \in Seq(X), NEW us \in Seq(X), NEW v, NEW t, NEW w, Tale(v, rs, t), Tale(t, us, w)
  PROVE  Tale(v, rs \o us, w)
<1>. DEFINE T == {qs \in Seq(X) : \A u : Tale(t, qs, u) => Tale(v, rs \o qs, u)}
<1>1. <<>> \in T
  <2>1. ASSUME NEW u, Tale(t, <<>>, u) PROVE u = t
    <3>1. PICK g : TaleBy(t, <<>>, u, g)
      BY <2>1 DEF Tale
    <3>2. IsReplay(t, <<>>, 0, g) /\ g[0] = u /\ 0 \in 0 .. 0
      BY ONLY <3>1, Len(<<>>) = 0 DEF TaleBy
    <3>. QED
      BY ONLY <3>2 DEF IsReplay, ReplayStep
  <2>2. rs \o <<>> = rs /\ <<>> \in Seq(X)
    OBVIOUS
  <2>. QED
    BY <2>1, <2>2
<1>2. ASSUME NEW qs \in T, NEW e \in X PROVE Append(qs, e) \in T
  <2>0. qs \in Seq(X) /\ \A u : Tale(t, qs, u) => Tale(v, rs \o qs, u)
    OBVIOUS
  <2>1. Append(qs, e) \in Seq(X) /\ rs \o qs \in Seq(X) /\ rs \o Append(qs, e) = Append(rs \o qs, e)
    BY <2>0
  <2>2. PICK ps \in Seq(X) : ps = rs \o qs
    BY <2>1
  <2>3. ASSUME NEW u, Tale(t, Append(qs, e), u) PROVE Tale(v, Append(ps, e), u)
    <3>1. PICK s : Tale(t, qs, s) /\ SiblingsIn(s, e) /\ u = After(s, e)
      BY <2>0, <2>3, TaleBefore
    <3>2. Tale(v, ps, s)
      BY <2>0, <2>2, <3>1
    <3>. QED
      BY <3>1, <3>2, TaleAppend
  <2>. QED
    BY <2>1, <2>2, <2>3
<1>3. T \in SUBSET Seq(X)
  OBVIOUS
<1>4. T = Seq(X)
  <2>. HIDE DEF T
  <2>. QED
    BY <1>1, <1>2, <1>3, AppendInduction
<1>. QED
  BY <1>4

\* What a tale tells is what is replayed.
LEMMA TaleTells ==
  ASSUME NEW X, NEW rs \in Seq(X), NEW v, v # {Null}, NEW t, Tale(v, rs, t)
  PROVE  /\ Replayed(v, rs) = t
         /\ \A i \in DOMAIN rs : SiblingsIn(Replayed(v, SubSeq(rs, 1, i - 1)), rs[i])
<1>1. PICK f : TaleBy(v, rs, t, f)
  BY DEF Tale
<1>2. PICK n \in Nat : n = Len(rs) /\ DOMAIN rs = 1 .. n
  OBVIOUS
<1>3. IsReplay(v, rs, n, f) /\ f[n] = t /\ \A i \in 1 .. n : SiblingsIn(f[i - 1], rs[i])
  BY ONLY <1>1, <1>2 DEF TaleBy
<1>4. Replayed(v, rs) = t
  <2>1. Len(rs) \in Nat /\ Len(rs) <= n
    BY <1>2
  <2>. QED
    BY ONLY <1>2, <1>3, <2>1, v # {Null}, n \in Nat, ReplayedIs
<1>5. ASSUME NEW i \in 1 .. n PROVE Replayed(v, SubSeq(rs, 1, i - 1)) = f[i - 1]
  <2>1. PICK m \in Nat : m = i - 1 /\ m \in 0 .. n /\ m <= n
    OBVIOUS
  <2>2. PICK us : us = SubSeq(rs, 1, m)
    OBVIOUS
  <2>3. Len(us) = m /\ Same(us, rs, 1, m)
    <3>1. us = [j \in 1 .. m |-> rs[j]]
      BY <1>2, <2>1, <2>2
    <3>. QED
      BY <3>1 DEF Same
  <2>4. PICK g : IsReplay(v, us, m, g)
    BY ReplayExists
  <2>5. Replayed(v, us) = g[m]
    <3>1. Len(us) \in Nat /\ Len(us) <= m
      BY <2>3
    <3>. QED
      BY ONLY <2>3, <2>4, <3>1, v # {Null}, m \in Nat, ReplayedIs
  <2>6. m <= m /\ m \in 0 .. m
    OBVIOUS
  <2>7. Same(g, f, 0, m)
    BY ONLY <1>3, <2>1, <2>3, <2>4, <2>6, m \in Nat, n \in Nat, ReplayUnique
  <2>. QED
    BY <2>1, <2>2, <2>5, <2>6, <2>7 DEF Same
<1>. QED
  BY ONLY <1>2, <1>3, <1>4, <1>5

-----------------------------------------------------------------------------
(***************************************************************************)
(* The records of a log, those that an observation hears, and those about  *)
(* one node.                                                               *)
(***************************************************************************)
\* An entry of a log; the tree it was made in may be anything.
Entries(K) == [kids : K, record : MutationRecord]

\* The records of a log.
Recs(log) == [i \in DOMAIN log |-> log[i].record]

TellingOf(n) == {r \in MutationRecord : r.type = "childList" /\ r.target = n}

\* Keeping looks at entries of the list only.
LEMMA KeepingSame ==
  ASSUME NEW X, NEW s \in Seq(X), NEW S, NEW R, \A x \in ToSet(s) : x \in S <=> x \in R
  PROVE  Keeping(s, S) = Keeping(s, R)
<1>. DEFINE T == {q \in Seq(X) : (\A x \in ToSet(q) : x \in S <=> x \in R) => Keeping(q, S) = Keeping(q, R)}
<1>1. <<>> \in T
  <2>1. Keeping(<<>>, S) = <<>> /\ Keeping(<<>>, R) = <<>> /\ <<>> \in Seq(X)
    BY KeepingEmpty
  <2>. QED
    BY <2>1
<1>2. ASSUME NEW q \in T, NEW e \in X PROVE Append(q, e) \in T
  <2>0. q \in Seq(X) /\ ((\A x \in ToSet(q) : x \in S <=> x \in R) => Keeping(q, S) = Keeping(q, R))
    OBVIOUS
  <2>1. Append(q, e) \in Seq(X) /\ ToSet(Append(q, e)) = ToSet(q) \cup {e}
    BY <2>0, AppendFacts
  <2>2. /\ Keeping(Append(q, e), S) = IF e \in S THEN Append(Keeping(q, S), e) ELSE Keeping(q, S)
        /\ Keeping(Append(q, e), R) = IF e \in R THEN Append(Keeping(q, R), e) ELSE Keeping(q, R)
    BY <2>0, KeepingAppend
  <2>3. ASSUME \A x \in ToSet(Append(q, e)) : x \in S <=> x \in R
        PROVE  Keeping(Append(q, e), S) = Keeping(Append(q, e), R)
    BY ONLY <2>0, <2>1, <2>2, <2>3
  <2>. QED
    BY <2>1, <2>3
<1>3. T \in SUBSET Seq(X)
  OBVIOUS
<1>. HIDE DEF T
<1>4. T = Seq(X)
  BY <1>1, <1>2, <1>3, AppendInduction
<1>. QED
  BY <1>4 DEF T

\* About keeps the records about a node.
LEMMA AboutIs ==
  ASSUME NEW rs \in Seq(MutationRecord), NEW n
  PROVE  About(rs, n) = Keeping(rs, TellingOf(n))
<1>. DEFINE S == {r \in ToSet(rs) : r.type = "childList" /\ r.target = n}
<1>1. \A x \in ToSet(rs) : x \in MutationRecord
  BY DEF ToSet
<1>2. \A x \in ToSet(rs) : x \in S <=> x \in TellingOf(n)
  BY ONLY <1>1 DEF TellingOf
<1>3. About(rs, n) = Keeping(rs, S)
  BY Zenon DEF About
<1>. HIDE DEF S
<1>. QED
  BY <1>2, <1>3, KeepingSame

\* About, from the end.
LEMMA AboutAppend ==
  ASSUME NEW rs \in Seq(MutationRecord), NEW r \in MutationRecord, NEW n
  PROVE  /\ About(rs, n) \in Seq(MutationRecord) /\ About(<<>>, n) = <<>>
         /\ About(Append(rs, r), n) = IF r.type = "childList" /\ r.target = n THEN Append(About(rs, n), r) ELSE About(rs, n)
<1>. DEFINE S == TellingOf(n)
<1>1. About(rs, n) = Keeping(rs, S)
  BY AboutIs
<1>2. Append(rs, r) \in Seq(MutationRecord) /\ <<>> \in Seq(MutationRecord)
  <2>. PICK X : X = MutationRecord
    OBVIOUS
  <2>1. rs \in Seq(X) /\ r \in X
    OBVIOUS
  <2>2. Append(rs, r) \in Seq(X) /\ <<>> \in Seq(X)
    BY ONLY <2>1
  <2>. QED
    BY <2>2
<1>3. About(Append(rs, r), n) = Keeping(Append(rs, r), S) /\ About(<<>>, n) = Keeping(<<>>, S)
  BY ONLY <1>2, AboutIs
<1>4. Keeping(rs, S) \in Seq(MutationRecord) /\ Keeping(<<>>, S) = <<>>
  BY KeepingFacts, KeepingEmpty
<1>6. Keeping(Append(rs, r), S) = IF r \in S THEN Append(Keeping(rs, S), r) ELSE Keeping(rs, S)
  BY KeepingAppend
<1>7. r \in S <=> r.type = "childList" /\ r.target = n
  BY DEF TellingOf
<1>. QED
  BY ONLY <1>1, <1>3, <1>4, <1>6, <1>7

\* And through a concatenation.
LEMMA AboutConcat ==
  ASSUME NEW rs \in Seq(MutationRecord), NEW us \in Seq(MutationRecord), NEW n
  PROVE  /\ rs \o us \in Seq(MutationRecord) /\ About(rs, n) \in Seq(MutationRecord) /\ About(us, n) \in Seq(MutationRecord)
         /\ About(rs \o us, n) = About(rs, n) \o About(us, n)
<1>. DEFINE S == TellingOf(n)
<1>1. About(rs, n) = Keeping(rs, S) /\ About(us, n) = Keeping(us, S)
  BY AboutIs
<1>2. rs \o us \in Seq(MutationRecord)
  <2>. PICK X : X = MutationRecord
    OBVIOUS
  <2>1. rs \in Seq(X) /\ us \in Seq(X)
    OBVIOUS
  <2>2. rs \o us \in Seq(X)
    BY ONLY <2>1
  <2>. QED
    BY <2>2
<1>3. About(rs \o us, n) = Keeping(rs \o us, S)
  BY ONLY <1>2, AboutIs
<1>4. Keeping(rs, S) \in Seq(MutationRecord) /\ Keeping(us, S) \in Seq(MutationRecord)
  BY KeepingFacts
<1>5. Keeping(rs \o us, S) = Keeping(rs, S) \o Keeping(us, S)
  BY KeepingConcat
<1>. QED
  BY ONLY <1>1, <1>2, <1>3, <1>4, <1>5

\* The records of a log, from the end.
LEMMA RecsFacts ==
  ASSUME NEW K, NEW log \in Seq(Entries(K)), NEW e \in Entries(K)
  PROVE  /\ Recs(log) \in Seq(MutationRecord) /\ Recs(<<>>) = <<>> /\ e.record \in MutationRecord
         /\ Append(log, e) \in Seq(Entries(K))
         /\ Recs(Append(log, e)) = Append(Recs(log), e.record)
<1>. PICK E : E = Entries(K)
  OBVIOUS
<1>. PICK R : R = MutationRecord
  OBVIOUS
<1>0. \A x \in E : x.record \in R
  BY DEF Entries
<1>1. PICK n \in Nat : n = Len(log) /\ DOMAIN log = 1 .. n /\ \A i \in 1 .. n : log[i] \in E
  OBVIOUS
<1>2. PICK rs : rs = Recs(log)
  OBVIOUS
<1>3. rs = [i \in 1 .. n |-> log[i].record]
  BY ONLY <1>1, <1>2 DEF Recs
<1>4. rs \in Seq(R) /\ Len(rs) = n /\ \A i \in 1 .. n : rs[i] = log[i].record
  BY ONLY <1>0, <1>1, <1>3
<1>5. PICK q : q = Append(log, e)
  OBVIOUS
<1>6. q \in Seq(E) /\ Len(q) = n + 1 /\ q[n + 1] = e /\ (\A i \in 1 .. n : q[i] = log[i]) /\ DOMAIN q = 1 .. n + 1
  <2>1. q \in Seq(E) /\ Len(q) = Len(log) + 1 /\ q[Len(log) + 1] = e /\ \A i \in 1 .. Len(log) : q[i] = log[i]
    BY <1>5, AppendEntries
  <2>2. DOMAIN q = 1 .. Len(q)
    BY <2>1
  <2>. QED
    BY ONLY <1>1, <2>1, <2>2
<1>7. PICK us : us = Recs(q)
  OBVIOUS
<1>8. us = [i \in 1 .. n + 1 |-> q[i].record]
  BY ONLY <1>6, <1>7 DEF Recs
<1>9. us \in Seq(R) /\ Len(us) = n + 1 /\ us[n + 1] = e.record /\ \A i \in 1 .. n : us[i] = rs[i]
  <2>1. \A i \in 1 .. n + 1 : q[i] \in E
    BY <1>6
  <2>2. n + 1 \in Nat /\ n + 1 \in 1 .. n + 1 /\ \A i \in 1 .. n : i \in 1 .. n + 1
    OBVIOUS
  <2>. QED
    BY ONLY <1>0, <1>4, <1>6, <1>8, <2>1, <2>2
<1>10. PICK ws : ws = Append(rs, e.record)
  OBVIOUS
<1>11. ws \in Seq(R) /\ Len(ws) = n + 1 /\ ws[n + 1] = e.record /\ \A i \in 1 .. n : ws[i] = rs[i]
  <2>1. e.record \in R
    BY <1>0
  <2>. QED
    BY <1>4, <1>10, <2>1, AppendEntries
<1>12. us = ws
  <2>1. Len(us) = Len(ws) /\ \A i \in 1 .. Len(us) : us[i] = ws[i]
    <3>1. \A i \in 1 .. n + 1 : i \in 1 .. n \/ i = n + 1
      OBVIOUS
    <3>. QED
      BY ONLY <1>9, <1>11, <3>1
  <2>. QED
    BY ONLY <1>9, <1>11, <2>1, ListsEqual
<1>13. Recs(<<>>) = <<>>
  BY DEF Recs
<1>. QED
  BY <1>0, <1>2, <1>4, <1>5, <1>6, <1>7, <1>10, <1>12, <1>13

\* Of what is told of n, obs hears all, or nothing.
HeardBy(obs, log, n, b) ==
  \A e \in ToSet(log) :
    e.record.type = "childList" /\ e.record.target = n => (Interested(e.kids, obs, e.record) <=> b)

\* What is told of n to who hears all of it, or nothing.
LEMMA HeardWhere ==
  ASSUME NEW K, NEW log \in Seq(Entries(K)), NEW obs, NEW n, NEW b \in BOOLEAN
  PROVE  /\ RecordsFor(obs, log) \in Seq(MutationRecord)
         /\ HeardBy(obs, log, n, b) => About(RecordsFor(obs, log), n) = IF b THEN About(Recs(log), n) ELSE <<>>
<1>. DEFINE E == Entries(K)
            I == {e \in E : Interested(e.kids, obs, e.record)}
            Heard(q) == Recs(Keeping(q, I))
            Good(q) == /\ Heard(q) \in Seq(MutationRecord) /\ Recs(q) \in Seq(MutationRecord)
                       /\ HeardBy(obs, q, n, b) => About(Heard(q), n) = IF b THEN About(Recs(q), n) ELSE <<>>
            T == {q \in Seq(E) : Good(q)}
<1>1. RecordsFor(obs, log) = Heard(log)
  <2>. DEFINE S == {e \in ToSet(log) : Interested(e.kids, obs, e.record)}
  <2>1. \A x \in ToSet(log) : x \in E
    <3>. HIDE DEF E
    <3>. QED
      BY DEF ToSet, E
  <2>2. \A x \in ToSet(log) : x \in S <=> x \in I
    <3>. HIDE DEF E
    <3>. QED
      BY ONLY <2>1
  <2>3. RecordsFor(obs, log) = Recs(Keeping(log, S))
    BY Zenon DEF RecordsFor, Recs
  <2>. HIDE DEF S, I
  <2>4. Keeping(log, S) = Keeping(log, I)
    BY <2>2, KeepingSame
  <2>. QED
    BY <2>3, <2>4
<1>2. <<>> \in T
  <2>1. Keeping(<<>>, I) = <<>>
    BY KeepingEmpty
  <2>2. Recs(<<>>) = <<>> /\ <<>> \in Seq(MutationRecord) /\ <<>> \in Seq(E)
    BY DEF Recs
  <2>3. About(<<>>, n) = <<>>
    BY KeepingEmpty, Zenon DEF About
  <2>. HIDE DEF E, I
  <2>. QED
    BY ONLY <2>1, <2>2, <2>3
<1>3. ASSUME NEW q \in T, NEW e \in E PROVE Append(q, e) \in T
  <2>. PICK h : h = Keeping(q, I)
    OBVIOUS
  <2>1. q \in Seq(E) /\ Good(q)
    BY <1>3
  <2>2. h \in Seq(E)
    <3>. HIDE DEF E, I
    <3>. QED
      BY ONLY <2>1, h = Keeping(q, I), KeepingFacts
  <2>3. /\ Append(q, e) \in Seq(E) /\ Recs(Append(q, e)) = Append(Recs(q), e.record) /\ e.record \in MutationRecord
        /\ Recs(Append(h, e)) = Append(Recs(h), e.record)
    BY <2>1, <2>2, RecsFacts
  <2>4. Keeping(Append(q, e), I) = IF e \in I THEN Append(h, e) ELSE h
    <3>. HIDE DEF E, I
    <3>. QED
      BY <2>1, KeepingAppend
  <2>5. PICK r \in MutationRecord : r = e.record
    BY <2>3
  <2>6. PICK rs \in Seq(MutationRecord) : rs = Recs(q)
    BY <2>1
  <2>7. PICK hs \in Seq(MutationRecord) : hs = Recs(h)
    BY <2>1
  <2>8. Append(rs, r) \in Seq(MutationRecord) /\ Append(hs, r) \in Seq(MutationRecord)
    <3>. PICK R : R = MutationRecord
      OBVIOUS
    <3>1. rs \in Seq(R) /\ hs \in Seq(R) /\ r \in R
      OBVIOUS
    <3>2. Append(rs, r) \in Seq(R) /\ Append(hs, r) \in Seq(R)
      BY ONLY <3>1
    <3>. QED
      BY <3>2
  <2>9. Heard(Append(q, e)) = IF e \in I THEN Append(hs, r) ELSE hs
    <3>. HIDE DEF E, I
    <3>. QED
      BY ONLY <2>3, <2>4, <2>5, <2>7
  <2>10. Recs(Append(q, e)) = Append(rs, r)
    BY ONLY <2>3, <2>5, <2>6
  <2>11. ASSUME HeardBy(obs, Append(q, e), n, b)
         PROVE  About(Heard(Append(q, e)), n) = IF b THEN About(Recs(Append(q, e)), n) ELSE <<>>
    <3>1. HeardBy(obs, q, n, b) /\ (r.type = "childList" /\ r.target = n => (e \in I <=> b))
      <4>1. ToSet(Append(q, e)) = ToSet(q) \cup {e}
        <5>. HIDE DEF E, I
        <5>. QED
          BY <2>1, AppendFacts
      <4>. QED
        BY <2>5, <2>11, <4>1 DEF HeardBy
    <3>2. About(hs, n) = IF b THEN About(rs, n) ELSE <<>>
      BY <2>1, <2>6, <2>7, <3>1
    <3>3. /\ About(Append(rs, r), n) = IF r.type = "childList" /\ r.target = n THEN Append(About(rs, n), r) ELSE About(rs, n)
          /\ About(Append(hs, r), n) = IF r.type = "childList" /\ r.target = n THEN Append(About(hs, n), r) ELSE About(hs, n)
      BY ONLY rs \in Seq(MutationRecord), hs \in Seq(MutationRecord), r \in MutationRecord, AboutAppend
    <3>. HIDE DEF E, I, Heard
    <3>. QED
      BY ONLY <2>9, <2>10, <3>1, <3>2, <3>3, b \in BOOLEAN
  <2>12. Good(Append(q, e))
    <3>. HIDE DEF I, E
    <3>. QED
      BY ONLY <2>8, <2>9, <2>10, <2>11
  <2>. QED
    BY ONLY <2>3, <2>12
<1>4. T \in SUBSET Seq(E)
  OBVIOUS
<1>. HIDE DEF T, E
<1>5. T = Seq(E)
  BY <1>2, <1>3, <1>4, AppendInduction
<1>. QED
  BY <1>1, <1>5 DEF T, E

\* An observation of the children of a node hears all that is told of it.
LEMMA HeardAll ==
  ASSUME NEW K, NEW log \in Seq(Entries(K)), NEW obs
  PROVE  /\ RecordsFor(obs, log) \in Seq(MutationRecord)
         /\ "childList" \in obs.types => About(RecordsFor(obs, log), obs.target) = About(Recs(log), obs.target)
<1>1. "childList" \in obs.types => HeardBy(obs, log, obs.target, TRUE)
  BY DEF HeardBy, Interested
<1>. QED
  BY <1>1, HeardWhere

-----------------------------------------------------------------------------
(***************************************************************************)
(* The trees, as lists of children that are each held once.                *)
(***************************************************************************)
Trees == [Node -> Seq(Element)]

Family(k) ==
  /\ k \in Trees
  /\ \A m \in Node : IsInjective(k[m])
  /\ \A a, b \in Node : a # b => ToSet(k[a]) \cap ToSet(k[b]) = {}

\* What is said of one list of children.
LEMMA FamilyFacts ==
  ASSUME NEW k, Family(k), NEW m \in Node
  PROVE  /\ k[m] \in Seq(Element) /\ IsInjective(k[m]) /\ ToSet(k[m]) \subseteq Element
         /\ k[m] \in Seq(Node) /\ ToSet(k[m]) \subseteq Node /\ Null \notin ToSet(k[m])
<1>1. k[m] \in Seq(Element) /\ IsInjective(k[m])
  BY DEF Family, Trees
<1>2. PICK s : s = k[m]
  OBVIOUS
<1>3. PICK X : X = Element
  OBVIOUS
<1>4. X \subseteq Node /\ Null \notin X
  BY <1>3, MutationObserversAssumption DEF Element
<1>5. s \in Seq(X) /\ IsInjective(s)
  BY <1>1, <1>2, <1>3
<1>6. s \in Seq(Node) /\ ToSet(s) \subseteq X
  BY ONLY <1>4, <1>5 DEF ToSet
<1>. QED
  BY ONLY <1>1, <1>2, <1>3, <1>4, <1>5, <1>6

\* Owner is the one parent, if there is any.
LEMMA OwnerFacts ==
  ASSUME NEW k, Family(k), NEW x
  PROVE  /\ Owner(k, x) # Null => Owner(k, x) \in Node /\ x \in ToSet(k[Owner(k, x)])
         /\ \A m \in Node : x \in ToSet(k[m]) <=> Owner(k, x) = m
<1>1. Null \notin Node
  BY MutationObserversAssumption
<1>2. \A a, b \in Node : x \in ToSet(k[a]) /\ x \in ToSet(k[b]) => a = b
  BY DEF Family
<1>3. Owner(k, x) # Null => Owner(k, x) \in Node /\ x \in ToSet(k[Owner(k, x)])
  BY ONLY Zenon DEF Owner, ChildOf
<1>4. \A m \in Node : x \in ToSet(k[m]) => Owner(k, x) \in Node /\ x \in ToSet(k[Owner(k, x)])
  BY ONLY Zenon DEF Owner, ChildOf
<1>. QED
  BY ONLY <1>1, <1>2, <1>3, <1>4

\* Position finds the first.
LEMMA PositionFacts ==
  ASSUME NEW X, NEW s \in Seq(X), NEW c \in ToSet(s)
  PROVE  Position(s, c) \in 1 .. Len(s) /\ s[Position(s, c)] = c
<1>. DEFINE I == {i \in 1 .. Len(s) : s[i] = c}
<1>1. DOMAIN s = 1 .. Len(s) /\ I \in SUBSET Nat
  OBVIOUS
<1>2. I # {}
  BY <1>1 DEF ToSet
<1>3. \E x \in I : \A y \in I : x <= y
  BY <1>1, <1>2, LeastNatural
<1>4. Position(s, c) = CHOOSE x \in I : \A y \in I : x <= y
  BY <1>2, Zenon DEF Position, SelectInSeq, Min
<1>. HIDE DEF I
<1>5. Position(s, c) \in I
  BY ONLY <1>3, <1>4
<1>. QED
  BY <1>5 DEF I

\* PutBefore adds exactly what it is given.
LEMMA PutBeforeFacts ==
  ASSUME NEW X, NEW s \in Seq(X), NEW xs \in Seq(X), NEW ref, ref = Null \/ ref \in ToSet(s)
  PROVE  /\ PutBefore(s, ref, xs) \in Seq(X) /\ ToSet(PutBefore(s, ref, xs)) = ToSet(s) \cup ToSet(xs)
         /\ IsInjective(s) /\ IsInjective(xs) /\ ToSet(s) \cap ToSet(xs) = {}
            => IsInjective(PutBefore(s, ref, xs))
<1>1. CASE ref = Null
  <2>1. PutBefore(s, ref, xs) = s \o xs
    BY <1>1, Zenon DEF PutBefore
  <2>. QED
    BY <2>1, ConcatFacts
<1>2. CASE ref # Null
  <2>1. PICK i : i = Position(s, ref)
    OBVIOUS
  <2>2. i \in 1 .. Len(s) + 1
    <3>1. i \in 1 .. Len(s)
      BY <1>2, <2>1, PositionFacts
    <3>. QED
      BY <3>1
  <2>3. SplicedAt(s, i, xs, PutBefore(s, ref, xs))
    BY <1>2, <2>1, <2>2, Zenon DEF PutBefore, SplicedAt
  <2>. QED
    BY ONLY <2>3, s \in Seq(X), xs \in Seq(X), SpliceFacts
<1>. QED
  BY <1>1, <1>2

\* The entry of a list at a place, if it has one.
At(s, i) == IF i \in DOMAIN s THEN s[i] ELSE Null

\* What is beside c in a list that holds nothing twice.
LEMMA BesideFacts ==
  ASSUME NEW X, NEW s \in Seq(X), IsInjective(s), Null \notin ToSet(s), NEW c \in ToSet(s), NEW i, i = Position(s, c)
  PROVE  /\ At(s, i - 1) # Null => At(s, i - 1) \in ToSet(s) \ {c}
         /\ At(s, i + 1) # Null => At(s, i + 1) \in ToSet(s) \ {c}
         /\ At(s, i - 1) = At(s, i + 1) => At(s, i - 1) = Null
         /\ \A j : At(s, i + 1) \in ToSet(s) /\ j = Position(s, At(s, i + 1)) => At(s, j + 1) # c
<1>1. PICK n \in Nat : n = Len(s) /\ DOMAIN s = 1 .. n
  OBVIOUS
<1>2. i \in 1 .. n /\ s[i] = c
  BY ONLY s \in Seq(X), c \in ToSet(s), i = Position(s, c), <1>1, PositionFacts
<1>3. \A a, b \in 1 .. n : s[a] = s[b] => a = b
  BY ONLY <1>1, IsInjective(s) DEF IsInjective
<1>4. \A a \in 1 .. n : s[a] \in ToSet(s) /\ s[a] # Null
  BY ONLY <1>1, Null \notin ToSet(s) DEF ToSet
<1>5. \A a : At(s, a) = IF a \in 1 .. n THEN s[a] ELSE Null
  BY ONLY <1>1 DEF At
<1>6. ASSUME NEW a \in Int, a # i, At(s, a) # Null PROVE a \in 1 .. n /\ At(s, a) = s[a] /\ s[a] \in ToSet(s) /\ s[a] # c
  BY <1>2, <1>3, <1>4, <1>5, <1>6
<1>7. i - 1 \in Int /\ i + 1 \in Int /\ i - 1 # i /\ i + 1 # i /\ i - 1 # i + 1 /\ i + 1 + 1 # i /\ i + 1 + 1 \in Int
  BY <1>2
<1>8. ASSUME NEW j, At(s, i + 1) \in ToSet(s), j = Position(s, At(s, i + 1)) PROVE At(s, j + 1) # c
  <2>1. At(s, i + 1) # Null
    BY <1>8
  <2>2. i + 1 \in 1 .. n /\ At(s, i + 1) = s[i + 1]
    BY ONLY <1>6, <1>7, <2>1
  <2>3. j \in 1 .. n /\ s[j] = s[i + 1]
    BY ONLY s \in Seq(X), <1>1, <1>8, <2>2, PositionFacts
  <2>4. j = i + 1
    BY ONLY <1>3, <2>2, <2>3
  <2>5. c # Null
    BY <1>2, <1>4
  <2>. QED
    BY ONLY <1>6, <1>7, <2>4, <2>5
<1>9. At(s, i - 1) = At(s, i + 1) => At(s, i - 1) = Null
  BY ONLY <1>3, <1>6, <1>7
<1>. QED
  BY ONLY <1>6, <1>7, <1>8, <1>9

\* The siblings of a child.
LEMMA SiblingFacts ==
  ASSUME NEW k, Family(k), NEW p \in Node, NEW c \in ToSet(k[p])
  PROVE  /\ PreviousSibling(k, c) # Null => PreviousSibling(k, c) \in ToSet(k[p]) \ {c}
         /\ NextSibling(k, c) # Null => NextSibling(k, c) \in ToSet(k[p]) \ {c}
         /\ PreviousSibling(k, c) = NextSibling(k, c) => NextSibling(k, c) = Null
         /\ NextSibling(k, c) # Null => NextSibling(k, NextSibling(k, c)) # c
<1>1. PICK s : s = k[p]
  OBVIOUS
<1>2. s \in Seq(Element) /\ IsInjective(s) /\ Null \notin ToSet(s) /\ c \in ToSet(s)
  BY <1>1, FamilyFacts
<1>3. p # Null
  BY MutationObserversAssumption
<1>4. ASSUME NEW x \in ToSet(s), NEW offset PROVE Sibling(k, x, offset) = At(s, Position(s, x) + offset)
  <2>1. Owner(k, x) = p
    BY <1>1, OwnerFacts
  <2>. QED
    BY ONLY <1>1, <1>3, <2>1 DEF Sibling, At
<1>5. PICK i : i = Position(s, c)
  OBVIOUS
<1>6. i \in 1 .. Len(s)
  BY <1>2, <1>5, PositionFacts
<1>7. PreviousSibling(k, c) = At(s, i - 1) /\ \A x \in ToSet(s) : NextSibling(k, x) = At(s, Position(s, x) + 1)
  <2>1. i + (-1) = i - 1
    BY <1>6
  <2>2. PreviousSibling(k, c) = At(s, i + (-1))
    BY ONLY <1>2, <1>4, <1>5 DEF PreviousSibling
  <2>3. \A x \in ToSet(s) : NextSibling(k, x) = At(s, Position(s, x) + 1)
    BY ONLY <1>4 DEF NextSibling
  <2>. QED
    BY ONLY <2>1, <2>2, <2>3
<1>8. /\ At(s, i - 1) # Null => At(s, i - 1) \in ToSet(s) \ {c}
      /\ At(s, i + 1) # Null => At(s, i + 1) \in ToSet(s) \ {c}
      /\ At(s, i - 1) = At(s, i + 1) => At(s, i - 1) = Null
      /\ \A j : At(s, i + 1) \in ToSet(s) /\ j = Position(s, At(s, i + 1)) => At(s, j + 1) # c
  BY ONLY <1>2, <1>5, BesideFacts
<1>. QED
  BY ONLY <1>1, <1>2, <1>5, <1>7, <1>8

\* Taking nodes out of every list.
LEMMA WithoutFacts ==
  ASSUME NEW k, Family(k), NEW Q
  PROVE  /\ Family(Without(k, Q))
         /\ \A m \in Node : ToSet(Without(k, Q)[m]) = ToSet(k[m]) \ Q
<1>1. Without(k, Q) = [m \in Node |-> Keeping(k[m], Node \ Q)]
  BY Zenon DEF Without
<1>2. ASSUME NEW m \in Node
      PROVE  /\ Keeping(k[m], Node \ Q) \in Seq(Element) /\ ToSet(Keeping(k[m], Node \ Q)) = ToSet(k[m]) \ Q
             /\ IsInjective(Keeping(k[m], Node \ Q))
  <2>1. PICK s : s = k[m]
    OBVIOUS
  <2>2. s \in Seq(Element) /\ IsInjective(s) /\ ToSet(s) \subseteq Node
    BY <2>1, FamilyFacts
  <2>3. PICK X : X = Element
    OBVIOUS
  <2>4. s \in Seq(X)
    BY <2>2, <2>3
  <2>5. /\ Keeping(s, Node \ Q) \in Seq(X) /\ ToSet(Keeping(s, Node \ Q)) = ToSet(s) \cap (Node \ Q)
        /\ IsInjective(s) => IsInjective(Keeping(s, Node \ Q))
    BY ONLY <2>4, KeepingFacts
  <2>. QED
    BY ONLY <2>1, <2>2, <2>3, <2>5
<1>3. PICK t : t = Without(k, Q)
  OBVIOUS
<1>4. \A m \in Node : t[m] = Keeping(k[m], Node \ Q)
  BY ONLY <1>1, <1>3
<1>5. t \in [Node -> Seq(Element)]
  BY ONLY <1>1, <1>2, <1>3
<1>6. \A a, b \in Node : a # b => ToSet(t[a]) \cap ToSet(t[b]) = {}
  <2>1. \A a, b \in Node : a # b => ToSet(k[a]) \cap ToSet(k[b]) = {}
    BY DEF Family
  <2>. QED
    BY ONLY <1>2, <1>4, <2>1
<1>. QED
  BY ONLY <1>2, <1>3, <1>4, <1>5, <1>6 DEF Family, Trees

\* The list of p with xs put in it.
PutsIn(k, p, ref, xs, k2) ==
  /\ Family(k) /\ p \in Node /\ (ref = Null \/ ref \in ToSet(k[p]))
  /\ xs \in Seq(Element) /\ IsInjective(xs) /\ \A m \in Node : ToSet(xs) \cap ToSet(k[m]) = {}
  /\ k2 = [k EXCEPT ![p] = PutBefore(@, ref, xs)]

\* What its nodes hold then.
Holds(k, p, xs, k2) ==
  Family(k2) /\ \A m \in Node : ToSet(k2[m]) = IF m = p THEN ToSet(k[p]) \cup ToSet(xs) ELSE ToSet(k[m])

\* Putting elements that no list holds into a list.
LEMMA PutFacts ==
  ASSUME NEW k, NEW p, NEW ref, NEW xs, NEW k2, PutsIn(k, p, ref, xs, k2)
  PROVE  Holds(k, p, xs, k2)
<1>0. /\ Family(k) /\ p \in Node /\ (ref = Null \/ ref \in ToSet(k[p]))
      /\ xs \in Seq(Element) /\ IsInjective(xs) /\ \A m \in Node : ToSet(xs) \cap ToSet(k[m]) = {}
      /\ k2 = [k EXCEPT ![p] = PutBefore(@, ref, xs)]
  BY DEF PutsIn
<1>1. PICK s : s = k[p]
  OBVIOUS
<1>2. PICK r : r = PutBefore(s, ref, xs)
  OBVIOUS
<1>3. s \in Seq(Element) /\ IsInjective(s)
  BY ONLY <1>0, <1>1, FamilyFacts
<1>4. r \in Seq(Element) /\ ToSet(r) = ToSet(s) \cup ToSet(xs) /\ IsInjective(r)
  <2>1. PICK X : X = Element
    OBVIOUS
  <2>2. /\ PutBefore(s, ref, xs) \in Seq(X) /\ ToSet(PutBefore(s, ref, xs)) = ToSet(s) \cup ToSet(xs)
        /\ IsInjective(s) /\ IsInjective(xs) /\ ToSet(s) \cap ToSet(xs) = {}
           => IsInjective(PutBefore(s, ref, xs))
    BY ONLY <1>0, <1>1, <1>3, <2>1, PutBeforeFacts
  <2>. QED
    BY ONLY <1>0, <1>1, <1>2, <1>3, <2>1, <2>2
<1>5. k = [m \in Node |-> k[m]] /\ \A m \in Node : k[m] \in Seq(Element) /\ IsInjective(k[m])
  BY <1>0 DEF Family, Trees
<1>6. k2 = [m \in Node |-> IF m = p THEN r ELSE k[m]]
  BY ONLY <1>0, <1>1, <1>2, <1>5
<1>7. k2 \in [Node -> Seq(Element)] /\ \A m \in Node : IsInjective(k2[m])
  BY ONLY <1>4, <1>5, <1>6
<1>8. \A m \in Node : ToSet(k2[m]) = IF m = p THEN ToSet(s) \cup ToSet(xs) ELSE ToSet(k[m])
  BY ONLY <1>4, <1>6
<1>9. \A a, b \in Node : a # b => ToSet(k2[a]) \cap ToSet(k2[b]) = {}
  <2>1. \A a, b \in Node : a # b => ToSet(k[a]) \cap ToSet(k[b]) = {}
    BY <1>0 DEF Family
  <2>. SUFFICES ASSUME NEW a \in Node, NEW b \in Node, a # b PROVE ToSet(k2[a]) \cap ToSet(k2[b]) = {}
    OBVIOUS
  <2>2. ToSet(k2[a]) = IF a = p THEN ToSet(s) \cup ToSet(xs) ELSE ToSet(k[a])
    BY ONLY <1>8, a \in Node
  <2>3. ToSet(k2[b]) = IF b = p THEN ToSet(s) \cup ToSet(xs) ELSE ToSet(k[b])
    BY ONLY <1>8, b \in Node
  <2>4. ToSet(k[a]) \cap ToSet(k[b]) = {} /\ ToSet(xs) \cap ToSet(k[a]) = {} /\ ToSet(xs) \cap ToSet(k[b]) = {}
    BY ONLY <1>0, <2>1, a \in Node, b \in Node, a # b
  <2>. QED
    BY ONLY <1>1, <2>2, <2>3, <2>4, a # b
<1>. QED
  BY ONLY <1>1, <1>7, <1>8, <1>9 DEF Family, Trees, Holds

-----------------------------------------------------------------------------
(***************************************************************************)
(* Logs put together.                                                      *)
(***************************************************************************)
LogOf == Seq(Entries(Trees))

\* The records of one log after another.
LEMMA RecsConcat ==
  ASSUME NEW K, NEW a \in Seq(Entries(K)), NEW b \in Seq(Entries(K))
  PROVE  Recs(a \o b) = Recs(a) \o Recs(b) /\ Recs(a) \in Seq(MutationRecord) /\ Recs(b) \in Seq(MutationRecord)
<1>. PICK E : E = Entries(K)
  OBVIOUS
<1>. PICK R : R = MutationRecord
  OBVIOUS
<1>1. ASSUME NEW q \in Seq(E), NEW e \in E
      PROVE  /\ Recs(q) \in Seq(R) /\ Recs(<<>>) = <<>> /\ e.record \in R /\ Append(q, e) \in Seq(E)
             /\ Recs(Append(q, e)) = Append(Recs(q), e.record)
  BY RecsFacts
<1>2. ASSUME NEW q \in Seq(E) PROVE Recs(q) \in Seq(R)
  <2>1. CASE E = {}
    <3>1. q = <<>>
      BY <2>1
    <3>2. Recs(<<>>) = <<>>
      BY DEF Recs
    <3>3. <<>> \in Seq(R)
      BY ONLY TRUE
    <3>4. Recs(q) = <<>>
      BY ONLY <3>1, <3>2
    <3>. QED
      BY ONLY <3>3, <3>4
  <2>2. CASE E # {}
    BY <1>1, <2>2
  <2>. QED
    BY <2>1, <2>2
<1>0. a \in Seq(E) /\ b \in Seq(E)
  OBVIOUS
<1>. DEFINE T == {q \in Seq(E) : Recs(a \o q) = Recs(a) \o Recs(q)}
<1>3. <<>> \in T
  <2>1. Recs(<<>>) = <<>>
    BY DEF Recs
  <2>2. a \o <<>> = a /\ Recs(a) \o <<>> = Recs(a) /\ <<>> \in Seq(E)
    BY <1>2
  <2>. QED
    BY <2>1, <2>2
<1>4. ASSUME NEW q \in T, NEW e \in E PROVE Append(q, e) \in T
  <2>0. q \in Seq(E) /\ Recs(a \o q) = Recs(a) \o Recs(q)
    OBVIOUS
  <2>a. PICK aq : aq = a \o q
    OBVIOUS
  <2>1. aq \in Seq(E) /\ aq = a \o q
    BY ONLY <1>0, <2>0, <2>a
  <2>2. a \o Append(q, e) = Append(aq, e)
    BY ONLY <1>0, <2>0, <2>1, e \in E
  <2>3. PICK r \in R : r = e.record
    BY <1>1, <2>0
  <2>4. Append(q, e) \in Seq(E) /\ Recs(Append(aq, e)) = Append(Recs(aq), r) /\ Recs(Append(q, e)) = Append(Recs(q), r)
    BY ONLY <1>1, <2>0, <2>1, <2>3, e \in E
  <2>5. Recs(a) \o Append(Recs(q), r) = Append(Recs(a) \o Recs(q), r)
    <3>1. Recs(a) \in Seq(R) /\ Recs(q) \in Seq(R)
      BY <1>2, <2>0
    <3>. QED
      BY ONLY <3>1, r \in R
  <2>. QED
    BY ONLY <2>0, <2>1, <2>2, <2>4, <2>5
<1>5. T \in SUBSET Seq(E)
  OBVIOUS
<1>. HIDE DEF T
<1>6. T = Seq(E)
  BY <1>3, <1>4, <1>5, AppendInduction
<1>. QED
  BY <1>2, <1>6 DEF T

\* The records that InTree puts in a log.
LEMMA InTreeFacts ==
  ASSUME NEW K, NEW k \in K, NEW rs \in Seq(MutationRecord)
  PROVE  InTree(k, rs) \in Seq(Entries(K)) /\ Recs(InTree(k, rs)) = rs
<1>. PICK E : E = Entries(K)
  OBVIOUS
<1>1. PICK R : R = MutationRecord
  OBVIOUS
<1>2. PICK n \in Nat : n = Len(rs) /\ DOMAIN rs = 1 .. n /\ rs = [i \in 1 .. n |-> rs[i]] /\ \A i \in 1 .. n : rs[i] \in R
  <2>1. rs \in Seq(R)
    BY <1>1
  <2>. QED
    BY ONLY <2>1
<1>3. PICK q : q = InTree(k, rs)
  OBVIOUS
<1>4. q = [i \in 1 .. n |-> [kids |-> k, record |-> rs[i]]]
  BY ONLY <1>2, <1>3 DEF InTree
<1>5. \A r \in R : [kids |-> k, record |-> r] \in E
  BY <1>1 DEF Entries
<1>6. q \in Seq(E)
  <2>1. \A i \in 1 .. n : [kids |-> k, record |-> rs[i]] \in E
    BY ONLY <1>2, <1>5
  <2>2. q \in [1 .. n -> E]
    BY ONLY <1>4, <2>1
  <2>. QED
    BY ONLY <1>2, <2>2
<1>7. Recs(q) = [i \in 1 .. n |-> rs[i]]
  BY ONLY <1>2, <1>4 DEF Recs
<1>. QED
  BY <1>2, <1>3, <1>6, <1>7

-----------------------------------------------------------------------------
(***************************************************************************)
(* A mutation in progress, begun in the tree k0: its records so far tell   *)
(* the children of every node.                                             *)
(***************************************************************************)
Tells(k0, s) ==
  /\ s = [kids |-> s.kids, log |-> s.log]
  /\ Family(s.kids) /\ s.log \in LogOf
  /\ \A m \in Node : Tale(ToSet(k0[m]), About(Recs(s.log), m), ToSet(s.kids[m]))

\* What a mutation's first records are followed by.
LEMMA TellsMore ==
  ASSUME NEW k0, NEW s, Tells(k0, s), NEW more \in LogOf, NEW k2, Family(k2),
         \A m \in Node : Tale(ToSet(s.kids[m]), About(Recs(more), m), ToSet(k2[m])),
         NEW s2, s2 = [kids |-> k2, log |-> s.log \o more]
  PROVE  Tells(k0, s2)
<1>1. s.log \in Seq(Entries(Trees)) /\ more \in Seq(Entries(Trees))
  BY DEF Tells, LogOf
<1>2. Recs(s.log \o more) = Recs(s.log) \o Recs(more) /\ Recs(s.log) \in Seq(MutationRecord) /\ Recs(more) \in Seq(MutationRecord)
  BY ONLY <1>1, RecsConcat
<1>3. ASSUME NEW m \in Node PROVE Tale(ToSet(k0[m]), About(Recs(s.log \o more), m), ToSet(k2[m]))
  <2>1. PICK a : a = About(Recs(s.log), m)
    OBVIOUS
  <2>2. PICK b : b = About(Recs(more), m)
    OBVIOUS
  <2>0. /\ a \in Seq(MutationRecord) /\ b \in Seq(MutationRecord)
        /\ About(Recs(s.log) \o Recs(more), m) = a \o b
    BY ONLY <1>2, <2>1, <2>2, AboutConcat
  <2>3. About(Recs(s.log \o more), m) = a \o b
    BY ONLY <1>2, <2>0
  <2>4. Tale(ToSet(k0[m]), a, ToSet(s.kids[m])) /\ Tale(ToSet(s.kids[m]), b, ToSet(k2[m]))
    BY ONLY Tells(k0, s), <1>3, <2>1, <2>2,
         \A x \in Node : Tale(ToSet(s.kids[x]), About(Recs(more), x), ToSet(k2[x])) DEF Tells
  <2>5. PICK R : R = MutationRecord
    OBVIOUS
  <2>6. a \in Seq(R) /\ b \in Seq(R)
    BY ONLY <2>0, <2>5
  <2>. QED
    BY ONLY <2>3, <2>4, <2>6, TaleConcat
<1>4. s.log \o more \in LogOf
  <2>1. PICK E : E = Entries(Trees)
    OBVIOUS
  <2>2. s.log \o more \in Seq(E)
    BY ONLY <1>1, <2>1
  <2>. QED
    BY <2>1, <2>2 DEF LogOf
<1>5. s2.kids = k2 /\ s2.log = s.log \o more /\ s2 = [kids |-> s2.kids, log |-> s2.log]
  BY ONLY s2 = [kids |-> k2, log |-> s.log \o more]
<1>. QED
  BY ONLY <1>3, <1>4, <1>5, Family(k2) DEF Tells

\* A mutation that has not done anything.
LEMMA TellsNothing ==
  ASSUME NEW k0, Family(k0) PROVE Tells(k0, [kids |-> k0, log |-> <<>>])
<1>1. Recs(<<>>) = <<>>
  BY DEF Recs
<1>2. \A m : About(<<>>, m) = <<>>
  BY ONLY Zenon, KeepingEmpty DEF About
<1>3. <<>> \in LogOf
  BY DEF LogOf
<1>4. \A m \in Node : Tale(ToSet(k0[m]), About(Recs(<<>>), m), ToSet(k0[m]))
  BY ONLY <1>1, <1>2, TaleNone
<1>5. PICK s : s = [kids |-> k0, log |-> <<>>]
  OBVIOUS
<1>6. s.kids = k0 /\ s.log = <<>> /\ s = [kids |-> s.kids, log |-> s.log]
  BY ONLY <1>5
<1>. QED
  BY ONLY <1>3, <1>4, <1>5, <1>6, Family(k0) DEF Tells

\* One record more of what happens to one node.
Told(m, v, r, w) ==
  IF r.type = "childList" /\ r.target = m THEN SiblingsIn(v, r) /\ w = After(v, r) ELSE w = v

\* What one record tells is a tale.
LEMMA ToldTale ==
  ASSUME NEW r \in MutationRecord, NEW m, NEW v, NEW w, Told(m, v, r, w)
  PROVE  <<r>> \in Seq(MutationRecord) /\ Tale(v, About(<<r>>, m), w)
<1>. PICK R : R = MutationRecord
  OBVIOUS
<1>1. <<>> \in Seq(R) /\ Append(<<>>, r) = <<r>> /\ <<r>> \in Seq(R)
  OBVIOUS
<1>2. PICK e : e = <<>>
  OBVIOUS
<1>3. e \in Seq(MutationRecord)
  BY <1>1, <1>2
<1>4. /\ About(<<>>, m) = <<>>
      /\ About(Append(e, r), m) = IF r.type = "childList" /\ r.target = m THEN Append(About(e, m), r) ELSE About(e, m)
  BY ONLY <1>3, r \in MutationRecord, AboutAppend
<1>5. About(<<r>>, m) = IF r.type = "childList" /\ r.target = m THEN Append(<<>>, r) ELSE <<>>
  BY ONLY <1>1, <1>2, <1>4
<1>6. Tale(v, <<>>, v)
  BY TaleNone
<1>7. SiblingsIn(v, r) => Tale(v, Append(<<>>, r), After(v, r))
  BY ONLY <1>1, <1>6, r \in R, R = MutationRecord, TaleAppend
<1>. QED
  BY <1>1, <1>5, <1>6, <1>7 DEF Told

\* A mutation followed by one more record, and what that record tells.
LEMMA TellsOne ==
  ASSUME NEW k0, NEW s, Tells(k0, s), NEW r \in MutationRecord, NEW k2, Family(k2),
         \A m \in Node : Told(m, ToSet(s.kids[m]), r, ToSet(k2[m])),
         NEW s2, s2 = [Log(s, r) EXCEPT !.kids = k2]
  PROVE  Tells(k0, s2)
<1>1. PICK e : e = [kids |-> s.kids, record |-> r]
  OBVIOUS
<1>2. PICK E : E = Entries(Trees)
  OBVIOUS
<1>3. e \in E /\ e.record = r
  BY <1>1, <1>2 DEF Tells, Family, Entries
<1>4. PICK l : l = s.log
  OBVIOUS
<1>5. l \in Seq(E) /\ s = [kids |-> s.kids, log |-> l]
  BY <1>2, <1>4 DEF Tells, LogOf
<1>6. Append(l, e) = l \o <<e>> /\ <<e>> \in Seq(E)
  BY ONLY <1>3, <1>5
<1>7. s2 = [kids |-> k2, log |-> l \o <<e>>]
  <2>1. PICK l2 : l2 = Append(l, e)
    OBVIOUS
  <2>2. PICK k : k = s.kids
    OBVIOUS
  <2>3. Log(s, r) = [s EXCEPT !.log = l2]
    BY ONLY <1>1, <1>4, <2>1, Zenon DEF Log
  <2>4. s = [kids |-> k, log |-> l]
    BY ONLY <1>5, <2>2
  <2>5. Log(s, r) = [kids |-> k, log |-> l2]
    BY ONLY <2>3, <2>4
  <2>6. s2 = [kids |-> k2, log |-> l2]
    BY ONLY <2>5, s2 = [Log(s, r) EXCEPT !.kids = k2]
  <2>. QED
    BY ONLY <1>6, <2>1, <2>6
<1>8. Recs(<<e>>) = <<r>>
  <2>1. <<e>> = [i \in 1 .. 1 |-> e]
    OBVIOUS
  <2>2. Recs(<<e>>) = [i \in 1 .. 1 |-> r]
    BY ONLY <1>3, <2>1 DEF Recs
  <2>3. <<r>> = [i \in 1 .. 1 |-> r]
    OBVIOUS
  <2>. QED
    BY <2>2, <2>3
<1>9. \A m \in Node : Tale(ToSet(s.kids[m]), About(Recs(<<e>>), m), ToSet(k2[m]))
  BY <1>8, ToldTale
<1>10. <<e>> \in LogOf
  BY <1>2, <1>6 DEF LogOf
<1>. QED
  BY ONLY Tells(k0, s), Family(k2), <1>4, <1>7, <1>9, <1>10, TellsMore

-----------------------------------------------------------------------------
(***************************************************************************)
(* detach, one node after another.                                         *)
(***************************************************************************)
LEMMA RecordTyped ==
  ASSUME NEW target \in Node, NEW n \in Node, NEW pv \in Links, NEW nx \in Links
  PROVE  /\ ChildListRemoved(target, n, pv, nx) \in MutationRecord
         /\ ChildListAdded(target, n) \in MutationRecord
         /\ AttributeRecord(target) \in MutationRecord
BY DEF ChildListRemoved, ChildListAdded, AttributeRecord, MutationRecord, RecordType, Links

\* A removal, told of the children v.
LEMMA RemovedTold ==
  ASSUME NEW p \in Node, NEW v \in SUBSET Node, NEW x \in v, NEW pv, NEW nx,
         pv # Null => pv \in v \ {x}, nx # Null => nx \in v \ {x}, pv = nx => pv = Null,
         NEW r, r = ChildListRemoved(p, x, pv, nx)
  PROVE  r \in MutationRecord /\ r.target = p /\ Told(p, v, r, v \ {x})
<1>1. Null \notin v
  BY MutationObserversAssumption
<1>2. r \in MutationRecord
  <2>1. x \in Node /\ pv \in Links /\ nx \in Links
    BY DEF Links
  <2>. QED
    BY <2>1, RecordTyped
<1>3. r.type = "childList" /\ r.target = p /\ r.added = Null /\ r.removed = x /\ r.previousSibling = pv /\ r.nextSibling = nx
  BY DEF ChildListRemoved
<1>4. SiblingsIn(v, r)
  BY <1>3 DEF SiblingsIn
<1>5. After(v, r) = v \ {x}
  BY <1>3 DEF After
<1>. QED
  BY <1>2, <1>3, <1>4, <1>5 DEF Told

\* Detaching takes x from where it is, and says so.
LEMMA DetachedFacts ==
  ASSUME NEW k0, NEW s, Tells(k0, s), NEW x
  PROVE  /\ Tells(k0, Detached(s, x))
         /\ \A m \in Node : ToSet(Detached(s, x).kids[m]) = ToSet(s.kids[m]) \ {x}
<1>1. PICK k : k = s.kids
  OBVIOUS
<1>2. Family(k)
  BY <1>1 DEF Tells
<1>3. PICK p : p = Owner(k, x)
  OBVIOUS
<1>4. CASE p = Null
  <2>1. Detached(s, x) = s
    BY <1>1, <1>3, <1>4, Zenon DEF Detached
  <2>2. \A m \in Node : x \notin ToSet(k[m])
    BY <1>2, <1>3, <1>4, OwnerFacts, MutationObserversAssumption
  <2>. QED
    BY <1>1, <2>1, <2>2
<1>5. CASE p # Null
  <2>1. p \in Node /\ x \in ToSet(k[p]) /\ \A m \in Node : x \in ToSet(k[m]) <=> p = m
    BY <1>2, <1>3, <1>5, OwnerFacts
  <2>2. PICK pv : pv = PreviousSibling(k, x)
    OBVIOUS
  <2>3. PICK nx : nx = NextSibling(k, x)
    OBVIOUS
  <2>4. (pv # Null => pv \in ToSet(k[p]) \ {x}) /\ (nx # Null => nx \in ToSet(k[p]) \ {x}) /\ (pv = nx => pv = Null)
    BY <1>2, <2>1, <2>2, <2>3, SiblingFacts
  <2>5. PICK r : r = ChildListRemoved(p, x, pv, nx)
    OBVIOUS
  <2>6. r \in MutationRecord /\ Told(p, ToSet(k[p]), r, ToSet(k[p]) \ {x})
    <3>1. ToSet(k[p]) \in SUBSET Node
      BY <1>2, <2>1, FamilyFacts
    <3>. QED
      BY ONLY <2>1, <2>4, <2>5, <3>1, RemovedTold
  <2>7. PICK k2 : k2 = Without(k, {x})
    OBVIOUS
  <2>8. Family(k2) /\ \A m \in Node : ToSet(k2[m]) = ToSet(k[m]) \ {x}
    BY <1>2, <2>7, WithoutFacts
  <2>9. \A m \in Node : Told(m, ToSet(k[m]), r, ToSet(k2[m]))
    <3>. TAKE m \in Node
    <3>1. CASE m = p
      BY <2>6, <2>8, <3>1
    <3>2. CASE m # p
      <4>1. r.target = p
        BY <2>5 DEF ChildListRemoved
      <4>. QED
        BY <2>1, <2>8, <3>2, <4>1 DEF Told
    <3>. QED
      BY <3>1, <3>2
  <2>10. PICK d : d = Detached(s, x)
    OBVIOUS
  <2>11. d = [Log(s, r) EXCEPT !.kids = Without(@, {x})]
    BY ONLY <1>1, <1>3, <1>5, <2>2, <2>3, <2>5, <2>10, Zenon DEF Detached
  <2>12. d = [Log(s, r) EXCEPT !.kids = k2] /\ d.kids = k2
    <3>1. PICK l2 : l2 = Append(s.log, [kids |-> k, record |-> r])
      OBVIOUS
    <3>2. Log(s, r) = [s EXCEPT !.log = l2]
      BY ONLY <1>1, <3>1, Zenon DEF Log
    <3>3. PICK l : l = s.log
      OBVIOUS
    <3>4. s = [kids |-> k, log |-> l]
      BY <1>1, <3>3 DEF Tells
    <3>5. Log(s, r) = [kids |-> k, log |-> l2]
      BY ONLY <3>2, <3>4
    <3>6. d = [kids |-> Without(k, {x}), log |-> l2]
      BY ONLY <2>11, <3>5
    <3>7. [Log(s, r) EXCEPT !.kids = k2] = [kids |-> k2, log |-> l2]
      BY ONLY <3>5
    <3>. QED
      BY ONLY <2>7, <3>6, <3>7
  <2>13. Tells(k0, d)
    BY ONLY Tells(k0, s), <1>1, <2>6, <2>8, <2>9, <2>12, TellsOne
  <2>. QED
    BY ONLY <1>1, <2>8, <2>10, <2>12, <2>13
<1>. QED
  BY <1>4, <1>5

DetachStep(s, xs, f, i) == IF i = 0 THEN s ELSE Detached(f[i - 1], xs[i])

IsDetached(s, xs, len, f) == f = [i \in 0 .. len |-> DetachStep(s, xs, f, i)]

\* The recursive function that DetachedAll names exists.
LEMMA DetachedExists ==
  ASSUME NEW s, NEW xs, NEW len \in Nat
  PROVE  \E f : IsDetached(s, xs, len, f)
<1>. DEFINE T == {j \in Nat : \E f : IsDetached(s, xs, j, f)}
<1>1. 0 \in T
  <2>. DEFINE f == [k \in 0 .. 0 |-> s]
  <2>1. \A k \in 0 .. 0 : DetachStep(s, xs, f, k) = s
    BY DEF DetachStep
  <2>2. f = [k \in 0 .. 0 |-> DetachStep(s, xs, f, k)]
    BY <2>1, Zenon
  <2>3. IsDetached(s, xs, 0, f)
    BY <2>2, Zenon DEF IsDetached
  <2>. QED
    BY <2>3
<1>2. ASSUME NEW j \in T PROVE j + 1 \in T
  <2>1. PICK f : IsDetached(s, xs, j, f)
    OBVIOUS
  <2>. DEFINE g == [k \in 0 .. j + 1 |-> DetachStep(s, xs, f, k)]
  <2>2. \A k \in 0 .. j : g[k] = f[k]
    BY <2>1 DEF IsDetached
  <2>3. \A k \in 0 .. j + 1 : k # 0 => k - 1 \in 0 .. j
    OBVIOUS
  <2>4. \A k \in 0 .. j + 1 : DetachStep(s, xs, f, k) = DetachStep(s, xs, g, k)
    BY <2>2, <2>3 DEF DetachStep
  <2>5. g = [k \in 0 .. j + 1 |-> DetachStep(s, xs, g, k)]
    BY <2>4, Zenon
  <2>6. IsDetached(s, xs, j + 1, g)
    BY <2>5, Zenon DEF IsDetached
  <2>. QED
    BY <2>6
<1>3. T = Nat
  BY <1>1, <1>2, SetInduction
<1>. QED
  BY <1>3

\* The mutation u is s with those of E taken out, and says so.
OutOf(k0, s, E, u) ==
  Tells(k0, u) /\ \A m \in Node : ToSet(u.kids[m]) = ToSet(s.kids[m]) \ E

\* Detaching takes all of xs from where they are, and says so.
LEMMA DetachedAllFacts ==
  ASSUME NEW k0, NEW s, Tells(k0, s), NEW X, NEW xs \in Seq(X)
  PROVE  OutOf(k0, s, ToSet(xs), DetachedAll(s, xs))
<1>. DEFINE f == CHOOSE f : IsDetached(s, xs, Len(xs), f)
<1>1. PICK n \in Nat : n = Len(xs) /\ DOMAIN xs = 1 .. n
  OBVIOUS
<1>2. IsDetached(s, xs, n, f)
  <2>1. \E g : IsDetached(s, xs, n, g)
    BY DetachedExists
  <2>. QED
    BY <1>1, <2>1, Zenon
<1>3. DetachedAll(s, xs) = f[n]
  BY <1>1, Zenon DEF DetachedAll, IsDetached, DetachStep
<1>. HIDE DEF f
<1>4. \A i \in 0 .. n : f[i] = DetachStep(s, xs, f, i)
  BY <1>2, Zenon DEF IsDetached
<1>. DEFINE First(i) == {xs[j] : j \in 1 .. i}
            T == {i \in Nat : i <= n => OutOf(k0, s, First(i), f[i])}
<1>5. 0 \in T
  <2>1. 0 \in 0 .. n /\ First(0) = {}
    OBVIOUS
  <2>2. f[0] = s
    BY ONLY <1>4, <2>1 DEF DetachStep
  <2>3. OutOf(k0, s, First(0), f[0])
    BY ONLY <2>1, <2>2, Tells(k0, s) DEF OutOf
  <2>. QED
    BY <2>3
<1>6. ASSUME NEW i \in T PROVE i + 1 \in T
  <2>. SUFFICES ASSUME i + 1 <= n PROVE OutOf(k0, s, First(i + 1), f[i + 1])
    OBVIOUS
  <2>1. i \in Nat /\ i + 1 \in 0 .. n /\ i + 1 # 0 /\ (i + 1) - 1 = i /\ i <= n
    OBVIOUS
  <2>2. OutOf(k0, s, First(i), f[i])
    BY <2>1
  <2>3. PICK u : u = f[i]
    OBVIOUS
  <2>4. PICK x : x = xs[i + 1]
    OBVIOUS
  <2>5. f[i + 1] = Detached(u, x)
    BY ONLY <1>4, <2>1, <2>3, <2>4 DEF DetachStep
  <2>6. First(i + 1) = First(i) \cup {x}
    <3>1. 1 .. i + 1 = (1 .. i) \cup {i + 1}
      BY <2>1
    <3>. QED
      BY ONLY <2>4, <3>1
  <2>. PICK E : E = First(i)
    OBVIOUS
  <2>. HIDE DEF First, T
  <2>7. /\ Tells(k0, Detached(u, x)) /\ \A m \in Node : ToSet(Detached(u, x).kids[m]) = ToSet(u.kids[m]) \ {x}
    BY <2>2, <2>3, DetachedFacts DEF OutOf
  <2>8. \A m \in Node : ToSet(u.kids[m]) = ToSet(s.kids[m]) \ E
    BY <2>2, <2>3 DEF OutOf
  <2>9. OutOf(k0, s, E \cup {x}, Detached(u, x))
    BY ONLY <2>7, <2>8 DEF OutOf
  <2>. QED
    BY <2>5, <2>6, <2>9
<1>7. T = Nat
  <2>. HIDE DEF T
  <2>1. T \in SUBSET Nat
    BY DEF T
  <2>. QED
    BY <1>5, <1>6, <2>1, SetInduction
<1>8. OutOf(k0, s, First(n), f[n])
  <2>1. n <= n
    OBVIOUS
  <2>2. n \in {i \in Nat : i <= n => OutOf(k0, s, First(i), f[i])}
    BY <1>7
  <2>. QED
    BY <2>1, <2>2
<1>9. First(n) = ToSet(xs)
  BY <1>1 DEF ToSet
<1>. QED
  BY <1>3, <1>8, <1>9

-----------------------------------------------------------------------------
(***************************************************************************)
(* Linking: one record for each node that is put in.                       *)
(***************************************************************************)
Image(s, f) == [i \in DOMAIN s |-> f[s[i]]]

\* The elements of an image.
LEMMA ImageFacts ==
  ASSUME NEW X, NEW Y, NEW f \in [X -> Y], NEW s \in Seq(X)
  PROVE  /\ Image(s, f) \in Seq(Y) /\ Image(<<>>, f) = <<>>
         /\ \A e \in X : Image(Append(s, e), f) = Append(Image(s, f), f[e])
<1>1. PICK n \in Nat : n = Len(s) /\ DOMAIN s = 1 .. n /\ \A i \in 1 .. n : s[i] \in X
  OBVIOUS
<1>2. Image(s, f) = [i \in 1 .. n |-> f[s[i]]]
  BY ONLY <1>1 DEF Image
<1>3. Image(s, f) \in Seq(Y) /\ Len(Image(s, f)) = n /\ \A i \in 1 .. n : Image(s, f)[i] = f[s[i]]
  BY ONLY <1>1, <1>2, f \in [X -> Y]
<1>4. ASSUME NEW e \in X PROVE Image(Append(s, e), f) = Append(Image(s, f), f[e])
  <2>1. PICK q : q = Append(s, e)
    OBVIOUS
  <2>2. q \in Seq(X) /\ Len(q) = n + 1 /\ q[n + 1] = e /\ (\A i \in 1 .. n : q[i] = s[i])
    BY <1>1, <2>1, AppendEntries
  <2>3. DOMAIN q = 1 .. n + 1
    BY <2>2
  <2>4. PICK u : u = Image(q, f)
    OBVIOUS
  <2>5. u = [i \in 1 .. n + 1 |-> f[q[i]]]
    BY ONLY <2>3, <2>4 DEF Image
  <2>6. PICK w : w = Append(Image(s, f), f[e])
    OBVIOUS
  <2>7. f[e] \in Y
    OBVIOUS
  <2>8. w \in Seq(Y) /\ Len(w) = n + 1 /\ w[n + 1] = f[e] /\ \A i \in 1 .. n : w[i] = f[s[i]]
    BY <1>3, <2>6, <2>7, AppendEntries
  <2>9. n + 1 \in Nat /\ (\A i \in 1 .. n + 1 : i \in 1 .. n \/ i = n + 1) /\ \A i \in 1 .. n + 1 : q[i] \in X
    BY <2>2
  <2>10. u \in Seq(Y) /\ Len(u) = n + 1 /\ \A i \in 1 .. n + 1 : u[i] = f[q[i]]
    <3>1. u \in [1 .. n + 1 -> Y]
      BY ONLY <2>5, <2>9, f \in [X -> Y]
    <3>. QED
      BY ONLY <2>5, <2>9, <3>1
  <2>11. \A i \in 1 .. n + 1 : u[i] = w[i]
    BY ONLY <2>2, <2>8, <2>9, <2>10
  <2>. QED
    BY ONLY <2>1, <2>4, <2>6, <2>8, <2>10, <2>11, ListsEqual
<1>5. Image(<<>>, f) = <<>>
  BY DEF Image
<1>. QED
  BY <1>3, <1>4, <1>5

Additions(p, xs) == [i \in DOMAIN xs |-> ChildListAdded(p, xs[i])]

\* A list that holds the nodes of v comes to hold those of S, if it is the one of p.
Grown(m, p, v, S) == IF m = p THEN v \cup S ELSE v

\* The records of an addition tell it, and nothing else.
LEMMA AdditionsTell ==
  ASSUME NEW p \in Node, NEW xs \in Seq(Element)
  PROVE  /\ Additions(p, xs) \in Seq(MutationRecord)
         /\ \A m, v : Null \notin v => Tale(v, About(Additions(p, xs), m), Grown(m, p, v, ToSet(xs)))
<1>. PICK X : X = Element
  OBVIOUS
<1>. PICK R : R = MutationRecord
  OBVIOUS
<1>0. X \subseteq Node /\ Null \notin X
  BY MutationObserversAssumption DEF Element
<1>. DEFINE f == [x \in X |-> ChildListAdded(p, x)]
            Tell(q) == /\ Additions(p, q) \in Seq(R)
                       /\ \A m, v : Null \notin v => Tale(v, About(Additions(p, q), m), Grown(m, p, v, ToSet(q)))
            T == {q \in Seq(X) : Tell(q)}
<1>1. f \in [X -> R] /\ \A x \in X : f[x] = ChildListAdded(p, x)
  <2>1. \A x \in X : ChildListAdded(p, x) \in R
    BY <1>0, RecordTyped DEF Links
  <2>. QED
    BY <2>1
<1>2. \A q \in Seq(X) : Additions(p, q) = Image(q, f)
  <2>. SUFFICES ASSUME NEW q \in Seq(X) PROVE Additions(p, q) = Image(q, f)
    OBVIOUS
  <2>1. \A i \in DOMAIN q : ChildListAdded(p, q[i]) = f[q[i]]
    OBVIOUS
  <2>. QED
    BY ONLY <2>1, Zenon DEF Additions, Image
<1>. HIDE DEF f
<1>3. ASSUME NEW q \in Seq(X), NEW e \in X
      PROVE  /\ Additions(p, q) \in Seq(R) /\ Append(q, e) \in Seq(X)
             /\ Additions(p, Append(q, e)) = Append(Additions(p, q), ChildListAdded(p, e))
  <2>1. Image(q, f) \in Seq(R) /\ Image(Append(q, e), f) = Append(Image(q, f), f[e])
    <3>1. f \in [X -> R]
      BY ONLY <1>1
    <3>2. Image(q, f) \in Seq(R) /\ \A x \in X : Image(Append(q, x), f) = Append(Image(q, f), f[x])
      BY ONLY <3>1, q \in Seq(X), ImageFacts
    <3>. QED
      BY ONLY <3>2, e \in X
  <2>2. Append(q, e) \in Seq(X)
    OBVIOUS
  <2>. QED
    BY ONLY <1>1, <1>2, q \in Seq(X), e \in X, <2>1, <2>2
<1>4. <<>> \in T
  <2>1. Additions(p, <<>>) = <<>> /\ ToSet(<<>>) = {} /\ <<>> \in Seq(X) /\ <<>> \in Seq(R)
    BY DEF Additions, ToSet
  <2>2. \A m : About(<<>>, m) = <<>>
    BY ONLY Zenon, KeepingEmpty DEF About
  <2>3. \A m, v : Grown(m, p, v, {}) = v
    BY DEF Grown
  <2>4. Tell(<<>>)
    BY ONLY <2>1, <2>2, <2>3, TaleNone
  <2>. QED
    BY <2>1, <2>4
<1>5. ASSUME NEW q \in T, NEW e \in X PROVE Append(q, e) \in T
  <2>0. q \in Seq(X) /\ Tell(q)
    BY <1>5
  <2>1. PICK rs \in Seq(R) : rs = Additions(p, q)
    BY <2>0
  <2>2. PICK r : r = ChildListAdded(p, e)
    OBVIOUS
  <2>3. r \in R /\ r.type = "childList" /\ r.target = p /\ r.added = e /\ r.removed = Null
    <3>1. e \in Node
      BY <1>0
    <3>2. r \in R
      BY <2>2, <3>1, RecordTyped DEF Links
    <3>. QED
      BY ONLY <2>2, <3>2 DEF ChildListAdded
  <2>4. Append(q, e) \in Seq(X) /\ Additions(p, Append(q, e)) = Append(rs, r) /\ ToSet(Append(q, e)) = ToSet(q) \cup {e}
    BY <1>3, <2>0, <2>1, <2>2, AppendFacts
  <2>5. Append(rs, r) \in Seq(R)
    BY ONLY <2>1, <2>3
  <2>6. ASSUME NEW m, NEW v, Null \notin v
        PROVE  Tale(v, About(Append(rs, r), m), Grown(m, p, v, ToSet(q) \cup {e}))
    <3>1. /\ About(rs, m) \in Seq(R)
          /\ About(Append(rs, r), m) = IF r.type = "childList" /\ r.target = m THEN Append(About(rs, m), r) ELSE About(rs, m)
      BY ONLY R = MutationRecord, <2>1, <2>3, AboutAppend
    <3>2. Tale(v, About(rs, m), Grown(m, p, v, ToSet(q)))
      BY ONLY <2>0, <2>1, <2>6
    <3>3. CASE m # p
      BY ONLY <2>3, <3>1, <3>2, <3>3 DEF Grown
    <3>4. CASE m = p
      <4>1. PICK t : t = v \cup ToSet(q)
        OBVIOUS
      <4>2. SiblingsIn(t, r)
        BY ONLY <2>3 DEF SiblingsIn
      <4>3. After(t, r) = v \cup (ToSet(q) \cup {e})
        <5>1. Null \notin t
          <6>1. \A x \in ToSet(q) : x \in X
            BY ONLY <2>0 DEF ToSet
          <6>. QED
            BY ONLY <1>0, <2>6, <4>1, <6>1
        <5>2. e # Null
          BY <1>0
        <5>. QED
          BY ONLY <2>3, <4>1, <5>1, <5>2 DEF After
      <4>4. PICK us \in Seq(R) : us = About(rs, m)
        BY <3>1
      <4>5. Tale(v, us, t) /\ About(Append(rs, r), m) = Append(us, r)
        BY ONLY <2>3, <3>1, <3>2, <3>4, <4>1, <4>4 DEF Grown
      <4>6. Tale(v, Append(us, r), After(t, r))
        BY ONLY <2>3, <4>2, <4>4, <4>5, TaleAppend
      <4>. QED
        BY ONLY <3>4, <4>3, <4>5, <4>6 DEF Grown
    <3>. QED
      BY <3>3, <3>4
  <2>7. Tell(Append(q, e))
    BY ONLY <2>4, <2>5, <2>6
  <2>. QED
    BY ONLY <2>4, <2>7
<1>6. T \in SUBSET Seq(X)
  OBVIOUS
<1>. HIDE DEF T
<1>7. T = Seq(X)
  BY <1>4, <1>5, <1>6, AppendInduction
<1>. QED
  BY <1>7 DEF T

\* u is s with elements that no list holds linked before ref.
LinksIn(k0, s, p, ref, xs, u) ==
  /\ Tells(k0, s) /\ p \in Node /\ (ref = Null \/ ref \in ToSet(s.kids[p]))
  /\ xs \in Seq(Element) /\ IsInjective(xs) /\ \A m \in Node : ToSet(xs) \cap ToSet(s.kids[m]) = {}
  /\ u = Linked(s, p, xs, ref)

\* It says so.
TellsLinked(k0, s, p, xs, u) ==
  /\ Tells(k0, u)
  /\ \A m \in Node : ToSet(u.kids[m]) = IF m = p THEN ToSet(s.kids[p]) \cup ToSet(xs) ELSE ToSet(s.kids[m])

LEMMA LinkedFacts ==
  ASSUME NEW k0, NEW s, NEW p, NEW ref, NEW xs, NEW u, LinksIn(k0, s, p, ref, xs, u)
  PROVE  TellsLinked(k0, s, p, xs, u)
<1>0. /\ Tells(k0, s) /\ p \in Node /\ (ref = Null \/ ref \in ToSet(s.kids[p]))
      /\ xs \in Seq(Element) /\ IsInjective(xs) /\ \A m \in Node : ToSet(xs) \cap ToSet(s.kids[m]) = {}
      /\ u = Linked(s, p, xs, ref)
  BY Zenon DEF LinksIn
<1>1. PICK k : k = s.kids
  OBVIOUS
<1>2. Family(k)
  BY <1>0, <1>1 DEF Tells
<1>3. PICK k2 : k2 = [k EXCEPT ![p] = PutBefore(@, ref, xs)]
  OBVIOUS
<1>4. PutsIn(k, p, ref, xs, k2)
  BY ONLY <1>0, <1>1, <1>2, <1>3, Zenon DEF PutsIn
<1>5. Family(k2) /\ \A m \in Node : ToSet(k2[m]) = IF m = p THEN ToSet(k[p]) \cup ToSet(xs) ELSE ToSet(k[m])
  <2>1. Holds(k, p, xs, k2)
    BY ONLY <1>4, PutFacts
  <2>. QED
    BY ONLY <2>1 DEF Holds
<1>6. PICK us : us = Additions(p, xs)
  OBVIOUS
<1>7. us \in Seq(MutationRecord) /\ \A m, v : Null \notin v => Tale(v, About(us, m), Grown(m, p, v, ToSet(xs)))
  BY <1>0, <1>6, AdditionsTell
<1>8. PICK more : more = InTree(k2, us)
  OBVIOUS
<1>9. more \in LogOf /\ Recs(more) = us
  <2>1. k2 \in Trees
    BY <1>5 DEF Family
  <2>. QED
    BY ONLY <1>7, <1>8, <2>1, InTreeFacts DEF LogOf
<1>10. \A m \in Node : Tale(ToSet(k[m]), About(Recs(more), m), ToSet(k2[m]))
  <2>. TAKE m \in Node
  <2>1. Null \notin ToSet(k[m])
    BY <1>2, FamilyFacts
  <2>2. Tale(ToSet(k[m]), About(us, m), Grown(m, p, ToSet(k[m]), ToSet(xs)))
    BY <1>7, <2>1
  <2>3. Grown(m, p, ToSet(k[m]), ToSet(xs)) = ToSet(k2[m])
    BY ONLY <1>5, m \in Node DEF Grown
  <2>. QED
    BY ONLY <1>9, <2>2, <2>3
<1>11. u = [kids |-> k2, log |-> s.log \o more]
  BY ONLY <1>0, <1>1, <1>3, <1>6, <1>8, Zenon DEF Linked, Additions
<1>12. Tells(k0, u)
  BY ONLY <1>0, <1>1, <1>5, <1>9, <1>10, <1>11, TellsMore
<1>13. u.kids = k2
  BY ONLY <1>11
<1>. QED
  BY ONLY <1>0, <1>1, <1>5, <1>12, <1>13 DEF TellsLinked

-----------------------------------------------------------------------------
(***************************************************************************)
(* The trees have no cycle, as every set of nodes has a lowest one; and    *)
(* what Inside walks over.                                                 *)
(***************************************************************************)

Sub(k, a) == ToSet(Preorder(k, a))

\* Sub is what DepthFirst reaches.
LEMMA SubIs ==
  ASSUME NEW k \in Trees, Grounded(k)
  PROVE  k \in [Node -> Seq(Node)] /\ Bottomed(Node, k) /\ \A n : Sub(k, n) = Reach(Node, k, n)
<1>1. Bottomed(Node, k)
  BY Zenon DEF Grounded, Bottomed
<1>2. \A n : Preorder(k, n) = DepthFirst(Node, k, n)
  BY Zenon DEF Preorder, DepthFirst
<1>3. \A n : Sub(k, n) = Reach(Node, k, n)
  BY <1>2, Zenon DEF Sub, Reach
<1>4. k \in [Node -> Seq(Node)]
  <2>1. PICK E : E = Element
    OBVIOUS
  <2>2. E \subseteq Node
    BY <2>1 DEF Element
  <2>3. Seq(E) \subseteq Seq(Node)
    BY ONLY <2>2
  <2>4. k \in [Node -> Seq(E)]
    BY <2>1 DEF Trees
  <2>. QED
    BY ONLY <2>3, <2>4
<1>. QED
  BY <1>1, <1>3, <1>4

\* A subtree is its node and the subtrees of the node's children.
LEMMA SubFacts ==
  ASSUME NEW k \in Trees, Grounded(k), NEW a \in Node
  PROVE  /\ Sub(k, a) \subseteq Node /\ a \in Sub(k, a)
         /\ \A n \in Sub(k, a) : ToSet(k[n]) \subseteq Sub(k, a)
         /\ \A x \in Sub(k, a) : x = a \/ \E c \in ToSet(k[a]) : x \in Sub(k, c)
         /\ \A n : Inside(k, a, n) <=> n \in Sub(k, a)
<1>1. k \in [Node -> Seq(Node)] /\ Bottomed(Node, k) /\ \A n : Sub(k, n) = Reach(Node, k, n)
  BY SubIs
<1>2. /\ DepthFirst(Node, k, a) \in Seq(Node) /\ DepthFirst(Node, k, a) # <<>> /\ Head(DepthFirst(Node, k, a)) = a
      /\ Reach(Node, k, a) \subseteq Node /\ a \in Reach(Node, k, a)
      /\ Reach(Node, k, a) = {a} \cup UNION {Reach(Node, k, c) : c \in ToSet(k[a])}
  BY <1>1, ReachUnfolds
<1>3. ClosedIn(Node, k, Reach(Node, k, a))
  BY <1>1, ReachClosed
<1>4. \A n \in Sub(k, a) : ToSet(k[n]) \subseteq Sub(k, a)
  BY <1>1, <1>3 DEF ClosedIn
<1>5. \A x \in Sub(k, a) : x = a \/ \E c \in ToSet(k[a]) : x \in Sub(k, c)
  BY ONLY <1>1, <1>2
<1>6. PICK order : order = Preorder(k, a)
  OBVIOUS
<1>7. order = DepthFirst(Node, k, a)
  BY <1>6, Zenon DEF Preorder, DepthFirst
<1>8. ToSet(order) = {a} \cup ToSet(Tail(order))
  <2>1. order \in Seq(Node) /\ order # <<>> /\ Head(order) = a
    BY <1>2, <1>7
  <2>2. a \in ToSet(order)
    BY <1>2, <1>7 DEF Reach
  <2>. QED
    BY ONLY <2>1, <2>2, TailFacts
<1>9. \A n : Inside(k, a, n) <=> n \in Sub(k, a)
  BY ONLY <1>6, <1>8 DEF Inside, Below, Sub
<1>. QED
  BY ONLY <1>1, <1>2, <1>4, <1>5, <1>9

\* A subtree is within every set that is closed under children.
LEMMA SubLeast ==
  ASSUME NEW k \in Trees, Grounded(k), NEW S \in SUBSET Node, \A n \in S : ToSet(k[n]) \subseteq S, NEW a \in S
  PROVE  Sub(k, a) \subseteq S
<1>1. ClosedIn(Node, k, S)
  BY DEF ClosedIn
<1>. QED
  BY <1>1, SubIs, ReachLeast

\* No node is below one of its children.
LEMMA NoCycle ==
  ASSUME NEW k \in Trees, Grounded(k), NEW a \in Node, NEW c \in ToSet(k[a])
  PROVE  c \in Node /\ a \notin Sub(k, c)
<1>1. c \in Node
  BY SubFacts
<1>. SUFFICES ASSUME a \in Sub(k, c) PROVE FALSE
  BY <1>1
<1>. DEFINE S == {n \in Sub(k, c) : a \in Sub(k, n)}
<1>2. Sub(k, c) \subseteq Node /\ c \in Sub(k, c) /\ \A n \in Sub(k, c) : ToSet(k[n]) \subseteq Sub(k, c)
  BY <1>1, SubFacts
<1>3. S \in SUBSET Node /\ c \in S
  BY <1>2
<1>4. PICK n \in S : ToSet(k[n]) \cap S = {}
  BY <1>3 DEF Grounded
<1>5. CASE n = a
  BY <1>3, <1>4, <1>5
<1>6. CASE n # a
  <2>1. PICK d \in ToSet(k[n]) : a \in Sub(k, d)
    BY <1>3, <1>4, <1>6, SubFacts
  <2>2. d \in S
    BY <1>2, <1>4, <2>1
  <2>. QED
    BY <1>4, <2>1, <2>2
<1>. QED
  BY <1>5, <1>6

\* Where a node is seen from is the same in k and in k2.
Steady(k, k2, t) == \A a \in Node : Inside(k, a, t) <=> Inside(k2, a, t)

\* Nodes are taken out of lists of children.
LEMMA Pruned ==
  ASSUME NEW k \in Trees, Grounded(k), NEW k2 \in Trees, \A m \in Node : ToSet(k2[m]) \subseteq ToSet(k[m])
  PROVE  Grounded(k2) /\ \A a \in Node : Sub(k2, a) \subseteq Sub(k, a)
<1>1. Grounded(k2)
  BY DEF Grounded
<1>2. ASSUME NEW a \in Node PROVE Sub(k2, a) \subseteq Sub(k, a)
  <2>1. Sub(k, a) \in SUBSET Node /\ a \in Sub(k, a) /\ \A n \in Sub(k, a) : ToSet(k2[n]) \subseteq Sub(k, a)
    BY SubFacts
  <2>. QED
    BY <1>1, <2>1, SubLeast
<1>. QED
  BY <1>1, <1>2

\* Who is above p, that is below none of the nodes taken out, still is.
LEMMA PrunedSteady ==
  ASSUME NEW k \in Trees, Grounded(k), NEW k2 \in Trees, \A m \in Node : ToSet(k2[m]) \subseteq ToSet(k[m]),
         NEW X \in SUBSET Node, \A m \in Node : ToSet(k[m]) \ X \subseteq ToSet(k2[m]),
         NEW p \in Node, \A x \in X : p \notin Sub(k, x)
  PROVE  Steady(k2, k, p)
<1>1. Grounded(k2) /\ \A a \in Node : Sub(k2, a) \subseteq Sub(k, a)
  BY Pruned
<1>2. ASSUME NEW a \in Node, p \in Sub(k, a) PROVE p \in Sub(k2, a)
  <2>. DEFINE B == UNION {Sub(k, x) : x \in X}
              S == Sub(k2, a) \cup B
  <2>1. \A x \in X : Sub(k, x) \subseteq Node /\ x \in Sub(k, x) /\ \A n \in Sub(k, x) : ToSet(k[n]) \subseteq Sub(k, x)
    BY SubFacts
  <2>2. Sub(k2, a) \subseteq Node /\ a \in Sub(k2, a) /\ \A n \in Sub(k2, a) : ToSet(k2[n]) \subseteq Sub(k2, a)
    BY <1>1, SubFacts
  <2>3. \A n \in S : ToSet(k[n]) \subseteq S
    <3>1. \A n \in B : ToSet(k[n]) \subseteq B
      BY <2>1
    <3>2. X \subseteq B
      BY <2>1
    <3>3. \A n \in Sub(k2, a) : ToSet(k[n]) \subseteq ToSet(k2[n]) \cup X
      BY <2>2
    <3>. QED
      BY <2>2, <3>1, <3>2, <3>3
  <2>4. S \in SUBSET Node /\ a \in S
    BY <2>1, <2>2
  <2>5. Sub(k, a) \subseteq S
    <3>. HIDE DEF S
    <3>. QED
      BY <2>3, <2>4, SubLeast
  <2>6. p \notin B
    OBVIOUS
  <2>. QED
    BY <1>2, <2>5, <2>6
<1>. QED
  BY <1>1, <1>2, SubFacts DEF Steady

\* Nodes are put below p, which was below none of them.
LEMMA Regrown ==
  ASSUME NEW k \in Trees, Grounded(k), NEW X \in SUBSET Node, NEW p \in Node, \A x \in X : p \notin Sub(k, x),
         NEW k2, \A m \in Node : ToSet(k2[m]) \subseteq ToSet(k[m]) \cup (IF m = p THEN X ELSE {})
  PROVE  Grounded(k2)
<1>. DEFINE B == UNION {Sub(k, x) : x \in X}
<1>1. \A x \in X : Sub(k, x) \subseteq Node /\ x \in Sub(k, x) /\ \A n \in Sub(k, x) : ToSet(k[n]) \subseteq Sub(k, x)
  BY SubFacts
<1>2. X \subseteq B /\ p \notin B /\ \A n \in B : ToSet(k[n]) \subseteq B
  BY <1>1
<1>. HIDE DEF B
<1>3. ASSUME NEW S \in SUBSET Node, S # {} PROVE \E n \in S : ToSet(k2[n]) \cap S = {}
  <2>1. CASE S \cap B = {}
    <3>1. PICK n \in S : ToSet(k[n]) \cap S = {}
      BY <1>3 DEF Grounded
    <3>2. ToSet(k2[n]) \subseteq ToSet(k[n]) \cup X
      OBVIOUS
    <3>. QED
      BY <1>2, <2>1, <3>1, <3>2
  <2>2. CASE S \cap B # {}
    <3>1. PICK n \in S \cap B : ToSet(k[n]) \cap (S \cap B) = {}
      BY <2>2 DEF Grounded
    <3>2. n # p /\ ToSet(k[n]) \subseteq B
      BY <1>2, <3>1
    <3>3. ToSet(k2[n]) \subseteq ToSet(k[n])
      BY <3>2
    <3>. QED
      BY <3>1, <3>2, <3>3
  <2>. QED
    BY <2>1, <2>2
<1>. QED
  BY <1>3 DEF Grounded

-----------------------------------------------------------------------------
(***************************************************************************)
(* The calls that detach and link.                                         *)
(***************************************************************************)
Telling == \E s : Tells(kids, s) /\ (Mutate(s) \/ MutateOnly(s))

\* Before anything is done.
LEMMA BegunTells ==
  ASSUME Family(kids) PROVE Tells(kids, Begun) /\ Begun.kids = kids
<1>1. Begun = [kids |-> kids, log |-> <<>>]
  BY DEF Begun
<1>2. Tells(kids, Begun)
  BY <1>1, TellsNothing
<1>. QED
  BY <1>1, <1>2

\* What moves with n.
LEMMA MovingFacts ==
  ASSUME Family(kids), NEW n \in Node
  PROVE  /\ Moving(n) \in Seq(Element) /\ IsInjective(Moving(n))
         /\ \A p \in Node : \A ref \in ToSet(kids[p]) : p # n /\ ref # n => ref \notin ToSet(Moving(n))
<1>1. CASE n \in Fragment
  <2>1. Moving(n) = kids[n]
    BY <1>1 DEF Moving
  <2>2. \A p \in Node : p # n => ToSet(kids[p]) \cap ToSet(kids[n]) = {}
    BY DEF Family
  <2>3. kids[n] \in Seq(Element) /\ IsInjective(kids[n])
    BY FamilyFacts
  <2>. QED
    BY ONLY <2>1, <2>2, <2>3
<1>2. CASE n \notin Fragment
  <2>1. Moving(n) = <<n>> /\ n \in Element
    BY <1>2 DEF Moving, Element
  <2>2. <<n>> \in Seq(Element) /\ ToSet(<<n>>) = {n} /\ IsInjective(<<n>>)
    <3>1. PICK X : X = Element
      OBVIOUS
    <3>2. n \in X
      BY <2>1, <3>1
    <3>3. <<n>> \in Seq(X) /\ ToSet(<<n>>) = {n} /\ IsInjective(<<n>>)
      BY ONLY <3>2 DEF ToSet, IsInjective
    <3>. QED
      BY <3>1, <3>3
  <2>. QED
    BY ONLY <2>1, <2>2
<1>. QED
  BY <1>1, <1>2

\* A node that can be held is another one.
LEMMA HoldableApart ==
  ASSUME NEW p, NEW n, Holdable(p, n) PROVE p # n
BY DEF Holdable, Inside

\* The record of an attribute tells nothing of children.
LEMMA AttributeTells ==
  ASSUME Family(kids), NEW el \in Node
  PROVE  Tells(kids, Log(Begun, AttributeRecord(el)))
<1>1. PICK r : r = AttributeRecord(el)
  OBVIOUS
<1>2. r \in MutationRecord /\ r.type # "childList"
  BY <1>1, RecordTyped DEF AttributeRecord, Links
<1>3. \A m \in Node : Told(m, ToSet(Begun.kids[m]), r, ToSet(kids[m]))
  BY <1>2, BegunTells DEF Told
<1>4. Log(Begun, r) = [Log(Begun, r) EXCEPT !.kids = kids]
  <2>1. PICK l : l = Append(<<>>, [kids |-> kids, record |-> r])
    OBVIOUS
  <2>2. Begun = [kids |-> kids, log |-> <<>>]
    BY DEF Begun
  <2>3. Log(Begun, r) = [kids |-> kids, log |-> l]
    BY ONLY <2>1, <2>2 DEF Log
  <2>. QED
    BY ONLY <2>3
<1>. QED
  BY ONLY <1>1, <1>2, <1>3, <1>4, Family(kids), BegunTells, TellsOne

-----------------------------------------------------------------------------
(***************************************************************************)
(* Where the records of a call are seen: by those who see their targets    *)
(* before the call, or after it.                                           *)
(***************************************************************************)
InPlace(k0, s) ==
  \A e \in ToSet(s.log) :
    e.record.type = "childList" =>
      Steady(e.kids, k0, e.record.target) \/ Steady(e.kids, s.kids, e.record.target)

\* A mutation whose records tell it, in trees without a cycle, to those who see their targets.
Placed == \E s : Tells(kids, s) /\ InPlace(kids, s) /\ Grounded(s.kids) /\ (Mutate(s) \/ MutateOnly(s))

\* Each record that tells of children was queued for those who saw its target in k0.
Faithful(k0, log) ==
  \A e \in ToSet(log) : e.record.type = "childList" => Steady(e.kids, k0, e.record.target)

\* No parent of one of X is below one of X.
Level(k0, X) == \A x, y \in X : \A t \in Node : x \in ToSet(k0[t]) => t \notin Sub(k0, y)

\* Some of X are taken out of k0, and nothing else is done.
Taken(k0, X, s) ==
  /\ Tells(k0, s) /\ Faithful(k0, s.log)
  /\ \A m \in Node : ToSet(s.kids[m]) \subseteq ToSet(k0[m]) /\ ToSet(k0[m]) \ X \subseteq ToSet(s.kids[m])

LEMMA BegunTaken ==
  ASSUME Family(kids), NEW X PROVE Taken(kids, X, Begun)
<1>1. Tells(kids, Begun) /\ Begun.kids = kids /\ Begun.log = <<>>
  BY BegunTells DEF Begun
<1>2. ToSet(<<>>) = {}
  BY DEF ToSet
<1>. QED
  BY <1>1, <1>2 DEF Taken, Faithful

\* The children of one node have their parent above them, and so has a single one.
LEMMA LevelFacts ==
  ASSUME NEW k, Family(k), Grounded(k)
  PROVE  /\ \A p \in Node : Level(k, ToSet(k[p]))
         /\ \A n \in Node : Level(k, {n})
<1>1. k \in Trees /\ \A a, b \in Node : a # b => ToSet(k[a]) \cap ToSet(k[b]) = {}
  BY DEF Family
<1>2. \A t \in Node : \A c \in ToSet(k[t]) : t \notin Sub(k, c)
  BY <1>1, NoCycle
<1>. QED
  BY <1>1, <1>2 DEF Level

\* One of X more.
LEMMA TakenStep ==
  ASSUME NEW k0, Family(k0), Grounded(k0), NEW X \in SUBSET Node, Level(k0, X), NEW s, Taken(k0, X, s), NEW x \in X
  PROVE  Taken(k0, X, Detached(s, x))
<1>1. PICK k : k = s.kids
  OBVIOUS
<1>2. Family(k) /\ Tells(k0, s)
  BY <1>1 DEF Tells, Taken
<1>3. PICK p : p = Owner(k, x)
  OBVIOUS
<1>4. PICK d : d = Detached(s, x)
  OBVIOUS
<1>5. Tells(k0, d) /\ \A m \in Node : ToSet(d.kids[m]) = ToSet(k[m]) \ {x}
  BY <1>1, <1>2, <1>4, DetachedFacts
<1>6. \A m \in Node : ToSet(k[m]) \subseteq ToSet(k0[m]) /\ ToSet(k0[m]) \ X \subseteq ToSet(k[m])
  BY <1>1 DEF Taken
<1>7. \A m \in Node : ToSet(d.kids[m]) \subseteq ToSet(k0[m]) /\ ToSet(k0[m]) \ X \subseteq ToSet(d.kids[m])
  BY <1>5, <1>6
<1>8. Faithful(k0, d.log)
  <2>1. CASE p = Null
    <3>1. d = s
      BY <1>1, <1>3, <1>4, <2>1, Zenon DEF Detached
    <3>. QED
      BY <3>1 DEF Taken
  <2>2. CASE p # Null
    <3>1. p \in Node /\ x \in ToSet(k[p])
      BY <1>2, <1>3, <2>2, OwnerFacts
    <3>2. PICK r : r = ChildListRemoved(p, x, PreviousSibling(k, x), NextSibling(k, x))
      OBVIOUS
    <3>3. PICK e : e = [kids |-> k, record |-> r]
      OBVIOUS
    <3>4. PICK l : l = s.log
      OBVIOUS
    <3>5. d.log = Append(l, e)
      <4>1. d = [Log(s, r) EXCEPT !.kids = Without(@, {x})]
        BY ONLY <1>1, <1>3, <1>4, <2>2, <3>2, Zenon DEF Detached
      <4>2. PICK l2 : l2 = Append(l, e)
        OBVIOUS
      <4>3. Log(s, r) = [s EXCEPT !.log = l2]
        BY ONLY <1>1, <3>3, <3>4, <4>2, Zenon DEF Log
      <4>4. s = [kids |-> k, log |-> l]
        BY <1>1, <1>2, <3>4 DEF Tells
      <4>5. d = [kids |-> Without(k, {x}), log |-> l2]
        BY ONLY <4>1, <4>3, <4>4
      <4>. QED
        BY ONLY <4>2, <4>5
    <3>6. ToSet(Append(l, e)) = ToSet(l) \cup {e}
      <4>1. PICK F : F = Entries(Trees)
        OBVIOUS
      <4>2. l \in Seq(F)
        BY <1>2, <3>4, <4>1 DEF Tells, LogOf
      <4>3. PICK E : E = F \cup {e}
        OBVIOUS
      <4>4. l \in Seq(E) /\ e \in E
        BY ONLY <4>2, <4>3
      <4>. QED
        BY ONLY <4>4, AppendFacts
    <3>7. Steady(k, k0, p)
      <4>1. x \in ToSet(k0[p])
        BY <1>6, <3>1
      <4>2. \A y \in X : p \notin Sub(k0, y)
        BY <3>1, <4>1 DEF Level
      <4>3. k \in Trees /\ k0 \in Trees
        BY <1>2 DEF Family
      <4>. QED
        BY ONLY <1>6, <3>1, <4>2, <4>3, Grounded(k0), X \in SUBSET Node, PrunedSteady
    <3>8. e.kids = k /\ e.record.target = p
      BY ONLY <3>2, <3>3 DEF ChildListRemoved
    <3>9. \A f \in ToSet(l) : f.record.type = "childList" => Steady(f.kids, k0, f.record.target)
      BY <3>4 DEF Taken, Faithful
    <3>. QED
      BY ONLY <3>5, <3>6, <3>7, <3>8, <3>9 DEF Faithful
  <2>. QED
    BY <2>1, <2>2
<1>. QED
  BY <1>4, <1>5, <1>7, <1>8 DEF Taken

\* Some of X, one after the other.
LEMMA TakenAll ==
  ASSUME NEW k0, Family(k0), Grounded(k0), NEW X \in SUBSET Node, Level(k0, X), NEW s, Taken(k0, X, s), NEW xs \in Seq(X)
  PROVE  Taken(k0, X, DetachedAll(s, xs))
<1>. DEFINE f == CHOOSE f : IsDetached(s, xs, Len(xs), f)
<1>1. PICK n \in Nat : n = Len(xs) /\ \A i \in 1 .. n : xs[i] \in X
  OBVIOUS
<1>2. IsDetached(s, xs, n, f)
  <2>1. \E g : IsDetached(s, xs, n, g)
    BY DetachedExists
  <2>. QED
    BY <1>1, <2>1, Zenon
<1>3. DetachedAll(s, xs) = f[n]
  BY <1>1, Zenon DEF DetachedAll, IsDetached, DetachStep
<1>. HIDE DEF f
<1>4. \A i \in 0 .. n : f[i] = DetachStep(s, xs, f, i)
  BY <1>2, Zenon DEF IsDetached
<1>. DEFINE T == {i \in Nat : i <= n => Taken(k0, X, f[i])}
<1>5. 0 \in T
  <2>1. 0 \in 0 .. n
    OBVIOUS
  <2>2. f[0] = s
    BY ONLY <1>4, <2>1 DEF DetachStep
  <2>. QED
    BY <2>2
<1>6. ASSUME NEW i \in T PROVE i + 1 \in T
  <2>. SUFFICES ASSUME i + 1 <= n PROVE Taken(k0, X, f[i + 1])
    OBVIOUS
  <2>1. i \in Nat /\ i + 1 \in 0 .. n /\ i + 1 # 0 /\ (i + 1) - 1 = i /\ i <= n
    OBVIOUS
  <2>2. PICK u : u = f[i]
    OBVIOUS
  <2>3. PICK x \in X : x = xs[i + 1]
    BY <1>1, <2>1
  <2>4. Taken(k0, X, u)
    BY <2>1, <2>2
  <2>5. f[i + 1] = Detached(u, x)
    BY ONLY <1>4, <2>1, <2>2, <2>3 DEF DetachStep
  <2>6. Taken(k0, X, Detached(u, x))
    BY ONLY <2>4, Family(k0), Grounded(k0), X \in SUBSET Node, Level(k0, X), x \in X, TakenStep
  <2>. QED
    BY <2>5, <2>6
<1>7. T = Nat
  <2>. HIDE DEF T
  <2>1. T \in SUBSET Nat
    BY DEF T
  <2>. QED
    BY <1>5, <1>6, <2>1, SetInduction
<1>8. n \in {i \in Nat : i <= n => Taken(k0, X, f[i])}
  BY <1>7
<1>. QED
  BY <1>3, <1>8

LEMMA SteadyItself ==
  ASSUME NEW k, NEW t PROVE Steady(k, k, t)
BY DEF Steady

\* What a list of entries in one tree holds.
LEMMA InTreeKids ==
  ASSUME NEW k, NEW rs PROVE \A e \in ToSet(InTree(k, rs)) : e.kids = k
BY DEF InTree, ToSet

\* Those of X that were taken out, and nothing put in.
LEMMA TakenPlaced ==
  ASSUME Family(kids), Grounded(kids), NEW X, NEW s, Taken(kids, X, s), Mutate(s) \/ MutateOnly(s)
  PROVE  Placed
<1>1. kids \in Trees /\ s.kids \in Trees /\ Tells(kids, s)
  BY DEF Family, Taken, Tells
<1>2. Grounded(s.kids)
  BY <1>1, Pruned DEF Taken
<1>3. InPlace(kids, s)
  BY DEF Taken, Faithful, InPlace
<1>. QED
  BY <1>1, <1>2, <1>3 DEF Placed

\* And the nodes xs put in, below p.
LEMMA LinkedInPlace ==
  ASSUME NEW k0, Family(k0), Grounded(k0), NEW X, NEW u, Taken(k0, X, u), NEW p \in Node, NEW ref,
         ref = Null \/ ref \in ToSet(u.kids[p]),
         NEW xs \in Seq(Element), IsInjective(xs), \A m \in Node : ToSet(xs) \cap ToSet(u.kids[m]) = {},
         \A x \in ToSet(xs) : p \notin Sub(k0, x),
         NEW v, v = Linked(u, p, xs, ref)
  PROVE  Tells(k0, v) /\ InPlace(k0, v) /\ Grounded(v.kids)
<1>1. Tells(k0, u) /\ Faithful(k0, u.log) /\ \A m \in Node : ToSet(u.kids[m]) \subseteq ToSet(k0[m])
  BY DEF Taken
<1>2. /\ Tells(k0, v)
      /\ \A m \in Node : ToSet(v.kids[m]) = IF m = p THEN ToSet(u.kids[p]) \cup ToSet(xs) ELSE ToSet(u.kids[m])
  <2>1. LinksIn(k0, u, p, ref, xs, v)
    BY <1>1 DEF LinksIn
  <2>2. TellsLinked(k0, u, p, xs, v)
    BY ONLY <2>1, LinkedFacts
  <2>. QED
    BY ONLY <2>2 DEF TellsLinked
<1>3. PICK k : k = v.kids
  OBVIOUS
<1>4. PICK rs : rs = [i \in DOMAIN xs |-> ChildListAdded(p, xs[i])]
  OBVIOUS
<1>5. PICK l : l = u.log
  OBVIOUS
<1>6. v.log = l \o InTree(k, rs)
  <2>1. PICK k2 : k2 = [u.kids EXCEPT ![p] = PutBefore(@, ref, xs)]
    OBVIOUS
  <2>2. v = [kids |-> k2, log |-> l \o InTree(k2, rs)]
    BY ONLY v = Linked(u, p, xs, ref), <1>4, <1>5, <2>1, Zenon DEF Linked
  <2>. QED
    BY ONLY <1>3, <2>2
<1>7. ToSet(l \o InTree(k, rs)) = ToSet(l) \cup ToSet(InTree(k, rs))
  <2>1. k \in Trees
    BY <1>2, <1>3 DEF Tells, Family
  <2>2. rs \in Seq(MutationRecord)
    BY <1>4, AdditionsTell DEF Additions
  <2>3. InTree(k, rs) \in Seq(Entries(Trees)) /\ l \in Seq(Entries(Trees))
    BY <1>1, <1>5, <2>1, <2>2, InTreeFacts DEF Tells, LogOf
  <2>. QED
    BY ONLY <2>3, ConcatFacts
<1>8. InPlace(k0, v)
  <2>. SUFFICES ASSUME NEW e \in ToSet(v.log), e.record.type = "childList"
                PROVE  Steady(e.kids, k0, e.record.target) \/ Steady(e.kids, v.kids, e.record.target)
    BY DEF InPlace
  <2>1. CASE e \in ToSet(l)
    BY <1>1, <1>5, <2>1 DEF Faithful
  <2>2. CASE e \in ToSet(InTree(k, rs))
    BY <1>3, <2>2, InTreeKids, SteadyItself
  <2>. QED
    BY <1>6, <1>7, <2>1, <2>2
<1>9. Grounded(v.kids)
  <2>1. PICK S : S = ToSet(xs)
    OBVIOUS
  <2>2. S \in SUBSET Node
    <3>1. PICK E : E = Element
      OBVIOUS
    <3>2. E \subseteq Node
      BY <3>1 DEF Element
    <3>3. xs \in Seq(E)
      BY <3>1
    <3>. QED
      BY ONLY <2>1, <3>2, <3>3 DEF ToSet
  <2>3. \A m \in Node : ToSet(k[m]) \subseteq ToSet(k0[m]) \cup (IF m = p THEN S ELSE {})
    BY <1>1, <1>2, <1>3, <2>1
  <2>4. k0 \in Trees
    BY DEF Family
  <2>. QED
    <3>1. \A x \in S : p \notin Sub(k0, x)
      BY <2>1
    <3>2. Grounded(k)
      BY ONLY <2>2, <2>3, <2>4, <3>1, Grounded(k0), p \in Node, Regrown
    <3>. QED
      BY <1>3, <3>2
<1>. QED
  BY <1>2, <1>8, <1>9

\* What moves with n is no parent of what moves with n, nor above a node that can hold n.
LEMMA MovingLevel ==
  ASSUME Family(kids), Grounded(kids), NEW n \in Node, NEW X, X = ToSet(Moving(n))
  PROVE  /\ X \in SUBSET Node /\ Level(kids, X) /\ Moving(n) \in Seq(X)
         /\ \A p \in Node : Holdable(p, n) => \A x \in X : p \notin Sub(kids, x)
<1>1. kids \in Trees
  BY DEF Family
<1>2. /\ Sub(kids, n) \in SUBSET Node /\ n \in Sub(kids, n) /\ \A m \in Sub(kids, n) : ToSet(kids[m]) \subseteq Sub(kids, n)
      /\ \A m : Inside(kids, n, m) <=> m \in Sub(kids, n)
  BY <1>1, SubFacts
<1>3. X \in SUBSET Node /\ Level(kids, X) /\ X \subseteq Sub(kids, n)
  <2>1. CASE n \in Fragment
    <3>1. X = ToSet(kids[n])
      BY <2>1 DEF Moving
    <3>. QED
      BY <1>2, <3>1, LevelFacts
  <2>2. CASE n \notin Fragment
    <3>1. X = {n}
      BY <2>2 DEF Moving, ToSet
    <3>. QED
      BY <1>2, <3>1, LevelFacts
  <2>. QED
    BY <2>1, <2>2
<1>4. Moving(n) \in Seq(X)
  <2>1. Moving(n) \in Seq(Element)
    BY MovingFacts
  <2>2. PICK s : s = Moving(n)
    OBVIOUS
  <2>3. PICK E : E = Element
    OBVIOUS
  <2>4. s \in Seq(E)
    BY <2>1, <2>2, <2>3
  <2>5. s \in Seq(ToSet(s))
    BY ONLY <2>4 DEF ToSet
  <2>. QED
    BY <2>2, <2>5
<1>5. ASSUME NEW p \in Node, Holdable(p, n), NEW x \in X PROVE p \notin Sub(kids, x)
  <2>1. p \notin Sub(kids, n)
    BY <1>2, <1>5 DEF Holdable
  <2>2. Sub(kids, x) \subseteq Sub(kids, n)
    <3>1. x \in Sub(kids, n)
      BY <1>3
    <3>. QED
      BY <1>1, <1>2, <3>1, SubLeast
  <2>. QED
    BY <2>1, <2>2
<1>. QED
  BY <1>3, <1>4, <1>5

\* A mutation that tells itself to those who see its nodes is placed.
LEMMA LinkedPlaced ==
  ASSUME Family(kids), Grounded(kids), NEW X, NEW u, Taken(kids, X, u), NEW p \in Node, NEW ref,
         ref = Null \/ ref \in ToSet(u.kids[p]),
         NEW xs \in Seq(Element), IsInjective(xs), \A m \in Node : ToSet(xs) \cap ToSet(u.kids[m]) = {},
         \A x \in ToSet(xs) : p \notin Sub(kids, x),
         Mutate(Linked(u, p, xs, ref)) \/ MutateOnly(Linked(u, p, xs, ref))
  PROVE  Placed
<1>1. PICK v : v = Linked(u, p, xs, ref)
  OBVIOUS
<1>2. Tells(kids, v) /\ InPlace(kids, v) /\ Grounded(v.kids)
  BY <1>1, LinkedInPlace
<1>. QED
  BY <1>1, <1>2 DEF Placed

\* Detaching what moves with n and linking it before ref.
LEMMA MovedPlaced ==
  ASSUME Family(kids), Grounded(kids), NEW n \in Node, NEW p \in Node, Holdable(p, n), NEW ref, ref # n, ref = Null \/ ref \in ToSet(kids[p]),
         NEW s, Taken(kids, ToSet(Moving(n)), s), NEW E, E \subseteq {n}, \A m \in Node : ToSet(s.kids[m]) = ToSet(kids[m]) \ E,
         NEW v, v = Linked(DetachedAll(s, Moving(n)), p, Moving(n), ref), Mutate(v) \/ MutateOnly(v)
  PROVE  Placed
<1>1. PICK xs : xs = Moving(n)
  OBVIOUS
<1>2. /\ xs \in Seq(Element) /\ IsInjective(xs) /\ p # n
      /\ \A q \in Node : \A x \in ToSet(kids[q]) : q # n /\ x # n => x \notin ToSet(xs)
  BY <1>1, MovingFacts, HoldableApart
<1>3. PICK X : X = ToSet(xs)
  OBVIOUS
<1>4. X \in SUBSET Node /\ Level(kids, X) /\ xs \in Seq(X) /\ \A x \in X : p \notin Sub(kids, x)
  BY <1>1, <1>3, MovingLevel
<1>5. PICK u : u = DetachedAll(s, xs)
  OBVIOUS
<1>6. \A m \in Node : ToSet(u.kids[m]) = ToSet(s.kids[m]) \ X
  <2>1. Tells(kids, s)
    BY DEF Taken
  <2>2. OutOf(kids, s, ToSet(xs), u)
    BY ONLY <1>2, <1>5, <2>1, DetachedAllFacts
  <2>. QED
    BY <1>3, <2>2 DEF OutOf
<1>7. Taken(kids, X, u)
  BY <1>1, <1>3, <1>4, <1>5, TakenAll
<1>8. ref = Null \/ ref \in ToSet(u.kids[p])
  BY <1>2, <1>3, <1>6
<1>9. \A m \in Node : ToSet(xs) \cap ToSet(u.kids[m]) = {}
  BY <1>3, <1>6
<1>10. v = Linked(u, p, xs, ref)
  BY <1>1, <1>5
<1>. QED
  BY <1>2, <1>3, <1>4, <1>7, <1>8, <1>9, <1>10, LinkedPlaced

\* insert_before queues what it does to the children.
LEMMA InsertBeforePlaced ==
  ASSUME Family(kids), Grounded(kids), NEW p \in Node, NEW n \in Node, NEW ref \in Links, InsertBefore(p, n, ref)
  PROVE  Placed
<1>1. Holdable(p, n) /\ ref # n /\ (ref = Null \/ ref \in ToSet(kids[p]))
  BY DEF InsertBefore, ChildOf
<1>2. Taken(kids, ToSet(Moving(n)), Begun) /\ \A m \in Node : ToSet(Begun.kids[m]) = ToSet(kids[m]) \ {}
  BY BegunTells, BegunTaken
<1>3. PICK v : v = Linked(DetachedAll(Begun, Moving(n)), p, Moving(n), ref)
  OBVIOUS
<1>4. Mutate(v)
  BY <1>3 DEF InsertBefore
<1>5. {} \subseteq {n}
  OBVIOUS
<1>. QED
  BY <1>1, <1>2, <1>3, <1>4, <1>5, MovedPlaced

\* remove_child, the same.
LEMMA RemoveChildPlaced ==
  ASSUME Family(kids), Grounded(kids), NEW c \in Node, RemoveChild(c)
  PROVE  Placed
<1>1. Taken(kids, {c}, Begun) /\ Level(kids, {c})
  BY BegunTaken, LevelFacts
<1>2. PICK d : d = Detached(Begun, c)
  OBVIOUS
<1>3. Taken(kids, {c}, d)
  BY <1>1, <1>2, TakenStep
<1>4. Mutate(d)
  BY <1>2 DEF RemoveChild
<1>. QED
  BY <1>3, <1>4, TakenPlaced

\* replace_children, the same.
LEMMA ReplaceChildrenPlaced ==
  ASSUME Family(kids), Grounded(kids), NEW p \in Node, NEW xs, xs = <<>> \/ \E x \in Node : xs = <<x>>, ReplaceChildren(p, xs)
  PROVE  Placed
<1>1. xs \in Seq(Element) /\ IsInjective(xs)
  <2>1. PICK X : X = Element
    OBVIOUS
  <2>2. \A x \in ToSet(xs) : x \in X
    BY <2>1 DEF ReplaceChildren, New
  <2>3. CASE xs = <<>>
    BY ONLY <2>1, <2>3 DEF IsInjective
  <2>4. CASE \E x \in Node : xs = <<x>>
    <3>1. PICK x : xs = <<x>>
      BY <2>4
    <3>2. x \in X
      BY ONLY <2>2, <3>1 DEF ToSet
    <3>. QED
      BY ONLY <2>1, <3>1, <3>2 DEF IsInjective
  <2>. QED
    BY <2>3, <2>4
<1>2. PICK X : X = ToSet(kids[p])
  OBVIOUS
<1>3. X \in SUBSET Node /\ Level(kids, X) /\ kids[p] \in Seq(X)
  <2>1. PICK s : s = kids[p]
    OBVIOUS
  <2>2. s \in Seq(Node) /\ X = ToSet(s)
    BY <1>2, <2>1, FamilyFacts
  <2>3. s \in Seq(ToSet(s))
    BY ONLY <2>2 DEF ToSet
  <2>. QED
    BY <1>2, <2>1, <2>3, FamilyFacts, LevelFacts
<1>4. PICK u : u = DetachedAll(Begun, kids[p])
  OBVIOUS
<1>5. Taken(kids, X, u)
  BY <1>3, <1>4, BegunTaken, TakenAll
<1>6. \A x \in ToSet(xs) : x \in Node /\ Owner(kids, x) = Null /\ kids[x] = <<>> /\ x # p
  BY DEF ReplaceChildren, New, Element
<1>7. \A m \in Node : ToSet(xs) \cap ToSet(u.kids[m]) = {}
  <2>1. \A x \in ToSet(xs) : \A m \in Node : x \notin ToSet(kids[m])
    BY <1>6, OwnerFacts, MutationObserversAssumption
  <2>. QED
    BY <1>5, <2>1 DEF Taken
<1>8. ASSUME NEW x \in ToSet(xs) PROVE p \notin Sub(kids, x)
  <2>1. x \in Node /\ ToSet(kids[x]) = {} /\ x # p
    BY <1>6 DEF ToSet
  <2>2. kids \in Trees
    BY DEF Family
  <2>. QED
    BY <2>1, <2>2, SubFacts
<1>9. Mutate(Linked(u, p, xs, Null))
  BY <1>4 DEF ReplaceChildren
<1>. QED
  BY <1>1, <1>5, <1>7, <1>8, <1>9, LinkedPlaced

\* set_attribute, and the value of an input: no children, no tale.
LEMMA SetAttributePlaced ==
  ASSUME Family(kids), Grounded(kids), NEW el \in Node, SetAttribute(el) \/ SetInputValue(el)
  PROVE  Placed
<1>1. PICK s : s = Log(Begun, AttributeRecord(el))
  OBVIOUS
<1>2. Tells(kids, s)
  BY <1>1, AttributeTells
<1>3. s = [kids |-> kids, log |-> Append(<<>>, [kids |-> kids, record |-> AttributeRecord(el)])]
  BY <1>1 DEF Begun, Log
<1>4. \A e \in ToSet(s.log) : e.record.type = "attributes"
  BY <1>3 DEF AttributeRecord, ToSet
<1>5. InPlace(kids, s) /\ Grounded(s.kids)
  BY <1>3, <1>4 DEF InPlace
<1>6. Mutate(s) \/ MutateOnly(s)
  BY <1>1, Zenon DEF SetAttribute, SetInputValue
<1>. QED
  BY <1>2, <1>5, <1>6 DEF Placed

\* The deletion of what a range holds.
LEMMA RangeDeleteContentsPlaced ==
  ASSUME Family(kids), Grounded(kids), NEW p \in Node, NEW from \in Nat, NEW to \in Nat, RangeDeleteContents(p, from, to)
  PROVE  Placed
<1>1. PICK s : s = kids[p]
  OBVIOUS
<1>2. PICK X : X = ToSet(s)
  OBVIOUS
<1>3. X \in SUBSET Node /\ Level(kids, X) /\ s \in Seq(X)
  <2>1. s \in Seq(Node)
    BY <1>1, FamilyFacts
  <2>2. s \in Seq(ToSet(s))
    BY ONLY <2>1 DEF ToSet
  <2>. QED
    BY <1>1, <1>2, <2>2, FamilyFacts, LevelFacts
<1>4. PICK xs : xs = SubSeq(s, from, to - 1)
  OBVIOUS
<1>5. xs \in Seq(X)
  <2>1. 1 <= from /\ from < to /\ to <= Len(s) + 1
    BY <1>1 DEF RangeDeleteContents
  <2>. QED
    BY ONLY <1>3, <1>4, <2>1, from \in Nat, to \in Nat
<1>6. Taken(kids, X, DetachedAll(Begun, xs))
  BY <1>3, <1>5, BegunTaken, TakenAll
<1>7. MutateOnly(DetachedAll(Begun, xs))
  BY <1>1, <1>4 DEF RangeDeleteContents
<1>. QED
  BY <1>6, <1>7, TakenPlaced

\* The insertion of a node at a range.
LEMMA RangeInsertNodePlaced ==
  ASSUME Family(kids), Grounded(kids), NEW p \in Node, NEW n \in Node, NEW at \in Nat, RangeInsertNode(p, at, n)
  PROVE  Placed
<1>1. PICK start : start = IF at \in DOMAIN kids[p] THEN kids[p][at] ELSE Null
  OBVIOUS
<1>2. PICK ref : ref = IF n = start THEN NextSibling(kids, n) ELSE start
  OBVIOUS
<1>3. PICK out : out = Detached(Begun, n)
  OBVIOUS
<1>4. n # p /\ IF Holdable(p, n) THEN MutateOnly(Linked(DetachedAll(out, Moving(n)), p, Moving(n), ref))
               ELSE Owner(kids, n) # Null /\ MutateOnly(out)
  BY <1>1, <1>2, <1>3, Zenon DEF RangeInsertNode
<1>5. \A m \in Node : ToSet(out.kids[m]) = ToSet(kids[m]) \ {n}
  BY <1>3, BegunTells, DetachedFacts
<1>6. Taken(kids, {n}, out)
  BY <1>3, BegunTaken, LevelFacts, TakenStep
<1>7. CASE ~ Holdable(p, n)
  BY <1>4, <1>6, <1>7, TakenPlaced
<1>8. CASE Holdable(p, n)
  <2>1. start = Null \/ start \in ToSet(kids[p])
    BY <1>1 DEF ToSet
  <2>2. n # Null
    BY MutationObserversAssumption
  <2>3. ref # n /\ (ref = Null \/ ref \in ToSet(kids[p]))
    <3>1. CASE n = start
      <4>1. n \in ToSet(kids[p])
        BY <2>1, <2>2, <3>1
      <4>2. NextSibling(kids, n) # Null => NextSibling(kids, n) \in ToSet(kids[p]) \ {n}
        BY <4>1, SiblingFacts
      <4>. QED
        BY <1>2, <2>2, <3>1, <4>2
    <3>2. CASE n # start
      BY <1>2, <2>1, <3>2
    <3>. QED
      BY <3>1, <3>2
  <2>4. Taken(kids, ToSet(Moving(n)), out)
    <3>1. CASE n \in Fragment
      <4>1. Owner(kids, n) = Null
        BY <3>1, FamilyFacts, OwnerFacts DEF Element
      <4>2. out = Begun
        BY <1>3, <4>1, BegunTells, Zenon DEF Detached
      <4>. QED
        BY <4>2, BegunTaken
    <3>2. CASE n \notin Fragment
      <4>1. ToSet(Moving(n)) = {n}
        BY <3>2 DEF Moving, ToSet
      <4>. QED
        BY <1>6, <4>1
    <3>. QED
      BY <3>1, <3>2
  <2>5. PICK v : v = Linked(DetachedAll(out, Moving(n)), p, Moving(n), ref)
    OBVIOUS
  <2>6. MutateOnly(v) /\ {n} \subseteq {n}
    BY <1>4, <1>8, <2>5
  <2>. QED
    BY <1>5, <1>8, <2>3, <2>4, <2>5, <2>6, MovedPlaced
<1>. QED
  BY <1>7, <1>8

-----------------------------------------------------------------------------
(***************************************************************************)
(* The records of replace_child.                                           *)
(***************************************************************************)
\* FlattenSeq, from the end.
LEMMA FlattenAppend ==
  ASSUME NEW X, NEW ss \in Seq(Seq(X)), NEW s \in Seq(X)
  PROVE  /\ Append(ss, s) \in Seq(Seq(X)) /\ FlattenSeq(<<>>) = <<>>
         /\ FlattenSeq(Append(ss, s)) = FlattenSeq(ss) \o s
<1>. PICK Y : Y = Seq(X)
  OBVIOUS
<1>. DEFINE F(q) == CHOOSE f : IsFlat(q, Len(q), f)
<1>1. ASSUME NEW q \in Seq(Y)
      PROVE  /\ FlattenSeq(q) = IF Len(q) = 0 THEN q ELSE F(q)[Len(q)]
             /\ \A i \in 1 .. Len(q) : F(q)[i] = FlatStep(q, F(q), i)
  <2>1. Len(q) \in Nat
    OBVIOUS
  <2>2. IsFlat(q, Len(q), F(q))
    <3>1. \E f : IsFlat(q, Len(q), f)
      BY <2>1, FlatExists
    <3>. QED
      BY ONLY <3>1, Zenon
  <2>3. FlattenSeq(q) = IF Len(q) = 0 THEN q ELSE F(q)[Len(q)]
    BY Zenon DEF FlattenSeq, IsFlat, FlatStep
  <2>. QED
    BY <2>2, <2>3, Zenon DEF IsFlat
<1>2. PICK n \in Nat : n = Len(ss)
  OBVIOUS
<1>3. PICK t : t = Append(ss, s)
  OBVIOUS
<1>4. t \in Seq(Y) /\ Len(t) = n + 1 /\ t[n + 1] = s /\ \A i \in 1 .. n : t[i] = ss[i]
  <2>1. ss \in Seq(Y) /\ s \in Y
    OBVIOUS
  <2>. QED
    BY ONLY <1>2, <1>3, <2>1, AppendEntries
<1>5. PICK f : f = F(ss)
  OBVIOUS
<1>6. PICK g : g = F(t)
  OBVIOUS
<1>7. /\ FlattenSeq(ss) = IF n = 0 THEN ss ELSE f[n]
      /\ \A i \in 1 .. n : f[i] = FlatStep(ss, f, i)
  <2>1. ss \in Seq(Y)
    OBVIOUS
  <2>. QED
    BY ONLY <1>1, <1>2, <1>5, <2>1
<1>8. /\ FlattenSeq(t) = g[n + 1]
      /\ \A i \in 1 .. n + 1 : g[i] = FlatStep(t, g, i)
  <2>1. n + 1 # 0
    OBVIOUS
  <2>. QED
    BY ONLY <1>1, <1>4, <1>6, <2>1
<1>. DEFINE T == {i \in Nat : i + 1 <= n => f[i + 1] = g[i + 1]}
<1>9. 0 \in T
  <2>. SUFFICES ASSUME 1 <= n PROVE f[1] = g[1]
    OBVIOUS
  <2>1. 1 \in 1 .. n /\ 1 \in 1 .. n + 1
    OBVIOUS
  <2>. QED
    BY ONLY <1>4, <1>7, <1>8, <2>1 DEF FlatStep
<1>10. ASSUME NEW i \in T PROVE i + 1 \in T
  <2>. SUFFICES ASSUME (i + 1) + 1 <= n PROVE f[(i + 1) + 1] = g[(i + 1) + 1]
    OBVIOUS
  <2>1. PICK j \in Nat : j = i + 1
    OBVIOUS
  <2>2. f[j] = g[j] /\ j + 1 \in 1 .. n /\ j + 1 \in 1 .. n + 1 /\ j + 1 # 1 /\ (j + 1) - 1 = j
    BY <2>1
  <2>3. f[j + 1] = g[j + 1]
    BY ONLY <1>4, <1>7, <1>8, <2>2 DEF FlatStep
  <2>. QED
    BY <2>1, <2>3
<1>11. T = Nat
  <2>. HIDE DEF T
  <2>1. T \in SUBSET Nat
    BY DEF T
  <2>. QED
    BY <1>9, <1>10, <2>1, SetInduction
<1>12. n # 0 => f[n] = g[n]
  <2>. SUFFICES ASSUME n # 0 PROVE f[n] = g[n]
    OBVIOUS
  <2>1. PICK i \in Nat : n = i + 1
    <3>1. n - 1 \in Nat /\ n = (n - 1) + 1
      OBVIOUS
    <3>. QED
      BY <3>1
  <2>2. i \in {x \in Nat : x + 1 <= n => f[x + 1] = g[x + 1]}
    BY <1>11
  <2>. QED
    BY <2>1, <2>2
<1>13. g[n + 1] = IF n = 0 THEN s ELSE g[n] \o s
  <2>1. n + 1 \in 1 .. n + 1 /\ (n + 1) - 1 = n /\ (n + 1 = 1 <=> n = 0)
    OBVIOUS
  <2>. QED
    BY ONLY <1>4, <1>8, <2>1 DEF FlatStep
<1>14. n = 0 => ss = <<>> /\ <<>> \o s = s
  <2>1. <<>> \o s = s
    BY ONLY s \in Seq(X)
  <2>2. ss \in Seq(Y)
    OBVIOUS
  <2>3. ASSUME n = 0 PROVE ss = <<>>
    <3>1. Len(ss) = 0
      BY <1>2, <2>3
    <3>. QED
      BY <3>1, <2>2
  <2>. QED
    BY ONLY <2>1, <2>3
<1>15. FlattenSeq(<<>>) = <<>>
  <2>1. Len(<<>>) = 0
    OBVIOUS
  <2>. QED
    BY ONLY <2>1 DEF FlattenSeq
<1>. QED
  BY <1>3, <1>4, <1>7, <1>8, <1>12, <1>13, <1>14, <1>15

\* A tale and its continuation, about one node.
LEMMA AboutTale ==
  ASSUME NEW q \in Seq(MutationRecord), NEW r \in Seq(MutationRecord), NEW m, NEW v, NEW u, NEW w,
         Tale(v, About(q, m), u), Tale(u, About(r, m), w)
  PROVE  q \o r \in Seq(MutationRecord) /\ Tale(v, About(q \o r, m), w)
<1>1. /\ q \o r \in Seq(MutationRecord) /\ About(q, m) \in Seq(MutationRecord) /\ About(r, m) \in Seq(MutationRecord)
      /\ About(q \o r, m) = About(q, m) \o About(r, m)
  BY AboutConcat
<1>2. Tale(v, About(q, m) \o About(r, m), w)
  <2>. PICK R : R = MutationRecord
    OBVIOUS
  <2>1. About(q, m) \in Seq(R) /\ About(r, m) \in Seq(R)
    BY ONLY <1>1, R = MutationRecord
  <2>. QED
    BY ONLY Tale(v, About(q, m), u), Tale(u, About(r, m), w), <2>1, TaleConcat
<1>. QED
  BY ONLY <1>1, <1>2

\* Two records, one after the other.
LEMMA PairTale ==
  ASSUME NEW a \in MutationRecord, NEW b \in MutationRecord, NEW m, NEW v, NEW u, NEW w, Told(m, v, a, u), Told(m, u, b, w)
  PROVE  <<a>> \o <<b>> \in Seq(MutationRecord) /\ Tale(v, About(<<a>> \o <<b>>, m), w)
<1>1. <<a>> \in Seq(MutationRecord) /\ Tale(v, About(<<a>>, m), u)
  BY ToldTale
<1>2. <<b>> \in Seq(MutationRecord) /\ Tale(u, About(<<b>>, m), w)
  BY ToldTale
<1>. QED
  BY ONLY <1>1, <1>2, AboutTale

\* An addition, told.
LEMMA AddedTold ==
  ASSUME NEW p \in Node, NEW x \in Node, NEW v, Null \notin v, NEW r, r = ChildListAdded(p, x)
  PROVE  r \in MutationRecord /\ Told(p, v, r, v \cup {x}) /\ \A m : m # p => Told(m, v, r, v)
<1>1. r \in MutationRecord
  BY RecordTyped DEF Links
<1>2. r.type = "childList" /\ r.target = p /\ r.added = x /\ r.removed = Null
  BY DEF ChildListAdded
<1>3. SiblingsIn(v, r)
  BY <1>2 DEF SiblingsIn
<1>4. x # Null
  BY MutationObserversAssumption
<1>5. After(v, r) = v \cup {x}
  BY ONLY <1>2, <1>4, Null \notin v DEF After
<1>. QED
  BY <1>1, <1>2, <1>3, <1>5 DEF Told

\* A record says nothing of other nodes.
LEMMA ToldElsewhere ==
  ASSUME NEW r, NEW m, m # r.target, NEW v PROVE Told(m, v, r, v)
BY DEF Told

\* The next sibling comes later.
LEMMA NextLater ==
  ASSUME NEW k, Family(k), NEW p \in Node, NEW i \in DOMAIN k[p], NextSibling(k, k[p][i]) # Null
  PROVE  \A j \in 1 .. i : NextSibling(k, k[p][i]) # k[p][j]
<1>1. PICK s : s = k[p]
  OBVIOUS
<1>2. s \in Seq(Element) /\ IsInjective(s) /\ i \in DOMAIN s
  BY <1>1, FamilyFacts
<1>3. PICK n \in Nat : n = Len(s) /\ DOMAIN s = 1 .. n
  BY <1>2
<1>4. s[i] \in ToSet(s)
  BY <1>2 DEF ToSet
<1>5. Position(s, s[i]) \in 1 .. n /\ s[Position(s, s[i])] = s[i]
  BY ONLY <1>2, <1>3, <1>4, PositionFacts
<1>6. \A a, b \in 1 .. n : s[a] = s[b] => a = b
  BY ONLY <1>2, <1>3 DEF IsInjective
<1>7. Position(s, s[i]) = i
  BY ONLY <1>2, <1>3, <1>5, <1>6
<1>8. NextSibling(k, s[i]) = At(s, i + 1)
  <2>1. Owner(k, s[i]) = p /\ p # Null
    BY <1>1, <1>4, OwnerFacts, MutationObserversAssumption
  <2>. QED
    BY ONLY <1>1, <1>7, <2>1 DEF NextSibling, Sibling, At
<1>9. i + 1 \in 1 .. n /\ NextSibling(k, s[i]) = s[i + 1]
  BY <1>1, <1>3, <1>8 DEF At
<1>. SUFFICES ASSUME NEW j \in 1 .. i PROVE s[i + 1] # s[j]
  BY <1>1, <1>9
<1>10. i \in 1 .. n /\ j \in 1 .. n /\ i + 1 # j
  BY <1>2, <1>3
<1>. QED
  BY ONLY <1>6, <1>9, <1>10

\* The children of m when those of M have been put under p.
Mid(m, p, M) == IF m = p THEN ToSet(kids[p]) \cup M ELSE ToSet(kids[m]) \ M

InsertionTold(p, n) ==
  /\ InsertionRecords(p, n) \in Seq(MutationRecord)
  /\ \A m \in Node : Tale(ToSet(kids[m]), About(InsertionRecords(p, n), m), Mid(m, p, ToSet(Moving(n))))

\* The pair of records for a child of a fragment.
PairOf(p, n, x) == <<ChildListRemoved(n, x, Null, NextSibling(kids, x)), ChildListAdded(p, x)>>

\* A child of a fragment: it leaves the fragment and enters p.
LEMMA PairTells ==
  ASSUME Family(kids), NEW p \in Node, NEW n \in Node, p # n, NEW i \in DOMAIN kids[n], NEW x, x = kids[n][i],
         NEW M, M = {kids[n][j] : j \in 1 .. i - 1}
  PROVE  /\ PairOf(p, n, x) \in Seq(MutationRecord)
         /\ \A m \in Node : Tale(Mid(m, p, M), About(PairOf(p, n, x), m), Mid(m, p, M \cup {x}))
<1>1. PICK nx : nx = NextSibling(kids, x)
  OBVIOUS
<1>2. PICK a : a = ChildListRemoved(n, x, Null, nx)
  OBVIOUS
<1>3. PICK b : b = ChildListAdded(p, x)
  OBVIOUS
<1>4. PairOf(p, n, x) = <<a>> \o <<b>>
  BY <1>1, <1>2, <1>3 DEF PairOf
<1>5. x \in ToSet(kids[n]) /\ i \in Nat /\ i \in 1 .. i /\ IsInjective(kids[n]) /\ DOMAIN kids[n] = 1 .. Len(kids[n])
  <2>1. kids[n] \in Seq(Element) /\ IsInjective(kids[n])
    BY FamilyFacts
  <2>2. PICK s : s = kids[n]
    OBVIOUS
  <2>3. DOMAIN s = 1 .. Len(s) /\ Len(s) \in Nat
    BY <2>1, <2>2, SeqFacts
  <2>. QED
    BY <2>1, <2>2, <2>3 DEF ToSet
<1>6. x \notin M
  <2>1. \A j \in 1 .. i - 1 : j \in DOMAIN kids[n] /\ j # i
    BY <1>5
  <2>. QED
    BY <1>5, <2>1 DEF IsInjective
<1>7. M \subseteq ToSet(kids[n])
  <2>1. \A j \in 1 .. i - 1 : j \in DOMAIN kids[n]
    BY <1>5
  <2>. QED
    BY <2>1 DEF ToSet
<1>8. nx # Null => nx \in (ToSet(kids[n]) \ M) \ {x}
  <2>. SUFFICES ASSUME nx # Null PROVE nx \in (ToSet(kids[n]) \ M) \ {x}
    OBVIOUS
  <2>1. nx \in ToSet(kids[n]) \ {x}
    BY <1>1, <1>5, SiblingFacts
  <2>2. \A j \in 1 .. i : nx # kids[n][j]
    BY <1>1, NextLater
  <2>3. \A j \in 1 .. i - 1 : j \in 1 .. i
    BY <1>5
  <2>. QED
    BY <2>1, <2>2, <2>3
<1>9. ToSet(kids[n]) \subseteq Node /\ Null \notin ToSet(kids[n]) /\ Null \notin ToSet(kids[p])
  BY FamilyFacts
<1>10. a \in MutationRecord /\ a.target = n /\ Told(n, ToSet(kids[n]) \ M, a, (ToSet(kids[n]) \ M) \ {x})
  <2>1. PICK v : v = ToSet(kids[n]) \ M
    OBVIOUS
  <2>2. v \in SUBSET Node /\ x \in v /\ (nx # Null => nx \in v \ {x}) /\ (Null = nx => nx = Null)
    BY <1>5, <1>6, <1>8, <1>9, <2>1
  <2>3. a \in MutationRecord /\ a.target = n /\ Told(n, v, a, v \ {x})
    BY ONLY <1>2, <2>2, n \in Node, RemovedTold
  <2>. QED
    BY ONLY <2>1, <2>3
<1>11. b \in MutationRecord /\ b.target = p
       /\ Told(p, ToSet(kids[p]) \cup M, b, (ToSet(kids[p]) \cup M) \cup {x}) /\ \A m, v : m # p => Told(m, v, b, v)
  <2>1. PICK v : v = ToSet(kids[p]) \cup M
    OBVIOUS
  <2>2. Null \notin v /\ x \in Node
    BY <1>5, <1>7, <1>9, <2>1
  <2>3. b \in MutationRecord /\ Told(p, v, b, v \cup {x})
    BY ONLY <1>3, <2>2, p \in Node, AddedTold
  <2>4. b.target = p
    BY <1>3 DEF ChildListAdded
  <2>. QED
    BY <2>1, <2>3, <2>4, ToldElsewhere
<1>12. ASSUME NEW m \in Node
       PROVE  \E u : Told(m, Mid(m, p, M), a, u) /\ Told(m, u, b, Mid(m, p, M \cup {x}))
  <2>1. CASE m = n
    <3>1. Mid(m, p, M) = ToSet(kids[n]) \ M /\ Mid(m, p, M \cup {x}) = (ToSet(kids[n]) \ M) \ {x}
      BY <2>1 DEF Mid
    <3>. QED
      BY <1>10, <1>11, <2>1, <3>1
  <2>2. CASE m = p
    <3>1. Mid(m, p, M) = ToSet(kids[p]) \cup M /\ Mid(m, p, M \cup {x}) = (ToSet(kids[p]) \cup M) \cup {x}
      BY <2>2 DEF Mid
    <3>2. Told(m, Mid(m, p, M), a, Mid(m, p, M))
      BY <1>10, <2>2, ToldElsewhere
    <3>3. Told(m, Mid(m, p, M), b, Mid(m, p, M \cup {x}))
      BY ONLY <1>11, <2>2, <3>1
    <3>. QED
      BY ONLY <3>2, <3>3
  <2>3. CASE m # n /\ m # p
    <3>1. x \notin ToSet(kids[m])
      BY <1>5, <2>3 DEF Family
    <3>2. Mid(m, p, M \cup {x}) = Mid(m, p, M)
      BY <2>3, <3>1 DEF Mid
    <3>3. Told(m, Mid(m, p, M), a, Mid(m, p, M)) /\ Told(m, Mid(m, p, M), b, Mid(m, p, M))
      BY <1>10, <1>11, <2>3, ToldElsewhere
    <3>. QED
      BY <3>2, <3>3
  <2>. QED
    BY <2>1, <2>2, <2>3
<1>13. ASSUME NEW m \in Node
       PROVE  Tale(Mid(m, p, M), About(<<a>> \o <<b>>, m), Mid(m, p, M \cup {x}))
  <2>1. PICK u : Told(m, Mid(m, p, M), a, u) /\ Told(m, u, b, Mid(m, p, M \cup {x}))
    BY <1>12
  <2>. QED
    BY ONLY <1>10, <1>11, <2>1, PairTale
<1>14. <<a>> \o <<b>> \in Seq(MutationRecord)
  <2>. PICK R : R = MutationRecord
    OBVIOUS
  <2>1. a \in R /\ b \in R
    BY <1>10, <1>11
  <2>2. <<a>> \o <<b>> \in Seq(R)
    BY ONLY <2>1
  <2>. QED
    BY <2>2
<1>. QED
  BY ONLY <1>4, <1>13, <1>14

\* One node more, seen through a function.
LEMMA ImageAppend ==
  ASSUME NEW X, NEW Y, NEW f \in [X -> Y], NEW s \in Seq(X)
  PROVE  Image(s, f) \in Seq(Y) /\ \A e \in X : Image(Append(s, e), f) = Append(Image(s, f), f[e])
  BY ONLY f \in [X -> Y], s \in Seq(X), ImageFacts

\* The records of a fragment's children.
LEMMA FragmentTells ==
  ASSUME Family(kids), NEW p \in Node, NEW n \in Fragment, p # n
  PROVE  InsertionTold(p, n)
<1>0. n \in Node
  BY MutationObserversAssumption
<1>1. PICK L : L = kids[n]
  OBVIOUS
<1>2. L \in Seq(Element)
  BY <1>0, <1>1, FamilyFacts
<1>3. PICK X : X = ToSet(L)
  OBVIOUS
<1>4. L \in Seq(X)
  BY <1>2, <1>3, RangeTyped
<1>5. PICK len \in Nat : len = Len(L) /\ DOMAIN L = 1 .. len
  BY <1>4
<1>. PICK R : R = MutationRecord
  OBVIOUS
<1>6. PICK f : f = [x \in X |-> PairOf(p, n, x)]
  OBVIOUS
<1>. DEFINE M(j) == {L[i] : i \in 1 .. j}
<1>7. ASSUME NEW i \in 1 .. len
      PROVE  /\ L[i] \in X /\ f[L[i]] \in Seq(R)
             /\ \A m \in Node : Tale(Mid(m, p, M(i - 1)), About(f[L[i]], m), Mid(m, p, M(i - 1) \cup {L[i]}))
  <2>1. PICK x : x = L[i]
    OBVIOUS
  <2>2. PICK N : N = {kids[n][j] : j \in 1 .. i - 1}
    OBVIOUS
  <2>3. x \in X
    BY <1>3, <1>5, <2>1 DEF ToSet
  <2>4. /\ PairOf(p, n, x) \in Seq(MutationRecord)
        /\ \A m \in Node : Tale(Mid(m, p, N), About(PairOf(p, n, x), m), Mid(m, p, N \cup {x}))
    <3>1. i \in DOMAIN kids[n] /\ x = kids[n][i]
      BY <1>1, <1>5, <2>1
    <3>. QED
      BY ONLY <1>0, <2>2, <3>1, Family(kids), p \in Node, p # n, PairTells
  <2>5. f[x] = PairOf(p, n, x)
    BY ONLY <1>6, <2>3
  <2>6. M(i - 1) = N
    BY ONLY <1>1, <2>2
  <2>. HIDE DEF M
  <2>. QED
    BY ONLY <2>1, <2>3, <2>4, <2>5, <2>6, R = MutationRecord
<1>8. f \in [X -> Seq(R)]
  <2>1. \A x \in X : \E i \in 1 .. len : x = L[i]
    BY <1>3, <1>5 DEF ToSet
  <2>2. \A x \in X : PairOf(p, n, x) \in Seq(R)
    BY ONLY <1>6, <1>7, <2>1
  <2>. QED
    BY ONLY <1>6, <2>2
<1>. DEFINE Flat(j) == FlattenSeq(Image(SubSeq(L, 1, j), f))
            Good(j) == /\ SubSeq(L, 1, j) \in Seq(X)
                       /\ Image(SubSeq(L, 1, j), f) \in Seq(Seq(R)) /\ Flat(j) \in Seq(R)
                       /\ \A m \in Node : Tale(Mid(m, p, {}), About(Flat(j), m), Mid(m, p, M(j)))
            T == {j \in Nat : j <= len => Good(j)}
<1>9. 0 \in T
  <2>1. SubSeq(L, 1, 0) = <<>> /\ <<>> \in Seq(X) /\ <<>> \in Seq(R) /\ M(0) = {} /\ <<>> \in Seq(Seq(R))
    BY <1>4
  <2>2. Image(<<>>, f) = <<>>
    BY DEF Image
  <2>3. FlattenSeq(<<>>) = <<>>
    <3>1. Len(<<>>) = 0
      OBVIOUS
    <3>. QED
      BY ONLY <3>1 DEF FlattenSeq
  <2>4. \A m : About(<<>>, m) = <<>>
    BY ONLY Zenon, KeepingEmpty DEF About
  <2>. HIDE DEF M
  <2>5. Good(0)
    BY ONLY <2>1, <2>2, <2>3, <2>4, TaleNone
  <2>. QED
    BY <2>5
<1>10. ASSUME NEW j \in T PROVE j + 1 \in T
  <2>. SUFFICES ASSUME j + 1 <= len PROVE Good(j + 1)
    <3>. HIDE DEF Good
    <3>. QED
      OBVIOUS
  <2>1. PICK i \in 1 .. len : i = j + 1 /\ i - 1 = j /\ j \in Nat
    OBVIOUS
  <2>2. Good(j)
    <3>. HIDE DEF Good
    <3>. QED
      BY <2>1
  <2>3. PICK q \in Seq(X) : q = SubSeq(L, 1, j)
    BY <2>2
  <2>4. PICK x \in X : x = L[i]
    BY <1>7
  <2>5. SubSeq(L, 1, i) = Append(q, x)
    <3>1. SubSeq(L, 1, i) = [a \in 1 .. i |-> L[a]] /\ q = [a \in 1 .. j |-> L[a]]
      BY ONLY <1>4, <1>5, <2>1, <2>3, j \in Nat
    <3>2. PICK w : w = SubSeq(L, 1, i)
      OBVIOUS
    <3>3. \A a \in 1 .. i : L[a] \in X
      BY ONLY <1>5, <1>7, <2>1
    <3>4. w \in Seq(X) /\ Len(w) = i /\ \A a \in 1 .. i : w[a] = L[a]
      BY ONLY <2>1, <3>1, <3>2, <3>3
    <3>5. PICK z : z = Append(q, x)
      OBVIOUS
    <3>6. Len(q) = j /\ \A a \in 1 .. j : q[a] = L[a]
      BY ONLY <2>1, <3>1, j \in Nat
    <3>7. z \in Seq(X) /\ Len(z) = i /\ z[i] = x /\ \A a \in 1 .. j : z[a] = q[a]
      BY ONLY <2>1, <2>3, <3>5, <3>6, x \in X, AppendEntries
    <3>8. \A a \in 1 .. i : a \in 1 .. j \/ a = i
      BY ONLY <2>1, j \in Nat
    <3>9. \A a \in 1 .. i : w[a] = z[a]
      BY ONLY <2>4, <3>4, <3>6, <3>7, <3>8
    <3>. QED
      BY ONLY <3>2, <3>4, <3>5, <3>7, <3>9, ListsEqual
  <2>6. PICK ss \in Seq(Seq(R)) : ss = Image(q, f)
    BY <2>2, <2>3
  <2>7. PICK y \in Seq(R) : y = f[x]
    BY <1>7, <2>4
  <2>8. Image(Append(q, x), f) = Append(ss, y)
    <3>1. Image(Append(q, x), f) = Append(Image(q, f), f[x])
      <4>1. PICK Y : Y = Seq(R)
        OBVIOUS
      <4>2. f \in [X -> Y]
        BY <1>8, <4>1
      <4>3. Image(q, f) \in Seq(Y) /\ \A e \in X : Image(Append(q, e), f) = Append(Image(q, f), f[e])
        BY ONLY <4>2, q \in Seq(X), ImageAppend
      <4>. QED
        BY ONLY <4>3, x \in X
    <3>. QED
      BY ONLY <2>6, <2>7, <3>1
  <2>9. Append(ss, y) \in Seq(Seq(R)) /\ FlattenSeq(Append(ss, y)) = FlattenSeq(ss) \o y
    BY ONLY ss \in Seq(Seq(R)), y \in Seq(R), FlattenAppend
  <2>10. PICK fl \in Seq(R) : fl = FlattenSeq(ss)
    BY <2>2, <2>3, <2>6
  <2>11. M(i) = M(j) \cup {x}
    <3>1. 1 .. i = (1 .. j) \cup {i}
      BY <2>1
    <3>. QED
      BY ONLY <2>4, <3>1
  <2>12. Append(q, x) \in Seq(X)
    BY ONLY q \in Seq(X), x \in X
  <2>. HIDE DEF M
  <2>13. ASSUME NEW m \in Node PROVE Tale(Mid(m, p, {}), About(fl \o y, m), Mid(m, p, M(i))) /\ fl \o y \in Seq(R)
    <3>1. Tale(Mid(m, p, {}), About(fl, m), Mid(m, p, M(j)))
      BY ONLY <2>2, <2>3, <2>6, <2>10, m \in Node
    <3>2. Tale(Mid(m, p, M(j)), About(y, m), Mid(m, p, M(j) \cup {x}))
      BY ONLY <1>7, <2>1, <2>4, <2>7, m \in Node
    <3>. QED
      BY ONLY <2>11, <3>1, <3>2, fl \in Seq(R), y \in Seq(R), R = MutationRecord, AboutTale
  <2>14. fl \o y \in Seq(R)
    BY ONLY fl \in Seq(R), y \in Seq(R)
  <2>15. Good(i)
    BY ONLY <2>5, <2>8, <2>9, <2>10, <2>12, <2>13, <2>14
  <2>. QED
    BY ONLY <2>1, <2>15
<1>11. T = Nat
  <2>. HIDE DEF T
  <2>1. T \in SUBSET Nat
    BY DEF T
  <2>. QED
    BY <1>9, <1>10, <2>1, SetInduction
<1>12. Good(len)
  <2>. HIDE DEF Good
  <2>1. len \in {j \in Nat : j <= len => Good(j)} /\ len <= len
    BY <1>11
  <2>. QED
    BY <2>1
<1>13. SubSeq(L, 1, len) = L
  BY ONLY <1>4, <1>5
<1>14. InsertionRecords(p, n) = FlattenSeq(Image(L, f))
  <2>1. PICK ss : ss = [i \in DOMAIN L |-> PairOf(p, n, L[i])]
    OBVIOUS
  <2>2. InsertionRecords(p, n) = FlattenSeq(ss)
    BY ONLY <1>1, <2>1, n \in Fragment, Zenon DEF InsertionRecords, PairOf
  <2>3. \A i \in DOMAIN L : PairOf(p, n, L[i]) = f[L[i]]
    BY <1>5, <1>6, <1>7
  <2>4. ss = Image(L, f)
    BY ONLY <2>1, <2>3, Zenon DEF Image
  <2>. QED
    BY ONLY <2>2, <2>4
<1>15. M(len) = ToSet(Moving(n)) /\ \A m \in Node : Mid(m, p, {}) = ToSet(kids[m])
  <2>1. Moving(n) = L
    BY <1>1 DEF Moving
  <2>2. M(len) = ToSet(L)
    BY <1>5 DEF ToSet
  <2>3. \A m \in Node : Mid(m, p, {}) = ToSet(kids[m])
    BY DEF Mid
  <2>. QED
    BY <2>1, <2>2, <2>3
<1>. HIDE DEF M
<1>16. InsertionRecords(p, n) = Flat(len)
  BY ONLY <1>13, <1>14
<1>. HIDE DEF Flat
<1>. QED
  BY ONLY <1>12, <1>15, <1>16, R = MutationRecord DEF InsertionTold

\* The record of a child that is taken from its parent.
LEMMA TakenTold ==
  ASSUME Family(kids), NEW q \in Node, NEW x \in ToSet(kids[q]),
         NEW r, r = ChildListRemoved(q, x, PreviousSibling(kids, x), NextSibling(kids, x))
  PROVE  r \in MutationRecord /\ r.target = q /\ Told(q, ToSet(kids[q]), r, ToSet(kids[q]) \ {x})
<1>1. PICK pv : pv = PreviousSibling(kids, x)
  OBVIOUS
<1>2. PICK nx : nx = NextSibling(kids, x)
  OBVIOUS
<1>3. (pv # Null => pv \in ToSet(kids[q]) \ {x}) /\ (nx # Null => nx \in ToSet(kids[q]) \ {x}) /\ (pv = nx => pv = Null)
  BY <1>1, <1>2, SiblingFacts
<1>4. ToSet(kids[q]) \in SUBSET Node
  BY FamilyFacts
<1>5. PICK v : v = ToSet(kids[q])
  OBVIOUS
<1>6. PICK c \in Node : c = x
  BY <1>4
<1>7. /\ v \in SUBSET Node /\ c \in v /\ r = ChildListRemoved(q, c, pv, nx)
      /\ (pv # Null => pv \in v \ {c}) /\ (nx # Null => nx \in v \ {c}) /\ (pv = nx => pv = Null)
  BY <1>1, <1>2, <1>3, <1>4, <1>5, <1>6
<1>8. r \in MutationRecord /\ r.target = q /\ Told(q, v, r, v \ {c})
  BY <1>7, RemovedTold
<1>. QED
  BY ONLY <1>5, <1>6, <1>8

\* The records of a single node.
LEMMA ElementTells ==
  ASSUME Family(kids), NEW p \in Node, NEW n \in Node \ Fragment, p # n
  PROVE  InsertionTold(p, n)
<1>1. PICK q : q = Owner(kids, n)
  OBVIOUS
<1>2. PICK a : a = ChildListRemoved(q, n, PreviousSibling(kids, n), NextSibling(kids, n))
  OBVIOUS
<1>3. PICK b : b = ChildListAdded(p, n)
  OBVIOUS
<1>4. InsertionRecords(p, n) = (IF q = Null THEN <<>> ELSE <<a>>) \o <<b>>
  BY <1>1, <1>2, <1>3, n \notin Fragment, Zenon DEF InsertionRecords
<1>5. ToSet(Moving(n)) = {n}
  BY DEF Moving, ToSet
<1>6. \A m \in Node : Null \notin ToSet(kids[m]) /\ ToSet(kids[m]) \subseteq Node
  BY FamilyFacts
<1>7. \A m \in Node : n \in ToSet(kids[m]) <=> q = m
  BY <1>1, OwnerFacts
<1>8. ASSUME NEW m \in Node, NEW u, u = ToSet(kids[m]) \ {n} PROVE Told(m, u, b, Mid(m, p, {n})) /\ b \in MutationRecord
  <2>1. Null \notin u
    BY <1>6, <1>8
  <2>2. b \in MutationRecord /\ Told(p, u, b, u \cup {n}) /\ (m # p => Told(m, u, b, u))
    BY ONLY <1>3, <2>1, p \in Node, n \in Node, m \in Node, AddedTold
  <2>3. Mid(m, p, {n}) = IF m = p THEN u \cup {n} ELSE u
    BY <1>8 DEF Mid
  <2>. QED
    BY ONLY <2>2, <2>3
<1>9. CASE q = Null
  <2>1. PICK R : R = MutationRecord
    OBVIOUS
  <2>2. b \in R
    BY <1>8, <2>1
  <2>3. InsertionRecords(p, n) = <<b>>
    BY ONLY <1>4, <1>9, <2>2
  <2>4. ASSUME NEW m \in Node PROVE Tale(ToSet(kids[m]), About(<<b>>, m), Mid(m, p, {n})) /\ <<b>> \in Seq(MutationRecord)
    <3>1. ToSet(kids[m]) = ToSet(kids[m]) \ {n}
      BY <1>7, <1>9, MutationObserversAssumption
    <3>2. Told(m, ToSet(kids[m]), b, Mid(m, p, {n}))
      BY <1>8, <3>1
    <3>. QED
      BY ONLY <2>1, <2>2, <3>2, ToldTale
  <2>. QED
    BY ONLY <1>5, <2>3, <2>4, p \in Node DEF InsertionTold
<1>10. CASE q # Null
  <2>1. InsertionRecords(p, n) = <<a>> \o <<b>>
    BY ONLY <1>4, <1>10
  <2>2. q \in Node /\ n \in ToSet(kids[q])
    BY <1>1, <1>10, OwnerFacts
  <2>3. a \in MutationRecord /\ a.target = q /\ Told(q, ToSet(kids[q]), a, ToSet(kids[q]) \ {n})
    <3>. QED
      BY <1>2, <2>2, TakenTold
  <2>4. ASSUME NEW m \in Node
        PROVE  <<a>> \o <<b>> \in Seq(MutationRecord) /\ Tale(ToSet(kids[m]), About(<<a>> \o <<b>>, m), Mid(m, p, {n}))
    <3>1. PICK u : u = ToSet(kids[m]) \ {n}
      OBVIOUS
    <3>2. Told(m, u, b, Mid(m, p, {n})) /\ b \in MutationRecord
      BY <1>8, <3>1
    <3>3. Told(m, ToSet(kids[m]), a, u)
      <4>1. CASE m = q
        BY <2>3, <3>1, <4>1
      <4>2. CASE m # q
        <5>1. u = ToSet(kids[m])
          BY <1>7, <3>1, <4>2
        <5>. QED
          BY <2>3, <4>2, <5>1, ToldElsewhere
      <4>. QED
        BY <4>1, <4>2
    <3>. QED
      BY ONLY <2>3, <3>2, <3>3, PairTale
  <2>. QED
    BY ONLY <1>5, <2>1, <2>4, p \in Node DEF InsertionTold
<1>. QED
  BY <1>9, <1>10

\* The records of the node that replaces a child.
LEMMA InsertionTells ==
  ASSUME Family(kids), NEW p \in Node, NEW n \in Node, p # n
  PROVE  InsertionTold(p, n)
BY ElementTells, FragmentTells

\* The old child has gone from between the siblings that its record names.
LEMMA RemovalTold ==
  ASSUME Family(kids), NEW p \in Node, NEW c \in ToSet(kids[p]), NEW n \in Node, p # n, n # c,
         NEW M, M = ToSet(Moving(n)), NEW r, r = RemovalRecord(p, c, n)
  PROVE  /\ r \in MutationRecord /\ r.target = p /\ c \notin M
         /\ Told(p, ToSet(kids[p]) \cup M, r, (ToSet(kids[p]) \cup M) \ {c})
<1>1. PICK pv : pv = IF Moving(n) = <<>> THEN PreviousSibling(kids, c) ELSE Last(Moving(n))
  OBVIOUS
<1>2. PICK nx : nx = IF NextSibling(kids, c) = n THEN NextSibling(kids, n) ELSE NextSibling(kids, c)
  OBVIOUS
<1>3. r = ChildListRemoved(p, c, pv, nx)
  BY ONLY <1>1, <1>2, r = RemovalRecord(p, c, n), Zenon DEF RemovalRecord
<1>4. /\ Moving(n) \in Seq(Element)
      /\ \A x \in ToSet(kids[p]) : x # n => x \notin M
  BY MovingFacts
<1>5. M \subseteq Node /\ Null \notin M /\ ToSet(kids[p]) \subseteq Node /\ Null \notin ToSet(kids[p]) /\ Null \notin Node
  <2>1. M \subseteq Element
    <3>1. PICK X : X = Element
      OBVIOUS
    <3>2. PICK xs : xs = Moving(n)
      OBVIOUS
    <3>3. xs \in Seq(X) /\ M = ToSet(xs)
      BY <1>4, <3>1, <3>2
    <3>4. M \subseteq X
      BY ONLY <3>3 DEF ToSet
    <3>. QED
      BY <3>1, <3>4
  <2>. QED
    BY <2>1, FamilyFacts, MutationObserversAssumption DEF Element
<1>6. c \notin M
  BY <1>4
<1>7. NextSibling(kids, c) = n => n \in ToSet(kids[p])
  BY <1>5, SiblingFacts
<1>8. nx # Null => nx \in ToSet(kids[p]) /\ nx # c /\ nx # n
  <2>1. CASE NextSibling(kids, c) = n
    <3>1. NextSibling(kids, n) # Null => NextSibling(kids, n) \in ToSet(kids[p]) \ {n}
      BY <1>7, <2>1, SiblingFacts
    <3>2. NextSibling(kids, NextSibling(kids, c)) # c
      BY <1>5, <2>1, SiblingFacts
    <3>. QED
      BY <1>2, <2>1, <3>1, <3>2
  <2>2. CASE NextSibling(kids, c) # n
    <3>1. NextSibling(kids, c) # Null => NextSibling(kids, c) \in ToSet(kids[p]) \ {c}
      BY SiblingFacts
    <3>. QED
      BY <1>2, <2>2, <3>1
  <2>. QED
    BY <2>1, <2>2
<1>10. PICK v : v = ToSet(kids[p]) \cup M
  OBVIOUS
<1>11. (pv # Null => pv \in v \ {c}) /\ (pv = nx => pv = Null)
  <2>1. CASE Moving(n) = <<>>
    <3>1. pv = PreviousSibling(kids, c) /\ nx = NextSibling(kids, c)
      <4>1. n \in Fragment
        <5>1. n \notin Fragment => Moving(n) = <<n>>
          BY DEF Moving
        <5>2. <<n>> # <<>>
          OBVIOUS
        <5>. QED
          BY <2>1, <5>1, <5>2
      <4>2. n \notin ToSet(kids[p])
        BY <4>1, FamilyFacts DEF Element
      <4>. QED
        BY <1>1, <1>2, <1>7, <2>1, <4>2
    <3>. QED
      BY <1>10, <3>1, SiblingFacts
  <2>2. CASE Moving(n) # <<>>
    <3>1. pv \in M
      <4>1. PICK X : X = Element
        OBVIOUS
      <4>2. PICK xs : xs = Moving(n)
        OBVIOUS
      <4>3. xs \in Seq(X) /\ xs # <<>> /\ M = ToSet(xs) /\ pv = xs[Len(xs)]
        BY <1>1, <1>4, <2>2, <4>1, <4>2 DEF Last
      <4>4. Len(xs) \in DOMAIN xs
        BY ONLY <4>3
      <4>. QED
        BY ONLY <4>3, <4>4 DEF ToSet
    <3>2. nx # Null => nx \notin M
      BY <1>4, <1>8
    <3>. QED
      BY <1>5, <1>6, <1>10, <3>1, <3>2
  <2>. QED
    BY <2>1, <2>2
<1>12. v \in SUBSET Node /\ c \in v /\ (nx # Null => nx \in v \ {c})
  BY <1>5, <1>8, <1>10
<1>13. r \in MutationRecord /\ r.target = p /\ Told(p, v, r, v \ {c})
  BY <1>3, <1>11, <1>12, RemovedTold
<1>. QED
  BY ONLY <1>6, <1>10, <1>13

\* What the nodes hold when c has been replaced.
LEMMA ReplacedFacts ==
  ASSUME Family(kids), NEW p \in Node, NEW c \in ToSet(kids[p]), NEW n \in Node, p # n, n # c, p = Owner(kids, c),
         NEW M, M = ToSet(Moving(n)), c \notin M
  PROVE  /\ Family(ReplacedKids(c, n))
         /\ \A m \in Node : ToSet(ReplacedKids(c, n)[m]) = IF m = p THEN Mid(p, p, M) \ {c} ELSE Mid(m, p, M)
<1>1. PICK xs : xs = Moving(n)
  OBVIOUS
<1>2. xs \in Seq(Element) /\ IsInjective(xs) /\ ToSet(xs) = M
  BY <1>1, MovingFacts
<1>3. PICK k : k = Without(kids, M)
  OBVIOUS
<1>4. Family(k) /\ \A m \in Node : ToSet(k[m]) = ToSet(kids[m]) \ M
  BY <1>3, WithoutFacts
<1>5. PICK k2 : k2 = [k EXCEPT ![p] = PutBefore(@, c, xs)]
  OBVIOUS
<1>6. PutsIn(k, p, c, xs, k2)
  <2>1. c \in ToSet(k[p]) /\ \A m \in Node : ToSet(xs) \cap ToSet(k[m]) = {}
    BY <1>2, <1>4
  <2>. QED
    BY ONLY <1>2, <1>4, <1>5, <2>1, p \in Node, Zenon DEF PutsIn
<1>7. Family(k2) /\ \A m \in Node : ToSet(k2[m]) = IF m = p THEN ToSet(k[p]) \cup ToSet(xs) ELSE ToSet(k[m])
  <2>1. Holds(k, p, xs, k2)
    BY ONLY <1>6, PutFacts
  <2>. QED
    BY ONLY <2>1 DEF Holds
<1>8. PICK k3 : k3 = Without(k2, {c})
  OBVIOUS
<1>9. Family(k3) /\ \A m \in Node : ToSet(k3[m]) = ToSet(k2[m]) \ {c}
  BY <1>7, <1>8, WithoutFacts
<1>10. ReplacedKids(c, n) = k3
  BY ONLY <1>1, <1>3, <1>5, <1>8, p = Owner(kids, c), M = ToSet(Moving(n)), Zenon DEF ReplacedKids
<1>11. \A m \in Node : c \in ToSet(kids[m]) => m = p
  BY OwnerFacts
<1>12. ASSUME NEW m \in Node PROVE ToSet(k3[m]) = IF m = p THEN Mid(p, p, M) \ {c} ELSE Mid(m, p, M)
  <2>1. CASE m = p
    <3>1. ToSet(k3[m]) = ((ToSet(kids[p]) \ M) \cup M) \ {c}
      BY <1>2, <1>4, <1>7, <1>9, <2>1
    <3>. QED
      BY <2>1, <3>1 DEF Mid
  <2>2. CASE m # p
    <3>1. ToSet(k3[m]) = (ToSet(kids[m]) \ M) \ {c}
      BY <1>4, <1>7, <1>9, <2>2
    <3>. QED
      BY <1>11, <2>2, <3>1 DEF Mid
  <2>. QED
    BY <2>1, <2>2
<1>. QED
  BY ONLY <1>9, <1>10, <1>12

\* replace_child queues what it does to the children.
LEMMA ReplaceChildPlaced ==
  ASSUME Family(kids), Grounded(kids), NEW c \in Node, NEW n \in Node, ReplaceChild(c, n)
  PROVE  Placed
<1>1. PICK p : p = Owner(kids, c)
  OBVIOUS
<1>2. /\ p # Null /\ n # c /\ Holdable(p, n)
      /\ Mutate([kids |-> ReplacedKids(c, n), log |-> InTree(ReplacedKids(c, n), ReplacementRecords(c, n))])
  BY <1>1, Zenon DEF ReplaceChild
<1>3. p \in Node /\ c \in ToSet(kids[p]) /\ p # n
  BY <1>1, <1>2, OwnerFacts, HoldableApart
<1>4. PICK M : M = ToSet(Moving(n))
  OBVIOUS
<1>5. PICK r : r = RemovalRecord(p, c, n)
  OBVIOUS
<1>6. /\ r \in MutationRecord /\ r.target = p /\ c \notin M
      /\ Told(p, Mid(p, p, M), r, Mid(p, p, M) \ {c})
  <2>1. Mid(p, p, M) = ToSet(kids[p]) \cup M
    BY DEF Mid
  <2>. QED
    BY <1>2, <1>3, <1>4, <1>5, <2>1, RemovalTold
<1>7. PICK k : k = ReplacedKids(c, n)
  OBVIOUS
<1>8. Family(k) /\ \A m \in Node : ToSet(k[m]) = IF m = p THEN Mid(p, p, M) \ {c} ELSE Mid(m, p, M)
  BY ONLY <1>1, <1>2, <1>3, <1>4, <1>6, <1>7, Family(kids), n \in Node, ReplacedFacts
<1>9. PICK is : is = InsertionRecords(p, n)
  OBVIOUS
<1>10. is \in Seq(MutationRecord) /\ \A m \in Node : Tale(ToSet(kids[m]), About(is, m), Mid(m, p, M))
  <2>1. InsertionTold(p, n)
    BY <1>3, InsertionTells
  <2>. QED
    BY ONLY <1>4, <1>9, <2>1 DEF InsertionTold
<1>11. PICK rs : rs = is \o <<r>>
  OBVIOUS
<1>12. ASSUME NEW m \in Node PROVE rs \in Seq(MutationRecord) /\ Tale(ToSet(kids[m]), About(rs, m), ToSet(k[m]))
  <2>1. Told(m, Mid(m, p, M), r, ToSet(k[m]))
    <3>1. CASE m = p
      <4>1. ToSet(k[m]) = Mid(p, p, M) \ {c}
        BY ONLY <1>8, m \in Node, <3>1
      <4>. QED
        BY ONLY <1>6, <3>1, <4>1
    <3>2. CASE m # p
      <4>1. ToSet(k[m]) = Mid(m, p, M)
        BY ONLY <1>8, m \in Node, <3>2
      <4>. QED
        BY ONLY <1>6, <3>2, <4>1, ToldElsewhere
    <3>. QED
      BY <3>1, <3>2
  <2>2. <<r>> \in Seq(MutationRecord) /\ Tale(Mid(m, p, M), About(<<r>>, m), ToSet(k[m]))
    BY ONLY <1>6, <2>1, ToldTale
  <2>. QED
    BY ONLY <1>10, <1>11, <2>2, m \in Node, AboutTale
<1>13. PICK more : more = InTree(k, rs)
  OBVIOUS
<1>14. more \in LogOf /\ Recs(more) = rs
  <2>1. k \in Trees
    BY <1>8 DEF Family
  <2>2. rs \in Seq(MutationRecord)
    BY <1>3, <1>12
  <2>. QED
    BY ONLY <1>13, <2>1, <2>2, InTreeFacts DEF LogOf
<1>15. PICK s2 : s2 = [kids |-> k, log |-> more]
  OBVIOUS
<1>16. Begun.log \o more = more /\ s2 = [kids |-> k, log |-> Begun.log \o more]
  <2>1. Begun.log = <<>>
    BY DEF Begun
  <2>2. PICK E : E = Entries(Trees)
    OBVIOUS
  <2>3. more \in Seq(E)
    BY <1>14, <2>2 DEF LogOf
  <2>4. <<>> \o more = more
    BY ONLY <2>3
  <2>. QED
    BY ONLY <1>15, <2>1, <2>4
<1>17. Tells(kids, Begun) /\ Begun.kids = kids
  BY BegunTells
<1>18. \A m \in Node : Tale(ToSet(Begun.kids[m]), About(Recs(more), m), ToSet(k[m]))
  BY ONLY <1>12, <1>14, <1>17
<1>19. Tells(kids, s2)
  BY ONLY <1>8, <1>14, <1>16, <1>17, <1>18, TellsMore
<1>20. ReplacementRecords(c, n) = rs
  BY ONLY <1>1, <1>5, <1>9, <1>11 DEF ReplacementRecords
<1>21. Mutate(s2)
  BY ONLY <1>2, <1>7, <1>13, <1>15, <1>20
<1>22. InPlace(kids, s2)
  BY <1>13, <1>15, InTreeKids, SteadyItself DEF InPlace
<1>23. Grounded(k)
  <2>1. M \in SUBSET Node /\ \A x \in M : p \notin Sub(kids, x)
    BY <1>2, <1>3, <1>4, MovingLevel
  <2>2. \A m \in Node : ToSet(k[m]) \subseteq ToSet(kids[m]) \cup (IF m = p THEN M ELSE {})
    BY <1>8 DEF Mid
  <2>3. kids \in Trees
    BY DEF Family
  <2>. QED
    BY ONLY <1>3, <2>1, <2>2, <2>3, Grounded(kids), Regrown
<1>. QED
  BY <1>15, <1>19, <1>21, <1>22, <1>23 DEF Placed



\* The calls that mutate.
Mutations ==
  \/ \E p, n \in Node, ref \in Links : InsertBefore(p, n, ref)
  \/ \E c \in Node : RemoveChild(c)
  \/ \E c, n \in Node : ReplaceChild(c, n)
  \/ \E p \in Node : ReplaceChildren(p, <<>>)
  \/ \E p, x \in Node : ReplaceChildren(p, <<x>>)
  \/ \E el \in Node : SetAttribute(el)
  \/ \E el \in Node : SetInputValue(el)
  \/ \E p \in Node : \E from, to \in 1 .. Len(kids[p]) + 1 : RangeDeleteContents(p, from, to)
  \/ \E p, n \in Node : \E at \in 1 .. Len(kids[p]) + 1 : RangeInsertNode(p, at, n)

\* All of them queue what they do, where it is seen.
LEMMA MutationsPlaced ==
  ASSUME Family(kids), Grounded(kids), Mutations PROVE Placed
<1>1. ASSUME NEW p \in Node, NEW from \in 1 .. Len(kids[p]) + 1, NEW to \in 1 .. Len(kids[p]) + 1, RangeDeleteContents(p, from, to)
      PROVE  Placed
  <2>1. from \in Nat /\ to \in Nat
    OBVIOUS
  <2>. QED
    BY <1>1, <2>1, RangeDeleteContentsPlaced
<1>2. ASSUME NEW p \in Node, NEW n \in Node, NEW at \in 1 .. Len(kids[p]) + 1, RangeInsertNode(p, at, n) PROVE Placed
  <2>1. at \in Nat
    OBVIOUS
  <2>. QED
    BY <1>2, <2>1, RangeInsertNodePlaced
<1>3. ASSUME NEW p \in Node, ReplaceChildren(p, <<>>) \/ \E x \in Node : ReplaceChildren(p, <<x>>) PROVE Placed
  BY <1>3, ReplaceChildrenPlaced
<1>. QED
  BY <1>1, <1>2, <1>3, InsertBeforePlaced, RemoveChildPlaced, ReplaceChildPlaced, SetAttributePlaced DEF Mutations

-----------------------------------------------------------------------------
(***************************************************************************)
(* What the records say.                                                   *)
(***************************************************************************)
\* The records of obs tell the children its target has in k to who has seen them as seen.
Honest(k, seen, obs) ==
  seen # {Null} =>
    "childList" \in obs.types /\ Tale(seen, About(obs.records, obs.target), ToSet(k[obs.target]))

AllHonest(w, k, seen) ==
  \A o \in Observer : \A i \in DOMAIN w[o] :
    w[o][i] \in Observation /\ Honest(k, seen[w[o][i].key], w[o][i])

\* An observer observes a target once, and two observers have no key in common.
AllApart(w) ==
  /\ \A o \in Observer : \A i, j \in DOMAIN w[o] : w[o][i].target = w[o][j].target => i = j
  /\ \A o, p \in Observer : \A i \in DOMAIN w[o] : \A j \in DOMAIN w[p] :
       w[o][i].key = w[p][j].key => o = p

Views == [ObservationKey -> SUBSET Links]

RestTyped ==
  /\ nextKey <= MaxKeys /\ callbacks \subseteq Observer
  /\ phase \in {"open", "closed", "destroyed"} /\ view \in Views

RInv ==
  /\ Family(kids) /\ RestTyped
  /\ AllHonest(watch, kids, view) /\ AllApart(watch)

-----------------------------------------------------------------------------
(***************************************************************************)
(* One observation.                                                        *)
(***************************************************************************)
LEMMA ObservationFacts ==
  ASSUME NEW obs \in Observation
  PROVE  /\ obs.key \in ObservationKey /\ obs.target \in Node /\ obs.records \in Seq(MutationRecord)
         /\ obs.types \in SUBSET RecordType /\ obs.subtree \in BOOLEAN /\ obs.microtaskQueued \in BOOLEAN
BY DEF Observation

\* An observation that is told of a mutation.
Hearing(obs, log) == [obs EXCEPT !.records = obs.records \o RecordsFor(obs, log)]

\* The records of a mutation are queued.
LEMMA QueuedHonest ==
  ASSUME NEW s, Tells(kids, s), NEW obs \in Observation, NEW seen, Honest(kids, seen, obs),
         NEW e, e = Hearing(obs, s.log)
  PROVE  e \in Observation /\ e.key = obs.key /\ e.target = obs.target /\ Honest(s.kids, seen, e)
<1>1. PICK rs : rs = obs.records
  OBVIOUS
<1>2. PICK us : us = RecordsFor(obs, s.log)
  OBVIOUS
<1>3. PICK n : n = obs.target
  OBVIOUS
<1>4. rs \in Seq(MutationRecord) /\ n \in Node
  BY ONLY <1>1, <1>3, obs \in Observation, ObservationFacts
<1>5. /\ us \in Seq(MutationRecord)
      /\ "childList" \in obs.types => About(us, n) = About(Recs(s.log), n)
  <2>1. s.log \in Seq(Entries(Trees))
    BY DEF Tells, LogOf
  <2>. QED
    BY ONLY <1>2, <1>3, <2>1, HeardAll
<1>6. PICK ws : ws = rs \o us
  OBVIOUS
<1>7. ws \in Seq(MutationRecord)
  BY ONLY <1>4, <1>5, <1>6, AboutConcat
<1>8. e = [obs EXCEPT !.records = ws]
  BY ONLY <1>1, <1>2, <1>6, e = Hearing(obs, s.log) DEF Hearing
<1>9. e \in Observation /\ e.key = obs.key /\ e.target = n /\ e.types = obs.types /\ e.records = ws
  BY ONLY <1>3, <1>7, <1>8, obs \in Observation DEF Observation
<1>10. Honest(s.kids, seen, e)
  <2>. SUFFICES ASSUME seen # {Null}
                PROVE  "childList" \in e.types /\ Tale(seen, About(e.records, e.target), ToSet(s.kids[e.target]))
    BY DEF Honest
  <2>1. "childList" \in obs.types /\ Tale(seen, About(rs, n), ToSet(kids[n]))
    BY <1>1, <1>3 DEF Honest
  <2>2. Tale(ToSet(kids[n]), About(us, n), ToSet(s.kids[n]))
    BY ONLY <1>4, <1>5, <2>1, Tells(kids, s) DEF Tells
  <2>3. Tale(seen, About(ws, n), ToSet(s.kids[n]))
    BY ONLY <1>4, <1>5, <1>6, <2>1, <2>2, AboutTale
  <2>. QED
    BY ONLY <1>9, <2>1, <2>3
<1>. QED
  BY ONLY <1>3, <1>9, <1>10

\* The mark says nothing.
LEMMA MarkHonest ==
  ASSUME NEW obs \in Observation, NEW k, NEW seen, Honest(k, seen, obs), NEW b \in BOOLEAN,
         NEW e, e = [obs EXCEPT !.microtaskQueued = b]
  PROVE  e \in Observation /\ e.key = obs.key /\ e.target = obs.target /\ Honest(k, seen, e)
<1>1. /\ e \in Observation /\ e.key = obs.key /\ e.target = obs.target /\ e.types = obs.types
      /\ e.records = obs.records
  BY DEF Observation
<1>. QED
  BY <1>1 DEF Honest

\* What was handed over is not told again.
LEMMA DrainedHonest ==
  ASSUME NEW obs \in Observation, NEW k, NEW seen,
         seen # {Null} => "childList" \in obs.types /\ seen = ToSet(k[obs.target]),
         NEW e, e = [obs EXCEPT !.records = <<>>] \/ e = [obs EXCEPT !.records = <<>>, !.microtaskQueued = FALSE]
  PROVE  e \in Observation /\ e.key = obs.key /\ e.target = obs.target /\ Honest(k, seen, e)
<1>1. <<>> \in Seq(MutationRecord)
  BY ONLY TRUE
<1>2. /\ e \in Observation /\ e.key = obs.key /\ e.target = obs.target /\ e.types = obs.types /\ e.records = <<>>
  BY <1>1 DEF Observation
<1>3. About(e.records, e.target) = <<>>
  <2>1. About(<<>>, e.target) = <<>>
    BY ONLY Zenon, KeepingEmpty DEF About
  <2>. QED
    BY <1>2, <2>1
<1>4. Tale(seen, <<>>, seen)
  BY TaleNone
<1>. QED
  BY <1>2, <1>3, <1>4 DEF Honest

\* What an honest observation tells.
LEMMA HonestTells ==
  ASSUME NEW obs \in Observation, NEW k, NEW seen, Honest(k, seen, obs), seen # {Null}, NEW rs, rs = About(obs.records, obs.target)
  PROVE  /\ "childList" \in obs.types /\ Replayed(seen, rs) = ToSet(k[obs.target])
         /\ \A i \in DOMAIN rs : SiblingsIn(Replayed(seen, SubSeq(rs, 1, i - 1)), rs[i])
<1>1. "childList" \in obs.types /\ Tale(seen, rs, ToSet(k[obs.target]))
  BY DEF Honest
<1>2. PICK R : R = MutationRecord
  OBVIOUS
<1>3. rs \in Seq(R)
  <2>1. obs.records \in Seq(MutationRecord)
    BY ObservationFacts
  <2>2. rs \in Seq(MutationRecord)
    BY ONLY <2>1, rs = About(obs.records, obs.target), AboutConcat
  <2>. QED
    BY <1>2, <2>2
<1>. QED
  BY ONLY <1>1, <1>3, seen # {Null}, TaleTells

-----------------------------------------------------------------------------
(***************************************************************************)
(* A step that leaves the observations where they are.                     *)
(***************************************************************************)
LEMMA ApartStill ==
  ASSUME AllApart(watch), NEW w,
         \A o \in Observer : \A i \in DOMAIN w[o] :
           i \in DOMAIN watch[o] /\ w[o][i].key = watch[o][i].key /\ w[o][i].target = watch[o][i].target
  PROVE  AllApart(w)
<1>1. ASSUME NEW o \in Observer, NEW i \in DOMAIN w[o], NEW j \in DOMAIN w[o], w[o][i].target = w[o][j].target
      PROVE  i = j
  BY <1>1 DEF AllApart
<1>2. ASSUME NEW o \in Observer, NEW p \in Observer, NEW i \in DOMAIN w[o], NEW j \in DOMAIN w[p], w[o][i].key = w[p][j].key
      PROVE  o = p
  BY <1>2 DEF AllApart
<1>. QED
  BY <1>1, <1>2 DEF AllApart

\* A mutation whose records tell it.
LEMMA TellingStep ==
  ASSUME RInv, Telling
  PROVE  RInv'
<1>1. PICK s : Tells(kids, s) /\ (Mutate(s) \/ MutateOnly(s))
  BY DEF Telling
<1>2. PICK q : q = Queued(s.log)
  OBVIOUS
<1>3. PICK k : k = s.kids
  OBVIOUS
<1>4. /\ kids' = k /\ (watch' = q \/ watch' = Flagged(q))
      /\ UNCHANGED <<nextKey, callbacks, phase, view>>
  BY <1>1, <1>2, <1>3, Zenon DEF Mutate, MutateOnly, Schedule
<1>5. Family(k)
  BY <1>1, <1>3 DEF Tells
<1>6. ASSUME NEW o \in Observer
      PROVE  /\ q[o] = [i \in DOMAIN watch[o] |-> q[o][i]]
             /\ \A i \in DOMAIN watch[o] :
                  q[o][i] = [watch[o][i] EXCEPT !.records = watch[o][i].records \o RecordsFor(watch[o][i], s.log)]
  BY <1>2, Zenon DEF Queued
<1>7. ASSUME NEW o \in Observer, NEW i \in DOMAIN watch[o]
      PROVE  /\ q[o][i] \in Observation /\ q[o][i].key = watch[o][i].key /\ q[o][i].target = watch[o][i].target
             /\ Honest(k, view[watch[o][i].key], q[o][i])
  <2>1. PICK obs : obs = watch[o][i]
    OBVIOUS
  <2>2. PICK seen : seen = view[obs.key]
    OBVIOUS
  <2>3. obs \in Observation /\ Honest(kids, seen, obs)
    BY <2>1, <2>2 DEF RInv, AllHonest
  <2>4. PICK e : e = q[o][i]
    OBVIOUS
  <2>5. e = Hearing(obs, s.log)
    BY <1>6, <2>1, <2>4 DEF Hearing
  <2>6. e \in Observation /\ e.key = obs.key /\ e.target = obs.target /\ Honest(s.kids, seen, e)
    <3>1. Tells(kids, s)
      BY <1>1
    <3>. QED
      BY ONLY <2>3, <2>5, <3>1, QueuedHonest
  <2>. QED
    BY ONLY <1>3, <2>1, <2>2, <2>4, <2>6
<1>8. PICK w : w = watch'
  OBVIOUS
<1>9. ASSUME NEW o \in Observer
      PROVE  /\ DOMAIN w[o] = DOMAIN watch[o]
             /\ \A i \in DOMAIN watch[o] :
                  /\ w[o][i] \in Observation /\ w[o][i].key = watch[o][i].key /\ w[o][i].target = watch[o][i].target
                  /\ Honest(k, view[watch[o][i].key], w[o][i])
  <2>1. CASE watch' = q
    <3>1. DOMAIN q[o] = DOMAIN watch[o]
      BY <1>6, Zenon
    <3>. QED
      BY <1>7, <1>8, <2>1, <3>1
  <2>2. CASE watch' = Flagged(q)
    <3>1. /\ w[o] = [i \in DOMAIN q[o] |-> w[o][i]]
          /\ \A i \in DOMAIN q[o] : w[o][i] = [q[o][i] EXCEPT !.microtaskQueued = q[o][i].microtaskQueued \/ Pending(q[o][i])]
      BY <1>8, <2>2, Zenon DEF Flagged
    <3>2. DOMAIN q[o] = DOMAIN watch[o] /\ DOMAIN w[o] = DOMAIN watch[o]
      BY <1>6, <3>1, Zenon
    <3>3. ASSUME NEW i \in DOMAIN watch[o]
          PROVE  /\ w[o][i] \in Observation /\ w[o][i].key = watch[o][i].key /\ w[o][i].target = watch[o][i].target
                 /\ Honest(k, view[watch[o][i].key], w[o][i])
      <4>1. PICK e : e = q[o][i]
        OBVIOUS
      <4>2. PICK seen : seen = view[watch[o][i].key]
        OBVIOUS
      <4>3. e \in Observation /\ Honest(k, seen, e) /\ e.key = watch[o][i].key /\ e.target = watch[o][i].target
        BY <1>7, <4>1, <4>2
      <4>4. PICK b \in BOOLEAN : b = (e.microtaskQueued \/ Pending(e))
        OBVIOUS
      <4>5. PICK f : f = w[o][i]
        OBVIOUS
      <4>6. f = [e EXCEPT !.microtaskQueued = b]
        BY <3>1, <3>2, <4>1, <4>4, <4>5
      <4>7. f \in Observation /\ f.key = e.key /\ f.target = e.target /\ Honest(k, seen, f)
        BY ONLY <4>3, <4>6, b \in BOOLEAN, MarkHonest
      <4>. QED
        BY ONLY <4>2, <4>3, <4>5, <4>7
    <3>. QED
      BY <3>2, <3>3
  <2>. QED
    BY <1>4, <2>1, <2>2
<1>10. AllHonest(w, k, view)
  BY <1>9 DEF AllHonest
<1>11. AllApart(w)
  BY <1>9, ApartStill DEF RInv
<1>12. RestTyped'
  BY <1>4 DEF RInv, RestTyped
<1>13. AllHonest(watch, kids, view)' /\ AllApart(watch)' /\ Family(kids)'
  BY <1>4, <1>5, <1>8, <1>10, <1>11 DEF AllHonest, AllApart, Family, Trees
<1>. QED
  BY <1>12, <1>13 DEF RInv

\* The observations of an observer, typed.
LEMMA OwnFacts ==
  ASSUME IInv, RInv, NEW o \in Observer, NEW i \in DOMAIN watch[o]
  PROVE  /\ watch[o][i] \in Observation /\ Honest(kids, view[watch[o][i].key], watch[o][i])
         /\ watch[o][i].key \in ObservationKey /\ watch[o][i].key \in Nat /\ watch[o][i].key < nextKey
         /\ \A p \in Observer : \A j \in DOMAIN watch[p] :
              watch[o][i].key = watch[p][j].key => o = p /\ i = j
<1>1. watch[o][i] \in Observation /\ Honest(kids, view[watch[o][i].key], watch[o][i])
  BY DEF RInv, AllHonest
<1>2. watch[o][i].key \in ObservationKey
  BY <1>1, ObservationFacts
<1>3. WellKept(watch[o], nextKey)
  BY DEF IInv, WatchKept
<1>4. watch[o][i].key \in Nat /\ watch[o][i].key < nextKey /\ \A j \in DOMAIN watch[o] : watch[o][i].key = watch[o][j].key => i = j
  BY <1>3 DEF WellKept, Shaped
<1>5. \A p \in Observer : \A j \in DOMAIN watch[p] : watch[o][i].key = watch[p][j].key => o = p
  BY DEF RInv, AllApart
<1>. QED
  BY <1>1, <1>2, <1>4, <1>5

\* What is handed over is what the target has; the rest is as it was.
LEMMA HandedFacts ==
  ASSUME IInv, RInv, NEW o \in Observer, NEW S, S \subseteq ToSet(watch[o]), Handed(S)
  PROVE  /\ view' \in Views
         /\ \A p \in Observer : \A j \in DOMAIN watch[p] :
              IF p = o /\ watch[p][j] \in S
              THEN view'[watch[p][j].key] # {Null} =>
                     "childList" \in watch[p][j].types /\ view'[watch[p][j].key] = ToSet(kids[watch[p][j].target])
              ELSE view'[watch[p][j].key] = view[watch[p][j].key]
<1>. DEFINE Own(key) == CHOOSE obs \in S : obs.key = key
<1>1. view' = [key \in ObservationKey |->
                 IF \A obs \in S : obs.key # key THEN view[key]
                 ELSE Replayed(view[key], About(Own(key).records, Own(key).target))]
  BY Zenon DEF Handed
<1>2. \A obs \in S : \E i \in DOMAIN watch[o] : obs = watch[o][i]
  BY DEF ToSet
<1>3. ASSUME NEW i \in DOMAIN watch[o], watch[o][i] \in S PROVE Own(watch[o][i].key) = watch[o][i]
  <2>1. PICK obs \in S : obs = watch[o][i]
    BY <1>3
  <2>2. \A other \in S : other.key = obs.key => other = obs
    BY <1>2, <2>1, OwnFacts
  <2>3. Own(obs.key) \in S /\ Own(obs.key).key = obs.key
    BY ONLY obs \in S
  <2>4. Own(obs.key) = obs
    BY ONLY <2>2, <2>3
  <2>. QED
    BY ONLY <2>1, <2>4
<1>. HIDE DEF Own
<1>4. ASSUME NEW i \in DOMAIN watch[o], watch[o][i] \in S, NEW seen, seen = view'[watch[o][i].key]
      PROVE  /\ seen \in SUBSET Links
             /\ seen # {Null} => "childList" \in watch[o][i].types /\ seen = ToSet(kids[watch[o][i].target])
  <2>1. PICK obs : obs = watch[o][i]
    OBVIOUS
  <2>2. obs \in Observation /\ obs.key \in ObservationKey /\ Honest(kids, view[obs.key], obs) /\ obs.target \in Node
    BY <2>1, OwnFacts, ObservationFacts
  <2>3. PICK rs : rs = About(obs.records, obs.target)
    OBVIOUS
  <2>4. PICK old : old = view[obs.key]
    OBVIOUS
  <2>5. seen = Replayed(old, rs)
    <3>1. obs \in S /\ ~ (\A other \in S : other.key # obs.key)
      BY <1>4, <2>1
    <3>2. Own(obs.key) = obs
      BY <1>3, <1>4, <2>1
    <3>3. seen = Replayed(view[obs.key], About(Own(obs.key).records, Own(obs.key).target))
      BY <1>1, <1>4, <2>1, <2>2, <3>1
    <3>. QED
      BY ONLY <2>3, <2>4, <3>2, <3>3
  <2>6. CASE old = {Null}
    <3>1. seen = {Null}
      BY ONLY <2>5, <2>6, Zenon DEF Replayed
    <3>2. {Null} \in SUBSET Links
      BY DEF Links
    <3>. QED
      BY <3>1, <3>2
  <2>7. CASE old # {Null}
    <3>1. "childList" \in obs.types /\ Replayed(old, rs) = ToSet(kids[obs.target])
      BY <2>2, <2>3, <2>4, <2>7, HonestTells
    <3>2. ToSet(kids[obs.target]) \subseteq Node
      BY <2>2, FamilyFacts DEF RInv
    <3>3. ToSet(kids[obs.target]) \in SUBSET Links
      BY <3>2 DEF Links
    <3>. QED
      BY <2>1, <2>5, <3>1, <3>3
  <2>. QED
    BY <2>6, <2>7
<1>5. \A key \in ObservationKey : view[key] \in SUBSET Links
  BY DEF RInv, RestTyped, Views
<1>6. \A key \in ObservationKey : (\A obs \in S : obs.key # key) => view'[key] = view[key]
  BY <1>1
<1>7. ASSUME NEW key \in ObservationKey PROVE view'[key] \in SUBSET Links
  <2>1. CASE \A obs \in S : obs.key # key
    BY <1>5, <1>6, <2>1
  <2>2. ASSUME NEW obs \in S, obs.key = key PROVE view'[key] \in SUBSET Links
    <3>1. PICK i \in DOMAIN watch[o] : obs = watch[o][i]
      BY <1>2
    <3>. QED
      BY <1>4, <2>2, <3>1
  <2>. QED
    BY <2>1, <2>2
<1>8. view' \in Views
  <2>1. view' = [key \in ObservationKey |-> view'[key]]
    BY <1>1, Zenon
  <2>. QED
    BY <1>7, <2>1 DEF Views
<1>9. ASSUME NEW p \in Observer, NEW j \in DOMAIN watch[p], ~ (p = o /\ watch[p][j] \in S)
      PROVE  view'[watch[p][j].key] = view[watch[p][j].key]
  <2>1. ASSUME NEW obs \in S, obs.key = watch[p][j].key PROVE FALSE
    <3>1. PICK i \in DOMAIN watch[o] : obs = watch[o][i]
      BY <1>2
    <3>2. o = p /\ i = j
      BY <2>1, <3>1, OwnFacts
    <3>. QED
      BY <1>9, <3>1, <3>2
  <2>2. watch[p][j].key \in ObservationKey
    BY OwnFacts
  <2>. QED
    BY <1>6, <2>1, <2>2
<1>. QED
  BY <1>4, <1>8, <1>9

\* Observations in place, some of them drained and handed over.
DrainedFrom(obs, e) ==
  e = [obs EXCEPT !.records = <<>>] \/ e = [obs EXCEPT !.records = <<>>, !.microtaskQueued = FALSE]

Drains(o, S, t) ==
  /\ S \subseteq ToSet(watch[o]) /\ Handed(S)
  /\ watch' = [watch EXCEPT ![o] = t] /\ DOMAIN t = DOMAIN watch[o]
  /\ \A i \in DOMAIN watch[o] :
       IF watch[o][i] \in S THEN DrainedFrom(watch[o][i], t[i]) ELSE t[i] = watch[o][i]
  /\ UNCHANGED <<kids, nextKey, phase>> /\ callbacks' \subseteq callbacks

\* Records handed over leave the rest of what is observed as it was.
LEMMA DrainStep ==
  ASSUME IInv, RInv, NEW o \in Observer, NEW S, NEW t, Drains(o, S, t)
  PROVE  RInv'
<1>0. /\ S \subseteq ToSet(watch[o]) /\ Handed(S)
      /\ watch' = [watch EXCEPT ![o] = t] /\ DOMAIN t = DOMAIN watch[o]
      /\ \A i \in DOMAIN watch[o] :
           IF watch[o][i] \in S THEN DrainedFrom(watch[o][i], t[i]) ELSE t[i] = watch[o][i]
      /\ UNCHANGED <<kids, nextKey, phase>> /\ callbacks' \subseteq callbacks
  BY DEF Drains
<1>1. watch = [p \in Observer |-> watch[p]]
  BY DEF IInv, WatchKept
<1>2. PICK w : w = watch'
  OBVIOUS
<1>3. w[o] = t /\ \A p \in Observer : p # o => w[p] = watch[p]
  BY <1>0, <1>1, <1>2
<1>4. PICK v : v = view'
  OBVIOUS
<1>5. /\ v \in Views
      /\ \A p \in Observer : \A j \in DOMAIN watch[p] :
           IF p = o /\ watch[p][j] \in S
           THEN v[watch[p][j].key] # {Null} =>
                  "childList" \in watch[p][j].types /\ v[watch[p][j].key] = ToSet(kids[watch[p][j].target])
           ELSE v[watch[p][j].key] = view[watch[p][j].key]
  BY <1>0, <1>4, HandedFacts
<1>6. ASSUME NEW p \in Observer, NEW j \in DOMAIN w[p]
      PROVE  /\ j \in DOMAIN watch[p] /\ w[p][j].key = watch[p][j].key /\ w[p][j].target = watch[p][j].target
             /\ w[p][j] \in Observation /\ Honest(kids, v[w[p][j].key], w[p][j])
  <2>1. j \in DOMAIN watch[p]
    BY <1>0, <1>3
  <2>2. PICK obs : obs = watch[p][j]
    OBVIOUS
  <2>3. obs \in Observation /\ Honest(kids, view[obs.key], obs)
    BY <2>1, <2>2, OwnFacts
  <2>4. PICK e : e = w[p][j]
    OBVIOUS
  <2>5. CASE p = o /\ obs \in S
    <3>1. PICK seen : seen = v[obs.key]
      OBVIOUS
    <3>2. seen # {Null} => "childList" \in obs.types /\ seen = ToSet(kids[obs.target])
      BY <1>5, <2>1, <2>2, <2>5, <3>1
    <3>3. e = [obs EXCEPT !.records = <<>>] \/ e = [obs EXCEPT !.records = <<>>, !.microtaskQueued = FALSE]
      BY <1>0, <1>3, <2>1, <2>2, <2>4, <2>5 DEF DrainedFrom
    <3>4. e \in Observation /\ e.key = obs.key /\ e.target = obs.target /\ Honest(kids, seen, e)
      BY <2>3, <3>2, <3>3, DrainedHonest
    <3>. QED
      BY ONLY <2>1, <2>2, <2>4, <3>1, <3>4
  <2>6. CASE ~ (p = o /\ obs \in S)
    <3>1. e = obs
      <4>1. CASE p = o
        BY <1>0, <1>3, <2>1, <2>2, <2>4, <2>6, <4>1
      <4>2. CASE p # o
        BY <1>3, <2>2, <2>4, <4>2
      <4>. QED
        BY <4>1, <4>2
    <3>2. v[obs.key] = view[obs.key]
      BY <1>5, <2>1, <2>2, <2>6
    <3>. QED
      BY <2>1, <2>2, <2>3, <2>4, <3>1, <3>2
  <2>. QED
    BY <2>5, <2>6
<1>7. AllHonest(w, kids, v)
  BY <1>6 DEF AllHonest
<1>8. AllApart(w)
  BY <1>6, ApartStill DEF RInv
<1>9. RestTyped'
  BY <1>0, <1>4, <1>5 DEF RInv, RestTyped, Views
<1>10. AllHonest(watch, kids, view)'
  <2>1. AllHonest(watch', kids', view')
    BY <1>0, <1>2, <1>4, <1>7
  <2>. QED
    BY <2>1 DEF AllHonest
<1>11. AllApart(watch)' /\ Family(kids)'
  <2>1. AllApart(watch') /\ Family(kids')
    BY <1>0, <1>2, <1>8 DEF RInv
  <2>. QED
    BY <2>1
<1>. QED
  BY <1>9, <1>10, <1>11 DEF RInv

\* takeRecords.
LEMMA TakeRecordsTyped ==
  ASSUME IInv, RInv, NEW o \in Observer, TakeRecords(o)
  PROVE  RInv'
<1>1. PICK s : s = watch[o]
  OBVIOUS
<1>2. PICK t : t = [i \in DOMAIN s |-> [s[i] EXCEPT !.records = <<>>]]
  OBVIOUS
<1>3. watch' = [watch EXCEPT ![o] = t] /\ Handed(ToSet(s))
  BY <1>1, <1>2, Zenon DEF TakeRecords
<1>4. UNCHANGED <<kids, nextKey, phase>> /\ callbacks' \subseteq callbacks
  BY DEF TakeRecords
<1>5. DOMAIN t = DOMAIN s /\ \A i \in DOMAIN s : s[i] \in ToSet(s) /\ DrainedFrom(s[i], t[i])
  BY <1>2 DEF ToSet, DrainedFrom
<1>6. Drains(o, ToSet(s), t)
  BY ONLY <1>1, <1>3, <1>4, <1>5 DEF Drains
<1>. QED
  BY <1>6, DrainStep

\* A microtask delivers.
LEMMA DeliverTyped ==
  ASSUME IInv, RInv, Deliver
  PROVE  RInv'
<1>1. PICK o : o = Head(microtasks).observer
  OBVIOUS
<1>2. PICK key : key = Head(microtasks).key
  OBVIOUS
<1>3. UNCHANGED <<kids, nextKey, phase>>
  BY DEF Deliver
<1>4. o \in Observer
  <2>1. microtasks \in Seq(Deliveries) /\ microtasks # <<>>
    BY DEF IInv, MicrotasksKept, Deliver
  <2>2. Head(microtasks) \in Deliveries
    BY <2>1, TailFacts
  <2>. QED
    BY <1>1, <2>2 DEF Deliveries
<1>5. CASE o \notin callbacks \/ phase = "destroyed"
  <2>1. UNCHANGED <<watch, view>> /\ callbacks' \subseteq callbacks
    BY <1>1, <1>5 DEF Deliver
  <2>. QED
    BY <1>3, <2>1 DEF RInv, RestTyped, AllHonest, AllApart, Family, Trees
<1>6. CASE ~ (o \notin callbacks \/ phase = "destroyed")
  <2>1. PICK s : s = watch[o]
    OBVIOUS
  <2>2. PICK t : t = [i \in DOMAIN s |->
                        IF s[i].key = key
                        THEN [s[i] EXCEPT !.records = <<>>, !.microtaskQueued = FALSE]
                        ELSE s[i]]
    OBVIOUS
  <2>3. PICK S : S = {obs \in ToSet(s) : obs.key = key}
    OBVIOUS
  <2>4. watch' = [watch EXCEPT ![o] = t] /\ Handed(S) /\ UNCHANGED callbacks
    BY <1>1, <1>2, <1>6, <2>1, <2>2, <2>3, Zenon DEF Deliver
  <2>5. DOMAIN t = DOMAIN s /\ \A i \in DOMAIN s :
          IF s[i] \in S THEN DrainedFrom(s[i], t[i]) ELSE t[i] = s[i]
    <3>1. \A i \in DOMAIN s : s[i] \in S <=> s[i].key = key
      BY <2>3 DEF ToSet
    <3>. QED
      BY <2>2, <3>1 DEF DrainedFrom
  <2>6. S \subseteq ToSet(s) /\ callbacks' \subseteq callbacks
    BY <2>3, <2>4
  <2>7. Drains(o, S, t)
    BY ONLY <1>3, <2>1, <2>4, <2>5, <2>6 DEF Drains
  <2>. QED
    BY <1>4, <2>7, DrainStep
<1>. QED
  BY <1>5, <1>6

\* observe: who comes new has seen what is there.
LEMMA ObserveNewTyped ==
  ASSUME IInv, RInv, NEW o \in Observer, NEW target \in Node, NEW options \in Options, ObserveNew(o, target, options),
         \A i \in DOMAIN watch[o] : watch[o][i].target # target, UNCHANGED <<kids, callbacks, phase>>
  PROVE  RInv'
<1>1. PICK obs : obs = [key |-> nextKey, target |-> target, types |-> options.types,
                        subtree |-> options.subtree, records |-> <<>>, microtaskQueued |-> FALSE]
  OBVIOUS
<1>2. PICK s : s = watch[o]
  OBVIOUS
<1>3. PICK t : t = Append(s, obs)
  OBVIOUS
<1>4. PICK seen : seen = IF "childList" \in options.types THEN ToSet(kids[target]) ELSE {Null}
  OBVIOUS
<1>5. /\ nextKey \in Nat /\ nextKey < MaxKeys /\ nextKey' = nextKey + 1 /\ watch = [p \in Observer |-> watch[p]]
      /\ WellKept(s, nextKey) /\ MaxKeys \in Nat /\ nextKey \in ObservationKey /\ nextKey' <= MaxKeys
  <2>1. /\ nextKey \in Nat /\ nextKey < MaxKeys /\ nextKey' = nextKey + 1 /\ watch = [p \in Observer |-> watch[p]]
        /\ WellKept(s, nextKey)
    BY <1>2 DEF IInv, WatchKept, ObserveNew
  <2>2. MaxKeys \in Nat
    BY MutationObserversAssumption
  <2>3. nextKey \in ObservationKey /\ nextKey' <= MaxKeys
    BY <2>1, <2>2 DEF ObservationKey
  <2>. QED
    BY <2>1, <2>2, <2>3
<1>6. watch' = [watch EXCEPT ![o] = t]
  BY <1>1, <1>2, <1>3, Zenon DEF ObserveNew
<1>7. view' = [view EXCEPT ![nextKey] = seen]
  BY <1>4, Zenon DEF ObserveNew
<1>8. PICK w : w = watch'
  OBVIOUS
<1>9. w[o] = t /\ \A p \in Observer : p # o => w[p] = watch[p]
  BY <1>5, <1>6, <1>8
<1>10. Shaped(obs) /\ obs.key = nextKey /\ obs.target = target /\ obs.types = options.types /\ obs.records = <<>>
  BY <1>1, <1>5 DEF Shaped
<1>11. DOMAIN t = DOMAIN s \cup {Len(s) + 1} /\ t[Len(s) + 1] = obs /\ \A i \in DOMAIN s : t[i] = s[i]
  BY <1>3, <1>5, <1>10, OneMore
<1>12. PICK v : v = view'
  OBVIOUS
<1>13. v \in Views /\ v[nextKey] = seen /\ \A key \in ObservationKey : key # nextKey => v[key] = view[key]
  <2>1. view \in Views
    BY DEF RInv, RestTyped
  <2>2. seen \in SUBSET Links
    <3>1. ToSet(kids[target]) \subseteq Node
      BY FamilyFacts DEF RInv
    <3>. QED
      BY <1>4, <3>1 DEF Links
  <2>. QED
    BY <1>5, <1>7, <1>12, <2>1, <2>2 DEF Views
<1>14. obs \in Observation /\ Honest(kids, v[obs.key], obs)
  <2>1. options.types \in SUBSET RecordType /\ options.subtree \in BOOLEAN
    BY MutationObserversAssumption DEF RecordType
  <2>2. <<>> \in Seq(MutationRecord)
    BY ONLY TRUE
  <2>3. obs \in Observation
    BY <1>1, <1>5, <2>1, <2>2 DEF Observation
  <2>4. About(obs.records, obs.target) = <<>>
    <3>1. About(<<>>, target) = <<>>
      BY ONLY Zenon, KeepingEmpty DEF About
    <3>. QED
      BY <1>10, <3>1
  <2>5. Tale(ToSet(kids[target]), <<>>, ToSet(kids[target]))
    BY TaleNone
  <2>6. Honest(kids, v[obs.key], obs)
    BY <1>4, <1>10, <1>13, <2>4, <2>5 DEF Honest
  <2>. QED
    BY <2>3, <2>6
<1>15. ASSUME NEW p \in Observer, NEW j \in DOMAIN w[p]
       PROVE  \/ p = o /\ j = Len(s) + 1 /\ w[p][j] = obs
              \/ /\ j \in DOMAIN watch[p] /\ w[p][j] = watch[p][j]
                 /\ watch[p][j] \in Observation /\ watch[p][j].key # nextKey
                 /\ Honest(kids, v[watch[p][j].key], watch[p][j])
  <2>1. CASE p = o /\ j = Len(s) + 1
    BY <1>9, <1>11, <2>1
  <2>2. CASE ~ (p = o /\ j = Len(s) + 1)
    <3>1. j \in DOMAIN watch[p] /\ w[p][j] = watch[p][j]
      <4>1. CASE p = o
        BY <1>2, <1>9, <1>11, <2>2, <4>1
      <4>2. CASE p # o
        BY <1>9, <4>2
      <4>. QED
        BY <4>1, <4>2
    <3>2. /\ watch[p][j] \in Observation /\ Honest(kids, view[watch[p][j].key], watch[p][j])
          /\ watch[p][j].key \in ObservationKey /\ watch[p][j].key \in Nat /\ watch[p][j].key < nextKey
      BY <3>1, OwnFacts
    <3>3. watch[p][j].key # nextKey
      BY <1>5, <3>2
    <3>. QED
      BY <1>13, <3>1, <3>2, <3>3
  <2>. QED
    BY <2>1, <2>2
<1>16. AllHonest(w, kids, v)
  BY <1>14, <1>15 DEF AllHonest
<1>17. AllApart(w)
  <2>1. ASSUME NEW p \in Observer, NEW i \in DOMAIN w[p], NEW j \in DOMAIN w[p], w[p][i].target = w[p][j].target
        PROVE  i = j
    <3>1. \A a, b \in DOMAIN watch[p] : watch[p][a].target = watch[p][b].target => a = b
      BY DEF RInv, AllApart
    <3>2. \A a \in DOMAIN watch[o] : watch[o][a].target # obs.target
      BY <1>10
    <3>. QED
      BY <1>15, <2>1, <3>1, <3>2
  <2>2. ASSUME NEW p \in Observer, NEW q \in Observer, NEW i \in DOMAIN w[p], NEW j \in DOMAIN w[q], w[p][i].key = w[q][j].key
        PROVE  p = q
    <3>1. \A a \in DOMAIN watch[p] : \A b \in DOMAIN watch[q] : watch[p][a].key = watch[q][b].key => p = q
      BY DEF RInv, AllApart
    <3>. QED
      BY <1>10, <1>15, <2>2, <3>1
  <2>. QED
    BY <2>1, <2>2 DEF AllApart
<1>18. RestTyped'
  BY <1>5, <1>12, <1>13 DEF RInv, RestTyped, Views
<1>19. AllHonest(watch, kids, view)'
  <2>1. AllHonest(watch', kids', view')
    BY <1>8, <1>12, <1>16
  <2>. QED
    BY <2>1 DEF AllHonest
<1>20. AllApart(watch)' /\ Family(kids)'
  <2>1. AllApart(watch') /\ Family(kids')
    BY <1>8, <1>17 DEF RInv
  <2>. QED
    BY <2>1
<1>. QED
  BY <1>18, <1>19, <1>20 DEF RInv

\* What observe() leaves of an observation whose target is observed again.
Reasked(obs, options) == [obs EXCEPT !.types = options.types, !.subtree = options.subtree]

\* The new options of obs, and the view of who no longer asks for children.
LEMMA OptionsHonest ==
  ASSUME NEW obs \in Observation, NEW k, NEW seen, Honest(k, seen, obs), NEW options \in Options,
         NEW e, e = Reasked(obs, options),
         NEW new, new = IF "childList" \in options.types THEN seen ELSE {Null}
  PROVE  e \in Observation /\ e.key = obs.key /\ e.target = obs.target /\ Honest(k, new, e)
<1>1. PICK a \in SUBSET RecordType : a = options.types
  BY MutationObserversAssumption DEF RecordType
<1>2. PICK b \in BOOLEAN : b = options.subtree
  BY MutationObserversAssumption
<1>3. e = [obs EXCEPT !.types = a, !.subtree = b]
  BY <1>1, <1>2 DEF Reasked
<1>4. /\ e \in Observation /\ e.key = obs.key /\ e.target = obs.target /\ e.types = a /\ e.records = obs.records
  BY ONLY <1>3, obs \in Observation, a \in SUBSET RecordType, b \in BOOLEAN DEF Observation
<1>. QED
  BY <1>1, <1>4 DEF Honest

\* observe, of a target that is observed already.
LEMMA ObserveAgainTyped ==
  ASSUME IInv, RInv, NEW o \in Observer, NEW i \in DOMAIN watch[o], NEW options \in Options, ObserveAgain(o, i, options),
         UNCHANGED <<kids, callbacks, phase>>
  PROVE  RInv'
<1>1. PICK s : s = watch[o]
  OBVIOUS
<1>2. PICK obs : obs = s[i]
  OBVIOUS
<1>3. PICK e : e = [obs EXCEPT !.types = options.types, !.subtree = options.subtree]
  OBVIOUS
<1>4. PICK t : t = [s EXCEPT ![i] = e]
  OBVIOUS
<1>5. watch' = [watch EXCEPT ![o] = t] /\ UNCHANGED nextKey
  BY <1>1, <1>2, <1>3, <1>4, Zenon DEF ObserveAgain
<1>6. view' = IF "childList" \in options.types THEN view ELSE [view EXCEPT ![obs.key] = {Null}]
  BY <1>1, <1>2, Zenon DEF ObserveAgain
<1>7. PICK w : w = watch'
  OBVIOUS
<1>8. PICK v : v = view'
  OBVIOUS
<1>9. obs \in Observation /\ Honest(kids, view[obs.key], obs) /\ obs.key \in ObservationKey
  BY <1>1, <1>2, OwnFacts
<1>10. PICK new : new = IF "childList" \in options.types THEN view[obs.key] ELSE {Null}
  OBVIOUS
<1>11. v \in Views /\ v[obs.key] = new /\ \A key \in ObservationKey : key # obs.key => v[key] = view[key]
  <2>1. view \in Views
    BY DEF RInv, RestTyped
  <2>2. {Null} \in SUBSET Links
    BY DEF Links
  <2>. QED
    BY <1>6, <1>8, <1>9, <1>10, <2>1, <2>2 DEF Views
<1>12. e \in Observation /\ e.key = obs.key /\ e.target = obs.target /\ Honest(kids, new, e)
  <2>1. e = Reasked(obs, options)
    BY <1>3, Zenon DEF Reasked
  <2>2. PICK seen : seen = view[obs.key]
    OBVIOUS
  <2>3. PICK k : k = kids
    OBVIOUS
  <2>4. Honest(k, seen, obs)
    BY <1>9, <2>2, <2>3
  <2>5. new = IF "childList" \in options.types THEN seen ELSE {Null}
    BY <1>10, <2>2
  <2>6. e \in Observation /\ e.key = obs.key /\ e.target = obs.target /\ Honest(k, new, e)
    BY ONLY <1>9, <2>1, <2>4, <2>5, options \in Options, OptionsHonest
  <2>. QED
    BY <2>3, <2>6
<1>13. DOMAIN t = DOMAIN s /\ t[i] = e /\ \A j \in DOMAIN s : j # i => t[j] = s[j]
  BY <1>1, <1>4
<1>14. w[o] = t /\ \A p \in Observer : p # o => w[p] = watch[p]
  <2>1. watch = [p \in Observer |-> watch[p]]
    BY DEF IInv, WatchKept
  <2>. QED
    BY <1>5, <1>7, <2>1
<1>15. ASSUME NEW p \in Observer, NEW j \in DOMAIN w[p]
       PROVE  /\ j \in DOMAIN watch[p] /\ w[p][j].key = watch[p][j].key /\ w[p][j].target = watch[p][j].target
              /\ w[p][j] \in Observation /\ Honest(kids, v[w[p][j].key], w[p][j])
  <2>1. j \in DOMAIN watch[p]
    BY <1>1, <1>13, <1>14
  <2>2. CASE p = o /\ j = i
    <3>1. w[p][j] = e /\ watch[p][j] = obs
      BY <1>1, <1>2, <1>13, <1>14, <2>2
    <3>. QED
      BY <1>11, <1>12, <2>1, <3>1
  <2>3. CASE ~ (p = o /\ j = i)
    <3>1. w[p][j] = watch[p][j]
      <4>1. CASE p = o
        BY <1>1, <1>13, <1>14, <2>1, <2>3, <4>1
      <4>2. CASE p # o
        BY <1>14, <4>2
      <4>. QED
        BY <4>1, <4>2
    <3>2. /\ watch[p][j] \in Observation /\ Honest(kids, view[watch[p][j].key], watch[p][j])
          /\ watch[p][j].key \in ObservationKey /\ (watch[p][j].key = watch[o][i].key => p = o /\ j = i)
      BY <2>1, OwnFacts
    <3>3. v[watch[p][j].key] = view[watch[p][j].key]
      BY <1>1, <1>2, <1>11, <2>3, <3>2
    <3>. QED
      BY <2>1, <3>1, <3>2, <3>3
  <2>. QED
    BY <2>2, <2>3
<1>16. AllHonest(w, kids, v)
  BY <1>15 DEF AllHonest
<1>17. AllApart(w)
  BY <1>15, ApartStill DEF RInv
<1>18. RestTyped'
  BY <1>5, <1>8, <1>11 DEF RInv, RestTyped, Views
<1>19. AllHonest(watch, kids, view)'
  <2>1. AllHonest(watch', kids', view')
    BY <1>7, <1>8, <1>16
  <2>. QED
    BY <2>1 DEF AllHonest
<1>20. AllApart(watch)' /\ Family(kids)'
  <2>1. AllApart(watch') /\ Family(kids')
    BY <1>7, <1>17 DEF RInv
  <2>. QED
    BY <2>1
<1>. QED
  BY <1>18, <1>19, <1>20 DEF RInv

\* observe.
LEMMA ObserveTyped ==
  ASSUME IInv, RInv, NEW o \in Observer, NEW target \in Node, NEW options \in Options, Observe(o, target, options)
  PROVE  RInv'
<1>1. UNCHANGED <<kids, callbacks, phase>>
  BY DEF Observe
<1>2. CASE (\A i \in DOMAIN watch[o] : watch[o][i].target # target) /\ ObserveNew(o, target, options)
  BY <1>1, <1>2, ObserveNewTyped
<1>3. ASSUME NEW i \in DOMAIN watch[o], ObserveAgain(o, i, options) PROVE RInv'
  BY <1>1, <1>3, ObserveAgainTyped
<1>. QED
  BY <1>2, <1>3 DEF Observe

\* disconnect, closeWindow, destroy: the observations of os go.
LEMMA DisconnectedTyped ==
  ASSUME IInv, RInv, NEW os \in SUBSET Observer, Disconnected(os),
         Family(kids'), UNCHANGED kids \/ os = Observer,
         UNCHANGED <<nextKey, callbacks>>, phase' \in {"open", "closed", "destroyed"}
  PROVE  RInv'
<1>1. PICK w : w = watch'
  OBVIOUS
<1>2. PICK v : v = view'
  OBVIOUS
<1>3. \A p \in Observer : w[p] = IF p \in os THEN <<>> ELSE watch[p]
  BY <1>1 DEF Disconnected
<1>4. v = [key \in ObservationKey |->
             IF \E o \in os : \E i \in DOMAIN watch[o] : watch[o][i].key = key THEN {Null} ELSE view[key]]
  BY <1>2, Zenon DEF Disconnected
<1>5. v \in Views
  <2>1. view \in Views
    BY DEF RInv, RestTyped
  <2>2. {Null} \in SUBSET Links
    BY DEF Links
  <2>. QED
    BY <1>4, <2>1, <2>2 DEF Views
<1>6. ASSUME NEW p \in Observer, NEW j \in DOMAIN w[p]
      PROVE  /\ j \in DOMAIN watch[p] /\ w[p][j] = watch[p][j] /\ UNCHANGED kids
             /\ w[p][j] \in Observation /\ Honest(kids, v[w[p][j].key], w[p][j])
  <2>1. p \notin os
    <3>1. DOMAIN <<>> = {}
      OBVIOUS
    <3>. QED
      BY <1>3, <3>1
  <2>2. j \in DOMAIN watch[p] /\ w[p][j] = watch[p][j]
    BY <1>3, <2>1
  <2>3. /\ watch[p][j] \in Observation /\ Honest(kids, view[watch[p][j].key], watch[p][j])
        /\ watch[p][j].key \in ObservationKey
        /\ \A o \in Observer : \A i \in DOMAIN watch[o] : watch[p][j].key = watch[o][i].key => p = o
    BY <2>2, OwnFacts
  <2>4. v[watch[p][j].key] = view[watch[p][j].key]
    BY <1>4, <2>1, <2>3
  <2>. QED
    BY <2>1, <2>2, <2>3, <2>4
<1>7. AllHonest(w, kids', v)
  <2>1. \A p \in Observer : \A j \in DOMAIN w[p] : w[p][j] \in Observation /\ Honest(kids', v[w[p][j].key], w[p][j])
    <3>. SUFFICES ASSUME NEW p \in Observer, NEW j \in DOMAIN w[p]
                  PROVE  w[p][j] \in Observation /\ Honest(kids', v[w[p][j].key], w[p][j])
      OBVIOUS
    <3>1. kids' = kids /\ w[p][j] \in Observation /\ Honest(kids, v[w[p][j].key], w[p][j])
      BY <1>6
    <3>. QED
      BY <3>1
  <2>. QED
    BY <2>1 DEF AllHonest
<1>8. AllApart(w)
  BY <1>6, ApartStill DEF RInv
<1>9. RestTyped'
  BY <1>2, <1>5 DEF RInv, RestTyped, Views
<1>10. AllHonest(watch, kids, view)'
  <2>1. AllHonest(watch', kids', view')
    BY <1>1, <1>2, <1>7
  <2>. QED
    BY <2>1 DEF AllHonest
<1>11. AllApart(watch)' /\ Family(kids)'
  <2>1. AllApart(watch') /\ Family(kids')
    BY <1>1, <1>8
  <2>. QED
    BY <2>1
<1>. QED
  BY <1>9, <1>10, <1>11 DEF RInv

\* disconnect.
LEMMA DisconnectTyped ==
  ASSUME IInv, RInv, NEW o \in Observer, Disconnect(o) PROVE RInv'
<1>1. Disconnected({o}) /\ UNCHANGED <<kids, nextKey, callbacks, phase>>
  BY DEF Disconnect
<1>2. Family(kids') /\ phase' \in {"open", "closed", "destroyed"}
  BY <1>1 DEF RInv, RestTyped
<1>3. {o} \in SUBSET Observer
  OBVIOUS
<1>. QED
  BY <1>1, <1>2, <1>3, DisconnectedTyped

\* The window closes.
LEMMA CloseWindowTyped ==
  ASSUME IInv, RInv, CloseWindow PROVE RInv'
<1>1. Disconnected(Observer) /\ UNCHANGED <<kids, nextKey, callbacks>> /\ phase' \in {"open", "closed", "destroyed"}
  BY DEF CloseWindow
<1>2. Family(kids')
  BY <1>1 DEF RInv
<1>3. Observer \in SUBSET Observer
  OBVIOUS
<1>. QED
  BY <1>1, <1>2, <1>3, DisconnectedTyped

\* A document without nodes.
LEMMA NoFamily == Family(NoKids)
<1>1. NoKids \in Trees /\ \A m \in Node : NoKids[m] = <<>>
  <2>1. <<>> \in Seq(Element)
    BY ONLY TRUE
  <2>. QED
    BY <2>1 DEF NoKids, Trees
<1>2. IsInjective(<<>>) /\ ToSet(<<>>) = {}
  BY DEF IsInjective, ToSet
<1>. QED
  BY <1>1, <1>2 DEF Family

\* The core is destroyed.
LEMMA DestroyTyped ==
  ASSUME IInv, RInv, Destroy PROVE RInv'
<1>1. Disconnected(Observer) /\ UNCHANGED <<nextKey, callbacks>> /\ phase' \in {"open", "closed", "destroyed"}
  BY DEF Destroy
<1>2. Family(kids')
  BY NoFamily DEF Destroy
<1>3. Observer \in SUBSET Observer
  OBVIOUS
<1>. QED
  BY <1>1, <1>2, <1>3, DisconnectedTyped

\* A stuttering step.
LEMMA StillTyped ==
  ASSUME RInv, UNCHANGED <<kids, watch, nextKey, phase, view>>, callbacks' \subseteq callbacks PROVE RInv'
<1>1. RestTyped'
  BY DEF RInv, RestTyped, Views
<1>2. AllHonest(watch, kids, view)'
  <2>1. AllHonest(watch', kids', view')
    BY DEF RInv
  <2>. QED
    BY <2>1 DEF AllHonest
<1>3. AllApart(watch)' /\ Family(kids)'
  <2>1. AllApart(watch') /\ Family(kids')
    BY DEF RInv
  <2>. QED
    BY <2>1
<1>. QED
  BY <1>1, <1>2, <1>3 DEF RInv

-----------------------------------------------------------------------------
(***************************************************************************)
(* What those hear who observe a subtree.                                  *)
(***************************************************************************)
\* Who sees a node before and after hears all, who sees it neither time nothing.
LEMMA InPlaceHeard ==
  ASSUME NEW k0, Family(k0), NEW s, Tells(k0, s), InPlace(k0, s), NEW obs \in Observation, NEW n \in Node,
         NEW told, told = About(RecordsFor(obs, s.log), n)
  PROVE  /\ Hears(k0, obs, n) /\ Hears(s.kids, obs, n) => Replayed(ToSet(k0[n]), told) = ToSet(s.kids[n])
         /\ ~ Hears(k0, obs, n) /\ ~ Hears(s.kids, obs, n) => told = <<>>
<1>1. obs.target \in Node
  BY ObservationFacts
<1>2. ASSUME NEW b \in BOOLEAN, Hears(k0, obs, n) <=> b, Hears(s.kids, obs, n) <=> b
      PROVE  HeardBy(obs, s.log, n, b)
  <2>1. ASSUME NEW e \in ToSet(s.log), e.record.type = "childList", e.record.target = n
        PROVE  Interested(e.kids, obs, e.record) <=> b
    <3>1. Interested(e.kids, obs, e.record) <=> Hears(e.kids, obs, n)
      BY <2>1 DEF Interested, Hears
    <3>2. Steady(e.kids, k0, n) \/ Steady(e.kids, s.kids, n)
      BY <2>1 DEF InPlace
    <3>3. Hears(e.kids, obs, n) <=> b
      <4>1. CASE Steady(e.kids, k0, n)
        <5>1. Inside(e.kids, obs.target, n) <=> Inside(k0, obs.target, n)
          BY <1>1, <4>1 DEF Steady
        <5>. QED
          BY ONLY <1>2, <5>1 DEF Hears
      <4>2. CASE Steady(e.kids, s.kids, n)
        <5>1. Inside(e.kids, obs.target, n) <=> Inside(s.kids, obs.target, n)
          BY <1>1, <4>2 DEF Steady
        <5>. QED
          BY ONLY <1>2, <5>1 DEF Hears
      <4>. QED
        BY <3>2, <4>1, <4>2
    <3>. QED
      BY <3>1, <3>3
  <2>. QED
    BY <2>1 DEF HeardBy
<1>3. s.log \in Seq(Entries(Trees))
  BY DEF Tells, LogOf
<1>4. ASSUME Hears(k0, obs, n), Hears(s.kids, obs, n) PROVE Replayed(ToSet(k0[n]), told) = ToSet(s.kids[n])
  <2>1. HeardBy(obs, s.log, n, TRUE)
    BY <1>2, <1>4
  <2>2. told = About(Recs(s.log), n)
    BY <1>3, <2>1, HeardWhere
  <2>3. Tale(ToSet(k0[n]), told, ToSet(s.kids[n]))
    BY <2>2 DEF Tells
  <2>4. ToSet(k0[n]) # {Null}
    BY FamilyFacts
  <2>5. told \in Seq(MutationRecord)
    BY <1>3, HeardWhere, AboutConcat
  <2>. QED
    BY ONLY <2>3, <2>4, <2>5, TaleTells
<1>5. ASSUME ~ Hears(k0, obs, n), ~ Hears(s.kids, obs, n) PROVE told = <<>>
  <2>1. HeardBy(obs, s.log, n, FALSE)
    BY <1>2, <1>5
  <2>. QED
    BY <1>3, <2>1, HeardWhere
<1>. QED
  BY <1>4, <1>5

\* What was appended.
LEMMA Appended ==
  ASSUME NEW X, NEW s \in Seq(X), NEW t \in Seq(X)
  PROVE  SubSeq(s \o t, Len(s) + 1, Len(s \o t)) = t
OBVIOUS

\* What a step queues.
LEMMA GainedIs ==
  ASSUME RInv, NEW s, Tells(kids, s), Mutate(s) \/ MutateOnly(s), NEW o \in Observer, NEW i \in DOMAIN watch[o]
  PROVE  Gained(o, i) = RecordsFor(watch[o][i], s.log)
<1>1. PICK q : q = Queued(s.log)
  OBVIOUS
<1>2. watch' = q \/ watch' = Flagged(q)
  BY <1>1, Zenon DEF Mutate, MutateOnly, Schedule
<1>3. PICK obs : obs = watch[o][i]
  OBVIOUS
<1>4. /\ q[o] = [j \in DOMAIN watch[o] |-> q[o][j]]
      /\ q[o][i] = [watch[o][i] EXCEPT !.records = watch[o][i].records \o RecordsFor(watch[o][i], s.log)]
  BY <1>1, Zenon DEF Queued
<1>5. obs \in Observation
  BY <1>3 DEF RInv, AllHonest
<1>6. PICK e : e = q[o][i]
  OBVIOUS
<1>7. PICK rs : rs = obs.records
  OBVIOUS
<1>8. PICK us : us = RecordsFor(obs, s.log)
  OBVIOUS
<1>9. e = [obs EXCEPT !.records = rs \o us]
  BY <1>3, <1>4, <1>6, <1>7, <1>8
<1>10. e.records = rs \o us
  BY ONLY <1>5, <1>9 DEF Observation
<1>11. PICK w : w = watch'[o][i]
  OBVIOUS
<1>12. w.records = rs \o us
  <2>1. CASE watch' = q
    BY <1>6, <1>10, <1>11, <2>1
  <2>2. CASE watch' = Flagged(q)
    <3>1. \A j \in DOMAIN q[o] : watch'[o][j] = [q[o][j] EXCEPT !.microtaskQueued = q[o][j].microtaskQueued \/ Pending(q[o][j])]
      BY <2>2, Zenon DEF Flagged
    <3>2. i \in DOMAIN q[o]
      BY <1>4, Zenon
    <3>3. w = [e EXCEPT !.microtaskQueued = e.microtaskQueued \/ Pending(e)]
      BY <1>6, <1>11, <3>1, <3>2
    <3>4. PICK b : b = (e.microtaskQueued \/ Pending(e))
      OBVIOUS
    <3>5. w = [e EXCEPT !.microtaskQueued = b]
      BY ONLY <3>3, <3>4
    <3>. QED
      BY ONLY <1>5, <1>9, <1>10, <3>5 DEF Observation
  <2>. QED
    BY <1>2, <2>1, <2>2
<1>13. rs \in Seq(MutationRecord) /\ us \in Seq(MutationRecord)
  <2>1. s.log \in Seq(Entries(Trees))
    BY DEF Tells, LogOf
  <2>. QED
    BY <1>5, <1>7, <1>8, <2>1, HeardWhere, ObservationFacts
<1>14. Gained(o, i) = SubSeq(rs \o us, Len(rs) + 1, Len(rs \o us))
  BY <1>3, <1>7, <1>11, <1>12, Zenon DEF Gained
<1>. QED
  BY ONLY <1>3, <1>8, <1>13, <1>14, Appended

\* The action of SubtreeChangesHeard.
ChangesHeard ==
  kids' # kids /\ phase' = phase =>
    \A o \in Observer : \A i \in DOMAIN watch[o] : \A n \in Node :
      LET told == About(Gained(o, i), n)
          before == Hears(kids, watch[o][i], n)
          after == Hears(kids', watch[o][i], n)
      IN  /\ before /\ after => Replayed(ToSet(kids[n]), told) = ToSet(kids'[n])
          /\ ~ before /\ ~ after => told = <<>>

LEMMA PlacedHeard ==
  ASSUME RInv, Placed
  PROVE  ChangesHeard /\ Grounded(kids')
<1>1. PICK s : Tells(kids, s) /\ InPlace(kids, s) /\ Grounded(s.kids) /\ (Mutate(s) \/ MutateOnly(s))
  BY DEF Placed
<1>2. PICK k : k = kids'
  OBVIOUS
<1>3. k = s.kids
  BY <1>1, <1>2 DEF Mutate, MutateOnly
<1>4. ASSUME NEW o \in Observer, NEW i \in DOMAIN watch[o], NEW n \in Node, NEW told, told = About(Gained(o, i), n)
      PROVE  /\ Hears(kids, watch[o][i], n) /\ Hears(k, watch[o][i], n) => Replayed(ToSet(kids[n]), told) = ToSet(k[n])
             /\ ~ Hears(kids, watch[o][i], n) /\ ~ Hears(k, watch[o][i], n) => told = <<>>
  <2>1. watch[o][i] \in Observation /\ Family(kids)
    BY DEF RInv, AllHonest
  <2>2. told = About(RecordsFor(watch[o][i], s.log), n)
    BY <1>1, <1>4, GainedIs
  <2>. QED
    BY ONLY <1>1, <1>3, <2>1, <2>2, n \in Node, InPlaceHeard
<1>5. ChangesHeard
  BY <1>2, <1>4 DEF ChangesHeard
<1>. QED
  BY <1>1, <1>2, <1>3, <1>5

-----------------------------------------------------------------------------
\* The first state.
LEMMA InitTyped == Init => RInv
<1>. SUFFICES ASSUME Init PROVE RInv
  OBVIOUS
<1>1. kids \in Forests /\ watch = [o \in Observer |-> <<>>] /\ nextKey = 0 /\ callbacks = Observer
      /\ phase = "open" /\ view = [key \in ObservationKey |-> {Null}]
  BY DEF Init
<1>2. /\ kids \in [Node -> {s \in UNION {[1 .. len -> Element] : len \in 0 .. Cardinality(Element)} : IsInjective(s)}]
      /\ \A p, q \in Node : p # q => ToSet(kids[p]) \cap ToSet(kids[q]) = {}
  BY <1>1 DEF Forests
<1>3. ASSUME NEW m \in Node PROVE kids[m] \in Seq(Element) /\ IsInjective(kids[m])
  <2>1. PICK s : s = kids[m]
    OBVIOUS
  <2>2. s \in {u \in UNION {[1 .. len -> Element] : len \in 0 .. Cardinality(Element)} : IsInjective(u)}
    BY <1>2, <2>1
  <2>3. PICK X : X = Element
    OBVIOUS
  <2>4. PICK c : c = Cardinality(Element)
    OBVIOUS
  <2>5. IsInjective(s) /\ \E len \in 0 .. c : s \in [1 .. len -> X]
    BY <2>2, <2>3, <2>4
  <2>6. PICK len \in 0 .. c : s \in [1 .. len -> X]
    BY <2>5
  <2>7. len \in Nat
    OBVIOUS
  <2>8. s \in Seq(X)
    BY ONLY <2>6, <2>7
  <2>. QED
    BY <2>1, <2>3, <2>5, <2>8
<1>4. kids = [m \in Node |-> kids[m]]
  BY <1>2
<1>5. Family(kids)
  BY <1>2, <1>3, <1>4 DEF Family, Trees
<1>6. \A o \in Observer : DOMAIN watch[o] = {}
  BY <1>1
<1>7. AllHonest(watch, kids, view) /\ AllApart(watch)
  BY <1>6 DEF AllHonest, AllApart
<1>8. RestTyped
  <2>1. {Null} \in SUBSET Links
    BY DEF Links
  <2>. QED
    BY <1>1, <2>1, MutationObserversAssumption DEF RestTyped, Views
<1>. QED
  BY <1>5, <1>7, <1>8 DEF RInv

\* Every step, given what is known of the deliveries.
LEMMA StepTyped == IInv /\ RInv /\ Grounded(kids) /\ [Next]_vars => RInv'
<1>. SUFFICES ASSUME IInv, RInv, Grounded(kids), [Next]_vars PROVE RInv'
  OBVIOUS
<1>1. ASSUME Mutations PROVE RInv'
  <2>1. Placed
    BY <1>1, MutationsPlaced DEF RInv
  <2>. QED
    BY <2>1, TellingStep DEF Telling, Placed
<1>2. ASSUME NEW o \in Observer, Drop(o) PROVE RInv'
  <2>1. UNCHANGED <<kids, watch, nextKey, phase, view>> /\ callbacks' \subseteq callbacks
    BY <1>2 DEF Drop
  <2>. QED
    BY <2>1, StillTyped
<1>3. CASE UNCHANGED vars
  <2>1. UNCHANGED <<kids, watch, nextKey, phase, view>> /\ callbacks' \subseteq callbacks
    BY <1>3 DEF vars
  <2>. QED
    BY <2>1, StillTyped
<1>. QED
  BY <1>1, <1>2, <1>3, ObserveTyped, DisconnectTyped,
     TakeRecordsTyped, DeliverTyped, CloseWindowTyped, DestroyTyped DEF Next, Mutations

\* A document without nodes has no cycle.
LEMMA NoneGrounded == Grounded(NoKids)
<1>1. \A m \in Node : ToSet(NoKids[m]) = {}
  BY DEF NoKids, ToSet
<1>. QED
  BY <1>1 DEF Grounded

\* A step that tells the change of children to those who see it, and makes no cycle.
HeardStep == Grounded(kids') /\ ChangesHeard

\* Every step: the children told, and no cycle made.
LEMMA StepHeard == IInv /\ RInv /\ Grounded(kids) /\ [Next]_vars => HeardStep
<1>. SUFFICES ASSUME IInv, RInv, Grounded(kids), [Next]_vars PROVE HeardStep
  OBVIOUS
<1>1. ASSUME Mutations PROVE HeardStep
  BY <1>1, MutationsPlaced, PlacedHeard DEF RInv, HeardStep
<1>2. ASSUME UNCHANGED kids PROVE HeardStep
  BY <1>2 DEF ChangesHeard, HeardStep
<1>3. CASE Destroy
  <2>1. phase' # phase /\ kids' = NoKids
    BY <1>3 DEF Destroy
  <2>. QED
    BY <2>1, NoneGrounded DEF ChangesHeard, HeardStep
<1>4. ASSUME NEW o \in Observer, NEW target \in Node, NEW options \in Options, Observe(o, target, options) PROVE HeardStep
  BY <1>2, <1>4 DEF Observe
<1>5. ASSUME NEW o \in Observer, Disconnect(o) \/ TakeRecords(o) \/ Drop(o) PROVE HeardStep
  BY <1>2, <1>5 DEF Disconnect, TakeRecords, Drop
<1>6. CASE Deliver \/ CloseWindow
  BY <1>2, <1>6 DEF Deliver, CloseWindow
<1>7. CASE UNCHANGED vars
  BY <1>2, <1>7 DEF vars
<1>. QED
  BY <1>1, <1>3, <1>4, <1>5, <1>6, <1>7 DEF Next, Mutations

\* The inductive invariants hold together.
LEMMA AllHold == Spec => [](IInv /\ RInv /\ Grounded(kids))
<1>1. Init => IInv /\ RInv /\ Grounded(kids)
  BY InitHolds, InitTyped DEF Init, Forests
<1>2. IInv /\ RInv /\ Grounded(kids) /\ [Next]_vars => IInv' /\ RInv' /\ Grounded(kids)'
  BY StepHolds, StepTyped, StepHeard DEF HeardStep
<1>. QED
  BY <1>1, <1>2, PTL DEF Spec

\* What they say of types.
LEMMA Typed == IInv /\ RInv => TypeOK
<1>. SUFFICES ASSUME IInv, RInv PROVE TypeOK
  OBVIOUS
<1>1. kids \in [Node -> Seq(Element)]
  BY DEF RInv, Family, Trees
<1>2. registered \in Seq(Observer) /\ IsInjective(registered) /\ ToSet(registered) \subseteq Observer
  <2>1. registered \in Seq(Observer) /\ IsInjective(registered)
    BY DEF IInv, RegistryKept
  <2>. QED
    BY <2>1 DEF ToSet
<1>3. watch \in [Observer -> Seq(Observation)]
  <2>1. ASSUME NEW o \in Observer PROVE watch[o] \in Seq(Observation)
    <3>1. PICK s : s = watch[o]
      OBVIOUS
    <3>2. s \in Seq(ToSet(s))
      BY <3>1 DEF IInv, WatchKept, WellKept
    <3>3. PICK X : X = Observation
      OBVIOUS
    <3>4. \A i \in DOMAIN s : s[i] \in X
      BY <3>1, <3>3 DEF RInv, AllHonest
    <3>5. s \in Seq(X)
      <4>1. PICK Y : Y = ToSet(s)
        OBVIOUS
      <4>2. s \in Seq(Y)
        BY <3>2, <4>1
      <4>. QED
        BY ONLY <3>4, <4>2
    <3>. QED
      BY <3>1, <3>3, <3>5
  <2>2. watch = [o \in Observer |-> watch[o]]
    BY DEF IInv, WatchKept
  <2>. QED
    BY <2>1, <2>2
<1>4. \A o \in Observer : \A i, j \in DOMAIN watch[o] : watch[o][i].target = watch[o][j].target => i = j
  BY DEF RInv, AllApart
<1>5. nextKey \in Nat /\ nextKey <= MaxKeys /\ MaxKeys \in Nat
  BY MutationObserversAssumption DEF IInv, WatchKept, RInv, RestTyped
<1>6. \A obs \in Observations : obs.key < nextKey
  <2>. SUFFICES ASSUME NEW o \in Observer, NEW i \in DOMAIN watch[o] PROVE watch[o][i].key < nextKey
    BY DEF Observations, ToSet
  <2>. QED
    BY OwnFacts
<1>7. microtasks \in Seq([observer : Observer, key : ObservationKey])
  <2>1. microtasks \in Seq(Deliveries) /\ \A d \in ToSet(microtasks) : d.key < nextKey
    BY DEF IInv, MicrotasksKept
  <2>2. \A i \in DOMAIN microtasks : microtasks[i] \in Deliveries /\ microtasks[i].key < nextKey
    BY <2>1, SeqFacts DEF ToSet
  <2>3. \A i \in DOMAIN microtasks : microtasks[i] \in [observer : Observer, key : ObservationKey]
    <3>. TAKE i \in DOMAIN microtasks
    <3>1. PICK d : d = microtasks[i]
      OBVIOUS
    <3>2. d \in [observer : Observer, key : Nat] /\ d.key < nextKey
      BY <2>2, <3>1 DEF Deliveries
    <3>3. d.key \in Nat
      BY <3>2
    <3>4. d.key \in ObservationKey
      BY <1>5, <3>2, <3>3 DEF ObservationKey
    <3>5. d \in [observer : Observer, key : ObservationKey]
      BY <3>2, <3>4
    <3>. QED
      BY <3>1, <3>5
  <2>4. PICK D : D = [observer : Observer, key : ObservationKey]
    OBVIOUS
  <2>5. PICK E : E = Deliveries
    OBVIOUS
  <2>6. microtasks \in Seq(E) /\ \A i \in DOMAIN microtasks : microtasks[i] \in D
    BY <2>1, <2>3, <2>4, <2>5
  <2>7. microtasks \in Seq(D)
    BY ONLY <2>6
  <2>. QED
    BY <2>4, <2>7
<1>8. callbacks \subseteq Observer /\ phase \in {"open", "closed", "destroyed"} /\ view \in [ObservationKey -> SUBSET Links]
  BY DEF RInv, RestTyped, Views
<1>. QED
  BY <1>1, <1>2, <1>3, <1>4, <1>5, <1>6, <1>7, <1>8 DEF TypeOK

\* What they say of one observation.
LEMMA HonestAll ==
  ASSUME IInv, RInv, NEW obs \in Observations, view[obs.key] # {Null}, NEW rs, rs = About(obs.records, obs.target)
  PROVE  /\ Replayed(view[obs.key], rs) = ToSet(kids[obs.target])
         /\ \A i \in DOMAIN rs : SiblingsIn(Replayed(view[obs.key], SubSeq(rs, 1, i - 1)), rs[i])
<1>1. PICK o \in Observer : obs \in ToSet(watch[o])
  BY DEF Observations
<1>2. PICK i \in DOMAIN watch[o] : obs = watch[o][i]
  BY <1>1 DEF ToSet
<1>3. obs \in Observation /\ Honest(kids, view[obs.key], obs)
  BY <1>2, OwnFacts
<1>. QED
  BY <1>3, HonestTells

(***************************************************************************)
(* Every variable holds a value of its kind, a key is used once and an     *)
(* observer observes a target once, for any nodes, observers and options   *)
(* (observe, queue_observer_record, pending_observer_deliveries).          *)
(***************************************************************************)
THEOREM TypesAlways == Spec => []TypeOK
<1>1. IInv /\ RInv => TypeOK
  BY Typed
<1>. QED
  BY <1>1, AllHold, PTL

(***************************************************************************)
(* The records handed over and those still queued tell the children of the *)
(* target, whatever entry of the mutation API changed them (detach,        *)
(* link_detached_chain_between, replace_child).                            *)
(***************************************************************************)
THEOREM RecordsAlwaysTell == Spec => []RecordsTellChildren
<1>1. IInv /\ RInv => RecordsTellChildren
  BY HonestAll DEF RecordsTellChildren
<1>. QED
  BY <1>1, AllHold, PTL

(***************************************************************************)
(* The siblings a removal record names were other children of the target   *)
(* when it was queued, and two different ones (detach, replace_child).     *)
(***************************************************************************)
THEOREM SiblingsAlwaysThere == Spec => []SiblingsWereThere
<1>1. ASSUME IInv, RInv PROVE SiblingsWereThere
  <2>1. ASSUME NEW obs \in Observations, view[obs.key] # {Null}, NEW rs, rs = About(obs.records, obs.target)
        PROVE  \A i \in DOMAIN rs : SiblingsIn(Replayed(view[obs.key], SubSeq(rs, 1, i - 1)), rs[i])
    BY <1>1, <2>1, HonestAll
  <2>. QED
    BY <2>1 DEF SiblingsWereThere, SiblingsIn
<1>2. IInv /\ RInv => SiblingsWereThere
  BY <1>1
<1>. QED
  BY <1>2, AllHold, PTL

(***************************************************************************)
(* An observation of a subtree that sees a node before and after a call    *)
(* gets records that tell how its children changed, and none of a node it  *)
(* sees neither time, whichever entry of the mutation API was called       *)
(* (observation_interested walks the tree that the record was queued in).  *)
(***************************************************************************)
THEOREM SubtreesAlwaysHear == Spec => SubtreeChangesHeard
<1>1. IInv /\ RInv /\ Grounded(kids) /\ [Next]_vars => [ChangesHeard]_vars
  BY StepHeard DEF HeardStep
<1>. QED
  BY <1>1, AllHold, PTL DEF Spec, SubtreeChangesHeard, ChangesHeard
=============================================================================
