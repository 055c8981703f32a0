------------------------- MODULE MutationObservers --------------------------
(***************************************************************************)
(* MutationObserver: the records the mutation API queues for interested    *)
(* observations (dom/mutation_observer.rs, the chokepoints and             *)
(* replace_child of dom/mutation.rs), the microtasks the binding schedules *)
(* for them (mutation_observer_api.rs) and what the callbacks are handed.  *)
(* A call of the API is one action; a callback's own calls are the actions *)
(* that follow its delivery.                                               *)
(*                                                                         *)
(* Records of type characterData are queued as those of attributes are,    *)
(* under a flag of their own, and are not told apart from them.            *)
(***************************************************************************)
EXTENDS ForestOps, FiniteSets

CONSTANTS
  Fragment,   \* the nodes that are DocumentFragments
  Observer,
  Options,    \* the options that observers pass to observe
  MaxKeys,    \* bound on the observations that are ever registered
  MaxQueued   \* no mutation is explored while more records are queued for one

ASSUME MutationObserversAssumption ==
  /\ Fragment \subseteq Node /\ Null \notin Node
  /\ Options \subseteq [types : SUBSET {"childList", "attributes"}, subtree : BOOLEAN]
  /\ MaxKeys \in Nat \ {0} /\ MaxQueued \in Nat

Element == Node \ Fragment
ObservationKey == 0 .. MaxKeys - 1
RecordType == {"childList", "attributes"}

VARIABLES
  kids,        \* the children of every node
  registered,  \* observers with an entry in the document, in order of entry
  watch,       \* the observations of every observer
  nextKey,     \* next_observation_key
  microtasks,  \* deliveries the facade has queued, first to run first
  callbacks,   \* observers in the binding's callback registry
  phase,       \* of the window and its document
  view         \* history: children of each observation's target, as its
               \* records told them; {Null} if they were not all asked for

vars == <<kids, registered, watch, nextKey, microtasks, callbacks, phase, view>>

Links == Node \cup {Null}

MutationRecord ==
  [type : RecordType, target : Node, added : Links, removed : Links,
   previousSibling : Links, nextSibling : Links]

Observation ==
  [key : ObservationKey, target : Node, types : SUBSET RecordType,
   subtree : BOOLEAN, records : Seq(MutationRecord), microtaskQueued : BOOLEAN]

-----------------------------------------------------------------------------
(***************************************************************************)
(* The records of the chokepoints.                                         *)
(***************************************************************************)
Sibling(k, n, offset) ==
  LET p == Owner(k, n)
      i == IF p = Null THEN 0 ELSE Position(k[p], n) + offset
  IN  IF p # Null /\ i \in DOMAIN k[p] THEN k[p][i] ELSE Null

PreviousSibling(k, n) == Sibling(k, n, -1)
NextSibling(k, n) == Sibling(k, n, 1)

ChildListRemoved(target, n, pv, nx) ==
  [type |-> "childList", target |-> target, added |-> Null, removed |-> n,
   previousSibling |-> pv, nextSibling |-> nx]

ChildListAdded(target, n) ==
  [type |-> "childList", target |-> target, added |-> n, removed |-> Null,
   previousSibling |-> Null, nextSibling |-> Null]

AttributeRecord(el) ==
  [type |-> "attributes", target |-> el, added |-> Null, removed |-> Null,
   previousSibling |-> Null, nextSibling |-> Null]

(***************************************************************************)
(* A mutation in progress: the tree it has reached, and its records so     *)
(* far, each with the tree its interested observations are found in.       *)
(***************************************************************************)
Begun == [kids |-> kids, log |-> <<>>]

\* Records, each of them queued for those interested in the tree k.
InTree(k, records) == [i \in DOMAIN records |-> [kids |-> k, record |-> records[i]]]

Log(s, record) == [s EXCEPT !.log = Append(@, [kids |-> s.kids, record |-> record])]

\* detach: the record is queued before the links of n are cut.
Detached(s, n) ==
  LET p == Owner(s.kids, n)
      pv == PreviousSibling(s.kids, n)
      nx == NextSibling(s.kids, n)
  IN  IF p = Null THEN s
      ELSE [Log(s, ChildListRemoved(p, n, pv, nx)) EXCEPT !.kids = Without(@, {n})]

DetachedAll(s, xs) ==
  LET after[i \in 0 .. Len(xs)] == IF i = 0 THEN s ELSE Detached(after[i - 1], xs[i])
  IN  after[Len(xs)]

\* link_detached_chain_between: the records are queued after xs are linked.
Linked(s, p, xs, ref) ==
  LET k == [s.kids EXCEPT ![p] = PutBefore(@, ref, xs)]
  IN  [kids |-> k,
       log |-> s.log \o InTree(k, [i \in DOMAIN xs |-> ChildListAdded(p, xs[i])])]

\* What moves when n is inserted: n itself, or the children of a fragment.
Moving(n) == IF n \in Fragment THEN kids[n] ELSE <<n>>

-----------------------------------------------------------------------------
(***************************************************************************)
(* observation_interested and queue_observer_record, for each record of a  *)
(* mutation in turn.                                                       *)
(***************************************************************************)

\* Mutant: a subtree is the children of the target.
InterestedInChildren(k, obs, record) ==
  /\ record.type \in obs.types
  /\ obs.target = record.target \/ (obs.subtree /\ Owner(k, record.target) = obs.target)

Interested(k, obs, record) ==
  /\ record.type \in obs.types
  /\ obs.target = record.target \/ (obs.subtree /\ Inside(k, obs.target, record.target))

RecordsFor(obs, log) ==
  LET heard == Keeping(log, {e \in ToSet(log) : Interested(e.kids, obs, e.record)})
  IN  [i \in DOMAIN heard |-> heard[i].record]

Queued(log) ==
  [o \in Observer |-> [i \in DOMAIN watch[o] |->
     [watch[o][i] EXCEPT !.records = @ \o RecordsFor(watch[o][i], log)]]]

Full == \E o \in Observer : \E i \in DOMAIN watch[o] : Len(watch[o][i].records) > MaxQueued

(***************************************************************************)
(* pending_observer_deliveries and the scheduler of the facade: one        *)
(* microtask for each observation that has records and no microtask yet.   *)
(***************************************************************************)
Pending(obs) == obs.records # <<>> /\ ~ obs.microtaskQueued

DeliveriesTo(o, observations) ==
  LET waiting == Keeping(observations, {obs \in ToSet(observations) : Pending(obs)})
  IN  [i \in DOMAIN waiting |-> [observer |-> o, key |-> waiting[i].key]]

PendingDeliveries(w) ==
  FlattenSeq([j \in DOMAIN registered |-> DeliveriesTo(registered[j], w[registered[j]])])

Flagged(w) ==
  [o \in Observer |-> [i \in DOMAIN w[o] |->
     [w[o][i] EXCEPT !.microtaskQueued = @ \/ Pending(w[o][i])]]]

\* Mutant: only the first of the pending deliveries is scheduled.
ScheduleFirst(w) ==
  /\ watch' = Flagged(w)
  /\ microtasks' = microtasks \o SelectSeq(PendingDeliveries(w), LAMBDA d : d = PendingDeliveries(w)[1])

Schedule(w) ==
  /\ watch' = Flagged(w)
  /\ microtasks' = microtasks \o PendingDeliveries(w)

\* A native entry that mutates, then schedules what is pending.
Mutate(s) ==
  /\ phase # "destroyed" /\ ~ Full
  /\ kids' = s.kids
  /\ Schedule(Queued(s.log))
  /\ UNCHANGED <<registered, nextKey, callbacks, phase, view>>

\* A native entry that mutates and does not schedule.
MutateOnly(s) ==
  /\ phase # "destroyed" /\ ~ Full
  /\ kids' = s.kids
  /\ watch' = Queued(s.log)
  /\ UNCHANGED <<registered, nextKey, microtasks, callbacks, phase, view>>

-----------------------------------------------------------------------------
(***************************************************************************)
(* append_child and insert_before, where they are not refused or without   *)
(* effect.                                                                 *)
(***************************************************************************)
Holdable(p, n) == ~ Inside(kids, n, p)

InsertBefore(p, n, ref) ==
  /\ Holdable(p, n) /\ Moving(n) # <<>>
  /\ ref # n /\ (ref = Null \/ ChildOf(kids, ref, p))
  /\ ~ (Owner(kids, n) = p /\ NextSibling(kids, n) = ref)
  /\ Mutate(Linked(DetachedAll(Begun, Moving(n)), p, Moving(n), ref))

RemoveChild(c) ==
  /\ Owner(kids, c) # Null
  /\ Mutate(Detached(Begun, c))

(***************************************************************************)
(* replace_child.  The primitives run with records suppressed; then the    *)
(* records are queued in the order of the baseline: the replacement is     *)
(* removed from where it was and added, then the old child is removed.     *)
(***************************************************************************)
ReplacedKids(c, n) ==
  LET p == Owner(kids, c)
      k == Without(kids, ToSet(Moving(n)))
  IN  Without([k EXCEPT ![p] = PutBefore(@, c, Moving(n))], {c})

\* The records of the replacement's nodes.
InsertionRecords(p, n) ==
  IF n \in Fragment
  THEN FlattenSeq([i \in DOMAIN kids[n] |->
         <<ChildListRemoved(n, kids[n][i], Null, NextSibling(kids, kids[n][i])),
           ChildListAdded(p, kids[n][i])>>])
  ELSE (IF Owner(kids, n) = Null THEN <<>>
        ELSE <<ChildListRemoved(Owner(kids, n), n, PreviousSibling(kids, n),
                                NextSibling(kids, n))>>)
       \o <<ChildListAdded(p, n)>>

\* Mutant: the replacement next to the old child is not treated apart.
RemovalRecordUnadjusted(p, c, n) ==
  ChildListRemoved(p, c,
    IF Moving(n) = <<>> THEN PreviousSibling(kids, c) ELSE Last(Moving(n)),
    NextSibling(kids, c))

RemovalRecord(p, c, n) ==
  ChildListRemoved(p, c,
    IF Moving(n) = <<>> THEN PreviousSibling(kids, c) ELSE Last(Moving(n)),
    IF NextSibling(kids, c) = n THEN NextSibling(kids, n) ELSE NextSibling(kids, c))

ReplacementRecords(c, n) ==
  InsertionRecords(Owner(kids, c), n) \o <<RemovalRecord(Owner(kids, c), c, n)>>

ReplaceChild(c, n) ==
  LET p == Owner(kids, c)
  IN  /\ p # Null /\ n # c /\ Holdable(p, n)
      /\ Mutate([kids |-> ReplacedKids(c, n),
                 log |-> InTree(ReplacedKids(c, n), ReplacementRecords(c, n))])

(***************************************************************************)
(* set_text_content and set_inner_html: every child is detached, then new  *)
(* nodes are linked.  A node that nothing refers to stands for a new one.  *)
(***************************************************************************)
New(x) ==
  /\ x \in Element /\ Owner(kids, x) = Null /\ kids[x] = <<>>
  /\ \A o \in Observer : \A i \in DOMAIN watch[o] :
       /\ watch[o][i].target # x
       /\ \A r \in ToSet(watch[o][i].records) :
            x \notin {r.target, r.added, r.removed, r.previousSibling, r.nextSibling}

ReplaceChildren(p, xs) ==
  /\ kids[p] \o xs # <<>>
  /\ \A x \in ToSet(xs) : New(x) /\ x # p
  /\ Mutate(Linked(DetachedAll(Begun, kids[p]), p, xs, Null))

\* set_attribute, and remove_attribute of one that is present.
SetAttribute(el) ==
  /\ el \in Element
  /\ Mutate(Log(Begun, AttributeRecord(el)))

-----------------------------------------------------------------------------
(***************************************************************************)
(* Entries of the binding that mutate and schedule nothing: the value of   *)
(* an input whose type keeps it in the attribute, and Range's              *)
(* deleteContents and insertNode, here of a range inside one node (from    *)
(* its child number from, up to and without its child number to).          *)
(* insertNode takes the node out of its parent before the insertion is     *)
(* validated: a node that is then refused stays out.                       *)
(***************************************************************************)
SetInputValue(el) ==
  /\ el \in Element
  /\ MutateOnly(Log(Begun, AttributeRecord(el)))

RangeDeleteContents(p, from, to) ==
  /\ 1 <= from /\ from < to /\ to <= Len(kids[p]) + 1
  /\ MutateOnly(DetachedAll(Begun, SubSeq(kids[p], from, to - 1)))

RangeInsertNode(p, at, n) ==
  LET start == IF at \in DOMAIN kids[p] THEN kids[p][at] ELSE Null
      ref == IF n = start THEN NextSibling(kids, n) ELSE start
      out == Detached(Begun, n)
  IN  /\ n # p /\ at <= Len(kids[p]) + 1
      /\ IF Holdable(p, n)
         THEN MutateOnly(Linked(DetachedAll(out, Moving(n)), p, Moving(n), ref))
         ELSE Owner(kids, n) # Null /\ MutateOnly(out)

-----------------------------------------------------------------------------
(***************************************************************************)
(* observe.  An observation of the target that is already there gets the   *)
(* new options and keeps its records and its key.                          *)
(***************************************************************************)
Replayed(seen, records) ==
  LET after[i \in 0 .. Len(records)] ==
        IF i = 0 THEN seen
        ELSE (after[i - 1] \ {records[i].removed}) \cup ({records[i].added} \ {Null})
  IN  IF seen = {Null} THEN seen ELSE after[Len(records)]

About(records, n) ==
  Keeping(records, {r \in ToSet(records) : r.type = "childList" /\ r.target = n})

ObserveNew(o, target, options) ==
  /\ nextKey < MaxKeys
  /\ nextKey' = nextKey + 1
  /\ watch' = [watch EXCEPT ![o] = Append(@,
       [key |-> nextKey, target |-> target, types |-> options.types, subtree |-> options.subtree,
        records |-> <<>>, microtaskQueued |-> FALSE])]
  /\ view' = [view EXCEPT ![nextKey] =
                IF "childList" \in options.types THEN ToSet(kids[target]) ELSE {Null}]

\* Mutant: the new options come with an empty queue.
ObserveAgainAfresh(o, i, options) ==
  /\ watch' = [watch EXCEPT ![o][i].types = options.types,
                            ![o][i].subtree = options.subtree, ![o][i].records = <<>>]
  /\ view' = IF "childList" \in options.types THEN view
             ELSE [view EXCEPT ![watch[o][i].key] = {Null}]
  /\ UNCHANGED nextKey

ObserveAgain(o, i, options) ==
  /\ watch' = [watch EXCEPT ![o] = [watch[o] EXCEPT ![i] =
       [watch[o][i] EXCEPT !.types = options.types, !.subtree = options.subtree]]]
  /\ view' = IF "childList" \in options.types THEN view
             ELSE [view EXCEPT ![watch[o][i].key] = {Null}]
  /\ UNCHANGED nextKey

\* Mutant: an observation of the target that is already there is not looked for.
ObserveTwice(o, target, options) ==
  /\ phase = "open" /\ o \in callbacks
  /\ registered' = IF o \in ToSet(registered) THEN registered ELSE Append(registered, o)
  /\ ObserveNew(o, target, options)
  /\ UNCHANGED <<kids, microtasks, callbacks, phase>>

Observe(o, target, options) ==
  /\ phase = "open" /\ o \in callbacks
  /\ registered' = IF o \in ToSet(registered) THEN registered ELSE Append(registered, o)
  /\ \/ \E i \in DOMAIN watch[o] :
          watch[o][i].target = target /\ ObserveAgain(o, i, options)
     \/ /\ \A i \in DOMAIN watch[o] : watch[o][i].target # target
        /\ ObserveNew(o, target, options)
  /\ UNCHANGED <<kids, microtasks, callbacks, phase>>

\* disconnect: the observations go, with their records; the microtasks stay.
Disconnected(os) ==
  /\ watch' = [o \in Observer |-> IF o \in os THEN <<>> ELSE watch[o]]
  /\ view' = [key \in ObservationKey |->
                IF \E o \in os : \E i \in DOMAIN watch[o] : watch[o][i].key = key
                THEN {Null} ELSE view[key]]

Disconnect(o) ==
  /\ phase # "destroyed" /\ watch[o] # <<>>
  /\ Disconnected({o})
  /\ UNCHANGED <<kids, registered, nextKey, microtasks, callbacks, phase>>

\* The program is handed the records of these observations.
Handed(observations) ==
  view' = [key \in ObservationKey |->
    IF \A obs \in observations : obs.key # key THEN view[key]
    ELSE LET own == CHOOSE obs \in observations : obs.key = key
         IN  Replayed(view[key], About(own.records, own.target))]

\* Mutant: takeRecords marks its observations as scheduled no more.
TakeRecordsUnflagging(o) ==
  /\ phase # "destroyed"
  /\ \E i \in DOMAIN watch[o] : watch[o][i].records # <<>>
  /\ watch' = [watch EXCEPT ![o] = [i \in DOMAIN @ |->
                 [@[i] EXCEPT !.records = <<>>, !.microtaskQueued = FALSE]]]
  /\ Handed(ToSet(watch[o]))
  /\ UNCHANGED <<kids, registered, nextKey, microtasks, callbacks, phase>>

(***************************************************************************)
(* takeRecords empties the queues of every observation of o; their         *)
(* microtasks stay scheduled.                                              *)
(***************************************************************************)
TakeRecords(o) ==
  /\ phase # "destroyed"
  /\ \E i \in DOMAIN watch[o] : watch[o][i].records # <<>>
  /\ watch' = [watch EXCEPT ![o] =
       [i \in DOMAIN watch[o] |-> [watch[o][i] EXCEPT !.records = <<>>]]]
  /\ Handed(ToSet(watch[o]))
  /\ UNCHANGED <<kids, registered, nextKey, microtasks, callbacks, phase>>

(***************************************************************************)
(* deliver_observer_records, run by the first microtask: the callback gets *)
(* the records of the observation, if it is still there and has any.       *)
(***************************************************************************)
Deliver ==
  /\ microtasks # <<>>
  /\ microtasks' = Tail(microtasks)
  /\ LET o == Head(microtasks).observer
         Due(obs) == obs.key = Head(microtasks).key
     IN  IF o \notin callbacks THEN UNCHANGED <<watch, view, callbacks>>
         ELSE IF phase = "destroyed"
         THEN callbacks' = callbacks \ {o} /\ UNCHANGED <<watch, view>>
         ELSE /\ watch' = [watch EXCEPT ![o] = [i \in DOMAIN watch[o] |->
                   IF Due(watch[o][i])
                   THEN [watch[o][i] EXCEPT !.records = <<>>, !.microtaskQueued = FALSE]
                   ELSE watch[o][i]]]
              /\ Handed({obs \in ToSet(watch[o]) : Due(obs)})
              /\ UNCHANGED callbacks
  /\ UNCHANGED <<kids, registered, nextKey, phase>>

(***************************************************************************)
(* closeWindow disconnects the window's observers, and observes for them   *)
(* no more; destroy drops the document with all it holds.  An observer     *)
(* that observes nothing may be collected: its handle's Drop releases the  *)
(* callback.                                                               *)
(***************************************************************************)
CloseWindow ==
  /\ phase = "open"
  /\ phase' = "closed"
  /\ Disconnected(Observer)
  /\ UNCHANGED <<kids, registered, nextKey, microtasks, callbacks>>

Destroy ==
  /\ phase # "destroyed"
  /\ phase' = "destroyed"
  /\ kids' = NoKids
  /\ registered' = <<>>
  /\ Disconnected(Observer)
  /\ UNCHANGED <<nextKey, microtasks, callbacks>>

Drop(o) ==
  /\ o \in callbacks /\ watch[o] = <<>>
  /\ callbacks' = callbacks \ {o}
  /\ UNCHANGED <<kids, registered, watch, nextKey, microtasks, phase, view>>

-----------------------------------------------------------------------------
\* There is no cycle: in every set of nodes some node has none of them as a child.
Grounded(k) == \A S \in SUBSET Node : S # {} => \E n \in S : ToSet(k[n]) \cap S = {}

\* Any tree may have been built before the first observer comes.
Forests ==
  {k \in [Node -> {s \in UNION {[1 .. len -> Element] : len \in 0 .. Cardinality(Element)} :
                     IsInjective(s)}] :
     /\ \A p, q \in Node : p # q => ToSet(k[p]) \cap ToSet(k[q]) = {}
     /\ Grounded(k)}

Init ==
  /\ kids \in Forests
  /\ registered = <<>>
  /\ watch = [o \in Observer |-> <<>>]
  /\ nextKey = 0
  /\ microtasks = <<>>
  /\ callbacks = Observer
  /\ phase = "open"
  /\ view = [key \in ObservationKey |-> {Null}]

Next ==
  \/ \E p, n \in Node, ref \in Links : InsertBefore(p, n, ref)
  \/ \E c \in Node : RemoveChild(c)
  \/ \E c, n \in Node : ReplaceChild(c, n)
  \/ \E p \in Node : ReplaceChildren(p, <<>>)
  \/ \E p, x \in Node : ReplaceChildren(p, <<x>>)
  \/ \E el \in Node : SetAttribute(el)
  \/ \E el \in Node : SetInputValue(el)
  \/ \E p \in Node : \E from, to \in 1 .. Len(kids[p]) + 1 : RangeDeleteContents(p, from, to)
  \/ \E p, n \in Node : \E at \in 1 .. Len(kids[p]) + 1 : RangeInsertNode(p, at, n)
  \/ \E o \in Observer, target \in Node, options \in Options : Observe(o, target, options)
  \/ \E o \in Observer : Disconnect(o)
  \/ \E o \in Observer : TakeRecords(o)
  \/ Deliver
  \/ CloseWindow
  \/ Destroy
  \/ \E o \in Observer : Drop(o)

\* The host runs its microtasks as soon as the task at hand returns.
Spec == Init /\ [][Next]_vars /\ WF_vars(Deliver)

-----------------------------------------------------------------------------
\* The observations of all observers.
Observations == UNION {ToSet(watch[o]) : o \in Observer}

(***************************************************************************)
(* Every variable holds a value of its kind; a key is used once, and an    *)
(* observer observes a target once.                                        *)
(***************************************************************************)
TypeOK ==
  /\ kids \in [Node -> Seq(Element)]
  /\ IsInjective(registered) /\ ToSet(registered) \subseteq Observer
  /\ watch \in [Observer -> Seq(Observation)]
  /\ \A o \in Observer : \A i, j \in DOMAIN watch[o] :
       watch[o][i].target = watch[o][j].target => i = j
  /\ nextKey \in 0 .. MaxKeys
  /\ \A obs \in Observations : obs.key < nextKey
  /\ microtasks \in Seq([observer : Observer, key : ObservationKey])
  /\ callbacks \subseteq Observer
  /\ phase \in {"open", "closed", "destroyed"}
  /\ view \in [ObservationKey -> SUBSET Links]

(***************************************************************************)
(* An observation is marked as scheduled exactly while one microtask, and  *)
(* one only, is on its way to it, however takeRecords, disconnect and      *)
(* observe are mixed with deliveries (pending_observer_deliveries,         *)
(* take_observer_records).                                                 *)
(***************************************************************************)
ScheduledOnce ==
  phase # "destroyed" =>
    /\ IsInjective(microtasks)
    /\ \A o \in Observer : \A i \in DOMAIN watch[o] :
         watch[o][i].microtaskQueued
           <=> [observer |-> o, key |-> watch[o][i].key] \in ToSet(microtasks)

(***************************************************************************)
(* The records a callback or takeRecords handed over, and those still      *)
(* queued, tell the children of the target: none is missing, doubled or    *)
(* out of order, whatever moved, replaced or cleared the children, and     *)
(* whichever entry did (detach, link_detached_chain_between,               *)
(* replace_child, the replacement of an observation's options).            *)
(***************************************************************************)
RecordsTellChildren ==
  \A obs \in Observations :
    view[obs.key] # {Null} =>
      Replayed(view[obs.key], About(obs.records, obs.target)) = ToSet(kids[obs.target])

(***************************************************************************)
(* The siblings a removal record names were, when it was queued, other     *)
(* children of the target, and two different ones: the corrections of      *)
(* replace_child for a replacement that was itself a sibling are right.    *)
(***************************************************************************)
SiblingsWereThere ==
  \A obs \in Observations :
    LET records == About(obs.records, obs.target)
    IN  view[obs.key] # {Null} =>
          \A i \in DOMAIN records :
            LET r == records[i]
                around == {r.previousSibling, r.nextSibling} \ {Null}
            IN  r.removed # Null =>
                  /\ around \cup {r.removed}
                       \subseteq Replayed(view[obs.key], SubSeq(records, 1, i - 1))
                  /\ r.removed \notin around
                  /\ r.previousSibling = r.nextSibling => around = {}

\* The records observation i of o gets in a step that neither hands over nor drops any.
Gained(o, i) ==
  LET before == watch[o][i].records
  IN  SubSeq(watch'[o][i].records, Len(before) + 1, Len(watch'[o][i].records))

Hears(k, obs, n) ==
  /\ "childList" \in obs.types
  /\ obs.target = n \/ (obs.subtree /\ Inside(k, obs.target, n))

(***************************************************************************)
(* Whenever a call changes the children of a node that an observation of   *)
(* the subtree sees before and after the call, the observation gets        *)
(* records that tell the change, those of one call in an order that makes  *)
(* sense; a node that it sees neither before nor after adds no record      *)
(* (observation_interested against the tree of the moment).                *)
(***************************************************************************)
SubtreeChangesHeard ==
  [][kids' # kids /\ phase' = phase =>
       \A o \in Observer : \A i \in DOMAIN watch[o] : \A n \in Node :
         LET told == About(Gained(o, i), n)
             before == Hears(kids, watch[o][i], n)
             after == Hears(kids', watch[o][i], n)
         IN  /\ before /\ after => Replayed(ToSet(kids[n]), told) = ToSet(kids'[n])
             /\ ~ before /\ ~ after => told = <<>>]_vars

(***************************************************************************)
(* A scheduled observation is drained or given up: no microtask is lost    *)
(* and none waits for ever.                                                *)
(***************************************************************************)
ScheduledIsDrained ==
  \A key \in ObservationKey :
    (\E obs \in Observations : obs.key = key /\ obs.microtaskQueued)
      ~> (phase = "destroyed" \/
          \A obs \in Observations : obs.key = key => ~ obs.microtaskQueued)

(***************************************************************************)
(* mutation_observer_api.rs:24 "after every mutating native entry, the     *)
(* binding calls schedule_pending_observer_deliveries".                    *)
(***************************************************************************)
NoneStranded ==
  phase # "destroyed" => \A obs \in Observations : ~ Pending(obs)
=============================================================================
