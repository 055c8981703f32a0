---------------------------- MODULE WindowProofs ----------------------------
(***************************************************************************)
(* However many windows, timers, microtasks, requests and waits a program  *)
(* has, the tasks of a window are exact: what is at work holds its task,   *)
(* a closed window is quiet, no cancelled callback runs.                   *)
(***************************************************************************)
EXTENDS MCWindow, TLAPS

-----------------------------------------------------------------------------
(* The inductive invariant.                                                  *)

(* An id that was not handed out yet is nowhere.                             *)
JobsFresh == \A j \in Jobs : IF job[j].kind = "none" THEN job[j] = NoJob /\ run # j
                                                     ELSE job[j].win \in Windows

(* The host has given up every dropped timer: only microtasks cannot be      *)
(* taken back from it.                                                       *)
DroppedIsStill ==
  \A j \in Jobs : job[j].kind # "microtask" /\ job[j].dropped => ~job[j].host

(* An interval that may still be invoked, or is, has not passed its limit.   *)
TurnsLeft ==
  \A j \in Jobs : job[j].kind = "interval" /\ (job[j].host \/ run = j)
                    => job[j].iterations <= MaxIterations

ClosedIsEmpty == \A w \in Windows : owner[w].closed => owner[w].tasks = {}

(* The part of TasksBacked about timers and microtasks.                      *)
JobsBacked ==
  \A w \in Windows, j \in Jobs :
    /\ job[j].win = w /\ job[j].host /\ ~job[j].dropped => j \in owner[w].tasks
    /\ j \in owner[w].tasks => /\ job[j].win = w
                               /\ world # "strangers" => job[j].host /\ ~job[j].dropped

(* A request that was not made yet is as new, every other has its window.    *)
RequestSited(f) == IF fetch[f].promise = "none" THEN fetch[f] = NewFetch
                                                ELSE fetch[f].win \in Windows

(* The part of TasksBacked about requests.                                   *)
RequestBacked(f) ==
  \A w \in Windows :
    /\ SendTask(f) \in owner[w].tasks => fetch[f].win = w /\ fetch[f].promise = "pending"
    /\ BodyTask(f) \in owner[w].tasks <=> fetch[f].win = w /\ fetch[f].body = "flowing"

(* A request in flight that was not aborted still holds its task, and nobody *)
(* has settled its promise: this is what an abort of the window finds.       *)
InFlightHolds(f) ==
  fetch[f].send \in InFlight /\ ~fetch[f].aborted =>
    /\ fetch[f].race = "none" /\ fetch[f].promise = "pending"
    /\ SendTask(f) \in owner[fetch[f].win].tasks

(* An aborted request has no flowing body; a body that is over has taken its *)
(* listener with it, and so has a promise that is settled.                   *)
BodyStopped(f) ==
  /\ fetch[f].aborted => fetch[f].body # "flowing"
  /\ fetch[f].bodyOwned /\ fetch[f].body # "flowing" => ~fetch[f].listening
  /\ fetch[f].promise \in Settled /\ fetch[f].body # "flowing" => ~fetch[f].listening

RequestSound(f) == RequestSited(f) /\ RequestBacked(f) /\ InFlightHolds(f) /\ BodyStopped(f)

JobsInv == JobsFresh /\ DroppedIsStill /\ TurnsLeft /\ JobsBacked
FetchInv == \A f \in Fetches : RequestSound(f)
IInv == TypeOK /\ IdleExact /\ ClosedIsEmpty /\ JobsInv /\ FetchInv

-----------------------------------------------------------------------------
(* What the operators of the owner do to an owner.                           *)

OwnerSound(o) ==
  /\ o \in Owner
  /\ o.idle <=> (o.tasks = {} /\ o.waiters # {})
  /\ o.closed => o.tasks = {}

LEMMA OwnersSound ==
  ASSUME owner \in [Windows -> Owner]
  PROVE  (\A w \in Windows : OwnerSound(owner[w])) <=> IdleExact /\ ClosedIsEmpty
BY DEF OwnerSound, IdleExact, ClosedIsEmpty

LEMMA FreshOwnerSound == \A traced \in BOOLEAN : OwnerSound(NewOwner(traced))
BY DEF OwnerSound, NewOwner, Owner

LEMMA TokensDiffer ==
  /\ Jobs \subseteq Tokens
  /\ \A f \in Fetches : SendTask(f) \in Tokens /\ BodyTask(f) \in Tokens
  /\ \A f, g : SendTask(f) # BodyTask(g) /\ (SendTask(f) = SendTask(g) => f = g)
                                         /\ (BodyTask(f) = BodyTask(g) => f = g)
  /\ \A f \in Fetches : SendTask(f) \notin Jobs /\ BodyTask(f) \notin Jobs
BY TokensAssumption DEF Tokens, SendTask, BodyTask

LEMMA StartFacts ==
  ASSUME NEW o, OwnerSound(o), ~o.closed, NEW t \in Tokens
  PROVE  OwnerSound(Start(o, t)) /\ Start(o, t).tasks = o.tasks \cup {t}
         /\ Start(o, t).timers = o.timers
BY DEF OwnerSound, Start, Owner

LEMMA EndFacts ==
  ASSUME NEW o, OwnerSound(o), NEW t
  PROVE  OwnerSound(End(o, t)) /\ End(o, t).tasks = o.tasks \ {t}
BY DEF OwnerSound, End, CheckIdle, Owner

(* A wait arms the checkpoint of an owner without tasks by itself.           *)
LEMMA WaitOnFacts ==
  ASSUME NEW o \in Owner, o.idle \/ o.closed => o.tasks = {}, NEW p \in Waits \cup {Teardown}
  PROVE  OwnerSound(WaitOn(o, p)) /\ WaitOn(o, p).tasks = o.tasks
<1>. DEFINE q == [o EXCEPT !.waiters = @ \cup {p}]
            c == CheckIdle(q)
<1>1. q \in Owner /\ q.tasks = o.tasks /\ q.waiters # {} /\ q.closed = o.closed /\ q.idle = o.idle
  BY DEF Owner
<1>. HIDE DEF q
<1>2. c \in Owner /\ c.tasks = o.tasks /\ c.waiters # {} /\ c.closed = o.closed
      /\ (c.idle <=> c.tasks = {})
  BY <1>1 DEF CheckIdle, Owner
<1>3. WaitOn(o, p) = [c EXCEPT !.debug = @ \/ o.traced] /\ o.traced \in BOOLEAN
  BY DEF WaitOn, c, q, Owner
<1>. HIDE DEF c
<1>. QED
  BY <1>2, <1>3 DEF OwnerSound, Owner

LEMMA AbortOwnerFacts ==
  ASSUME NEW o \in Owner, NEW close \in BOOLEAN
  PROVE  OwnerSound(AbortOwner(o, close)) /\ AbortOwner(o, close).tasks = {}
<1>. DEFINE q == [o EXCEPT !.closed = @ \/ close, !.tasks = {}, !.timers = {}]
<1>1. q \in Owner /\ q.tasks = {} /\ AbortOwner(o, close) = WaitOn(q, Teardown)
  BY DEF AbortOwner, Owner
<1>. HIDE DEF q
<1>. QED
  BY <1>1, WaitOnFacts

LEMMA ClearedOwnerFacts ==
  ASSUME \A v \in Windows : OwnerSound(owner[v]), owner \in [Windows -> Owner],
         NEW w \in Windows, NEW j \in Jobs
  PROVE  \E o : /\ ClearedOwner(w, j) = [owner EXCEPT ![w] = o] /\ OwnerSound(o)
                /\ o.tasks = IF job[j].host THEN owner[w].tasks \ {j} ELSE owner[w].tasks
<1>. DEFINE q == [owner[w] EXCEPT !.timers = @ \ {j}]
            o == IF job[j].host THEN End(q, j) ELSE q
<1>1. OwnerSound(q) /\ q.tasks = owner[w].tasks
  BY DEF OwnerSound, Owner
<1>2. ClearedOwner(w, j) = [owner EXCEPT ![w] = o]
  BY DEF ClearedOwner
<1>. HIDE DEF q
<1>3. OwnerSound(End(q, j)) /\ End(q, j).tasks = q.tasks \ {j}
  BY <1>1, EndFacts
<1>. QED
  BY <1>1, <1>2, <1>3

-----------------------------------------------------------------------------
(* What a step that only changes some part of the state keeps.               *)

(* Nothing a request relies on changes with the tasks of others.             *)
LEMMA RequestFrame ==
  ASSUME NEW f \in Fetches, RequestSound(f), fetch'[f] = fetch[f],
         \A w \in Windows : /\ SendTask(f) \in owner'[w].tasks <=> SendTask(f) \in owner[w].tasks
                            /\ BodyTask(f) \in owner'[w].tasks <=> BodyTask(f) \in owner[w].tasks
  PROVE  RequestSound(f)'
<1>1. RequestSited(f)' /\ RequestBacked(f)' /\ BodyStopped(f)'
  BY DEF RequestSound, RequestSited, RequestBacked, BodyStopped
<1>2. InFlightHolds(f)'
  <2>. SUFFICES ASSUME fetch[f].send \in InFlight, ~fetch[f].aborted
                PROVE  /\ fetch[f].race = "none" /\ fetch[f].promise = "pending"
                       /\ SendTask(f) \in owner'[fetch[f].win].tasks
    BY DEF InFlightHolds
  <2>1. /\ fetch[f].race = "none" /\ fetch[f].promise = "pending"
        /\ SendTask(f) \in owner[fetch[f].win].tasks
    BY DEF RequestSound, InFlightHolds
  <2>2. fetch[f].win \in Windows
    BY <2>1 DEF RequestSound, RequestSited
  <2>. QED
    BY <2>1, <2>2
<1>. QED
  BY <1>1, <1>2 DEF RequestSound

LEMMA FetchFrame ==
  ASSUME FetchInv, UNCHANGED fetch,
         \A w \in Windows : \A f \in Fetches :
            /\ SendTask(f) \in owner'[w].tasks <=> SendTask(f) \in owner[w].tasks
            /\ BodyTask(f) \in owner'[w].tasks <=> BodyTask(f) \in owner[w].tasks
  PROVE  FetchInv'
BY RequestFrame DEF FetchInv

LEMMA JobsFrame ==
  ASSUME JobsInv, UNCHANGED <<job, run, world>>,
         \A w \in Windows : \A j \in Jobs : j \in owner'[w].tasks <=> j \in owner[w].tasks
  PROVE  JobsInv'
BY DEF JobsInv, JobsFresh, DroppedIsStill, TurnsLeft, JobsBacked

LEMMA OneOwnerChanges ==
  ASSUME owner \in [Windows -> Owner], \A v \in Windows : OwnerSound(owner[v]),
         NEW w \in Windows, NEW o, OwnerSound(o), owner' = [owner EXCEPT ![w] = o]
  PROVE  /\ owner' \in [Windows -> Owner] /\ IdleExact' /\ ClosedIsEmpty'
         /\ \A v \in Windows : owner'[v] = IF v = w THEN o ELSE owner[v]
BY DEF OwnerSound, IdleExact, ClosedIsEmpty

LEMMA Sound ==
  ASSUME IInv
  PROVE  owner \in [Windows -> Owner] /\ \A v \in Windows : OwnerSound(owner[v])
BY OwnersSound DEF IInv, TypeOK

-----------------------------------------------------------------------------
LEMMA IInvInit == Init => IInv
<1>. SUFFICES ASSUME Init PROVE IInv
  OBVIOUS
<1>1. /\ owner \in [Windows -> Owner]
      /\ \A v \in Windows : OwnerSound(owner[v]) /\ owner[v].tasks = {}
  BY FreshOwnerSound DEF Init, TasksInit, OwnerSound, NewOwner
<1>2. IdleExact /\ ClosedIsEmpty
  BY <1>1, OwnersSound
<1>3. NoJob \in Job /\ NewFetch \in FetchRecord
  BY TasksAssumption DEF NoJob, NewJob, Job, Kinds, NewFetch, FetchRecord, Settled
<1>4. TypeOK
  BY <1>1, <1>3 DEF TypeOK, Init, TasksInit, FetchInit, NewXhr, NoSend, XhrRecord, SendRecord
<1>5. JobsInv
  BY <1>1, TasksAssumption DEF JobsInv, JobsFresh, DroppedIsStill, TurnsLeft, JobsBacked, Init, TasksInit, NoJob, NewJob
<1>6. FetchInv
  BY <1>1 DEF FetchInv, RequestSound, RequestSited, RequestBacked, InFlightHolds, BodyStopped,
              Init, FetchInit, NewFetch, InFlight, Settled
<1>. QED
  BY <1>2, <1>4, <1>5, <1>6 DEF IInv

(***************************************************************************)
(* The calls of the program.                                               *)
(***************************************************************************)
LEMMA ScheduleKeeps ==
  ASSUME IInv, UNCHANGED <<world, fvars>>, NEW w \in Windows, NEW j \in Jobs, NEW k \in Kinds,
         Schedule(w, j, k)
  PROVE  IInv'
<1>. DEFINE n == NewJob(w, k, TRUE)
            o == IF k = "microtask" THEN Start(owner[w], j) ELSE StartTimer(owner[w], j)
<1>1. /\ job[j] = NoJob /\ run # j /\ ~owner[w].closed
      /\ owner \in [Windows -> Owner] /\ \A v \in Windows : OwnerSound(owner[v])
  BY Sound DEF Schedule, IInv, JobsInv, JobsFresh
<1>2. job' = [job EXCEPT ![j] = n] /\ owner' = [owner EXCEPT ![w] = o]
      /\ UNCHANGED <<wait, run, world>>
  BY DEF Schedule
<1>3. n \in Job /\ n.kind = k /\ n.kind # "none" /\ n.win = w /\ n.host /\ ~n.dropped
      /\ n.iterations = 0
  BY TasksAssumption DEF Job, NewJob, Kinds
<1>4. OwnerSound(o) /\ o.tasks = owner[w].tasks \cup {j}
  <2>1. OwnerSound(Start(owner[w], j)) /\ Start(owner[w], j).tasks = owner[w].tasks \cup {j}
    BY <1>1, TokensDiffer, StartFacts
  <2>. QED
    BY <2>1 DEF OwnerSound, Owner, StartTimer
<1>. HIDE DEF n, o
<1>5. /\ owner' \in [Windows -> Owner] /\ IdleExact' /\ ClosedIsEmpty'
      /\ \A v \in Windows : \A t :
            t \in owner'[v].tasks <=> t \in owner[v].tasks \/ (v = w /\ t = j)
  BY <1>1, <1>2, <1>4, OneOwnerChanges
<1>6. TypeOK'
  BY <1>2, <1>3, <1>5 DEF IInv, TypeOK, fvars
<1>7. JobsInv'
  <2>1. \A i \in Jobs : job'[i] = IF i = j THEN n ELSE job[i]
    BY <1>2 DEF IInv, TypeOK
  <2>2. JobsFresh' /\ DroppedIsStill' /\ TurnsLeft'
    BY <1>2, <1>3, <2>1, TasksAssumption DEF JobsFresh, DroppedIsStill, TurnsLeft, IInv, JobsInv
  <2>3. \A v \in Windows : j \in owner'[v].tasks <=> v = w
    BY <1>1, <1>5, TasksAssumption DEF JobsBacked, IInv, JobsInv, NoJob, NewJob
  <2>4. JobsBacked'
    BY <1>2, <1>3, <1>5, <2>1, <2>3 DEF JobsBacked, IInv, JobsInv
  <2>. QED
    BY <2>2, <2>4 DEF JobsInv
<1>8. FetchInv'
  BY <1>5, TokensDiffer, FetchFrame DEF IInv, fvars
<1>. QED
  BY <1>5, <1>6, <1>7, <1>8 DEF IInv

(* Whatever happens to one timer or microtask: it may lose its place at the  *)
(* host, and then its task is gone unless a stranger did it.                 *)
JobStep(j, w, o) ==
  /\ UNCHANGED <<world, fetch, xhr, send, wait>>
  /\ job[j].kind # "none"
  /\ job' \in [Jobs -> Job] /\ \A i \in Jobs \ {j} : job'[i] = job[i]
  /\ job'[j].kind = job[j].kind /\ job'[j].win = job[j].win
  /\ owner' = [owner EXCEPT ![w] = o]
  /\ \A t : t # j => (t \in o.tasks <=> t \in owner[w].tasks)
  /\ j \in o.tasks => j \in owner[w].tasks
  /\ job'[j].host => /\ job[j].host /\ job'[j].dropped = job[j].dropped
                     /\ j \in owner[w].tasks => j \in o.tasks
  /\ ~job'[j].host => world = "strangers" \/ (w = job[j].win /\ j \notin o.tasks)
  /\ run' = run \/ run' = Idle \/ run' = j
  /\ job[j].kind = "interval" /\ (job'[j].host \/ run' = j) => job'[j].iterations <= MaxIterations

LEMMA JobStepKeeps ==
  ASSUME IInv, NEW j \in Jobs, NEW w \in Windows, NEW o, OwnerSound(o), JobStep(j, w, o)
  PROVE  IInv'
<1>. USE DEF JobStep
<1>1. /\ owner' \in [Windows -> Owner] /\ IdleExact' /\ ClosedIsEmpty'
      /\ \A v \in Windows : owner'[v] = IF v = w THEN o ELSE owner[v]
  <2>. owner \in [Windows -> Owner] /\ \A v \in Windows : OwnerSound(owner[v])
    BY Sound
  <2>. QED
    BY OneOwnerChanges
<1>2. TypeOK'
  BY <1>1 DEF IInv, TypeOK
<1>3. JobsInv'
  <2>1. JobsFresh'
    BY TasksAssumption DEF JobsFresh, IInv, JobsInv
  <2>2. DroppedIsStill'
    BY DEF DroppedIsStill, IInv, JobsInv
  <2>3. TurnsLeft'
    <3>. SUFFICES ASSUME NEW i \in Jobs, job'[i].kind = "interval", job'[i].host \/ run' = i
                  PROVE  job'[i].iterations <= MaxIterations
      BY DEF TurnsLeft
    <3>1. CASE i = j
      BY <3>1
    <3>2. CASE i # j
      BY <3>2, TasksAssumption DEF TurnsLeft, IInv, JobsInv
    <3>. QED
      BY <3>1, <3>2
  <2>4. JobsBacked'
    <3>1. \A v \in Windows : \A i \in Jobs : i # j => (i \in owner'[v].tasks <=> i \in owner[v].tasks)
      BY <1>1
    <3>2. \A v \in Windows : /\ j \in owner'[v].tasks => j \in owner[v].tasks
                             /\ v # w \/ job'[j].host => (j \in owner'[v].tasks <=> j \in owner[v].tasks)
      BY <1>1
    <3>3. ~job'[j].host /\ world # "strangers" => \A v \in Windows : j \notin owner'[v].tasks
      BY <1>1, <3>2 DEF JobsBacked, IInv, JobsInv
    <3>4. world' = world
      OBVIOUS
    <3>5. \A v \in Windows :
            /\ job'[j].win = v /\ job'[j].host /\ ~job'[j].dropped => j \in owner'[v].tasks
            /\ j \in owner'[v].tasks =>
                 /\ job'[j].win = v
                 /\ world' # "strangers" => job'[j].host /\ ~job'[j].dropped
      BY <3>2, <3>3, <3>4 DEF JobsBacked, IInv, JobsInv
    <3>. QED
      BY <3>1, <3>4, <3>5 DEF JobsBacked, IInv, JobsInv
  <2>. QED
    BY <2>1, <2>2, <2>3, <2>4 DEF JobsInv
<1>4. FetchInv'
  <2>1. \A v \in Windows : \A f \in Fetches :
          /\ SendTask(f) \in owner'[v].tasks <=> SendTask(f) \in owner[v].tasks
          /\ BodyTask(f) \in owner'[v].tasks <=> BodyTask(f) \in owner[v].tasks
    BY <1>1, TokensDiffer
  <2>. QED
    BY <2>1, FetchFrame DEF IInv
<1>. QED
  BY <1>1, <1>2, <1>3, <1>4 DEF IInv

(* The owner's side of such a step: the timer is cleared through window w.   *)
LEMMA ClearingKeeps ==
  ASSUME IInv, UNCHANGED <<world, fvars, wait>>,
         NEW j \in Jobs, job[j].kind # "none",
         job' \in [Jobs -> Job], \A i \in Jobs \ {j} : job'[i] = job[i],
         job'[j].kind = job[j].kind, job'[j].win = job[j].win, ~job'[j].host,
         NEW w \in Windows, owner' = ClearedOwner(w, j),
         world = "strangers" \/ w = job[j].win,
         run' = run \/ run' = Idle \/ run' = j,
         job[j].kind = "interval" /\ run' = j => job'[j].iterations <= MaxIterations
  PROVE  IInv'
<1>. /\ owner \in [Windows -> Owner]
     /\ \A v \in Windows : OwnerSound(owner[v])
  BY Sound
<1>1. PICK o : /\ ClearedOwner(w, j) = [owner EXCEPT ![w] = o] /\ OwnerSound(o)
               /\ o.tasks = IF job[j].host THEN owner[w].tasks \ {j} ELSE owner[w].tasks
  BY ClearedOwnerFacts, Zenon
<1>2. /\ \A t : t # j => (t \in o.tasks <=> t \in owner[w].tasks)
      /\ j \in o.tasks => j \in owner[w].tasks /\ ~job[j].host
  BY <1>1
<1>3. world = "strangers" \/ (w = job[j].win /\ j \notin o.tasks)
  BY <1>2 DEF JobsBacked, IInv, JobsInv
<1>4. JobStep(j, w, o)
  BY <1>1, <1>2, <1>3 DEF JobStep, fvars
<1>. QED
  BY <1>1, <1>4, JobStepKeeps

(* A step of one timer or microtask that touches no owner.                   *)
LEMMA JobAloneKeeps ==
  ASSUME IInv, UNCHANGED <<world, fvars, wait, owner>>,
         NEW j \in Jobs, job[j].kind # "none",
         job' \in [Jobs -> Job], \A i \in Jobs \ {j} : job'[i] = job[i],
         job'[j].kind = job[j].kind, job'[j].win = job[j].win,
         job'[j].host = job[j].host, job'[j].dropped = job[j].dropped,
         run' = run \/ run' = Idle \/ run' = j,
         job[j].kind = "interval" /\ (job'[j].host \/ run' = j)
            => job'[j].iterations <= MaxIterations
  PROVE  IInv'
<1>. DEFINE w == job[j].win
<1>1. w \in Windows /\ owner \in [Windows -> Owner] /\ OwnerSound(owner[w])
  BY Sound DEF IInv, JobsInv, JobsFresh
<1>2. owner' = [owner EXCEPT ![w] = owner[w]]
  BY <1>1
<1>3. ~job'[j].host => world = "strangers" \/ (w = job[j].win /\ j \notin owner[w].tasks)
  BY <1>1 DEF JobsBacked, IInv, JobsInv
<1>4. JobStep(j, w, owner[w])
  BY <1>2, <1>3 DEF JobStep, fvars, IInv, JobsInv
<1>. HIDE DEF w
<1>. QED
  BY <1>1, <1>4, JobStepKeeps

LEMMA ClearedFacts ==
  ASSUME NEW r \in Job
  PROVE  /\ Cleared(r) \in Job /\ Cleared(r).kind = r.kind /\ Cleared(r).win = r.win
         /\ ~Cleared(r).host /\ Cleared(r).dropped /\ Cleared(r).iterations = r.iterations
BY DEF Cleared, Job

LEMMA ClearedJobFacts ==
  ASSUME job \in [Jobs -> Job], NEW j \in Jobs
  PROVE  /\ ClearedJob(j) \in [Jobs -> Job] /\ \A i \in Jobs \ {j} : ClearedJob(j)[i] = job[i]
         /\ ClearedJob(j)[j] = Cleared(job[j])
BY ClearedFacts DEF ClearedJob

LEMMA InvokedFacts ==
  ASSUME NEW r \in Job, NEW outcome, r.kind = "interval" => r.iterations <= MaxIterations
  PROVE  /\ Invoked(r, outcome) \in Job
         /\ Invoked(r, outcome).kind = r.kind /\ Invoked(r, outcome).win = r.win
         /\ Invoked(r, outcome).host = r.host /\ Invoked(r, outcome).dropped = r.dropped
         /\ Invoked(r, outcome).iterations =
              IF r.kind = "interval" THEN r.iterations + 1 ELSE r.iterations
<1>. DEFINE k == IF r.kind = "interval" THEN r.iterations + 1 ELSE r.iterations
            b == r.rejected \/ outcome = "rejects"
<1>1. k \in 0 .. MaxIterations + 1 /\ b \in BOOLEAN
  BY TasksAssumption DEF Job
<1>2. Invoked(r, outcome) = [r EXCEPT !.iterations = k, !.rejected = b]
  BY Zenon DEF Invoked
<1>. HIDE DEF k, b
<1>3. /\ Invoked(r, outcome) \in Job
      /\ Invoked(r, outcome).kind = r.kind /\ Invoked(r, outcome).win = r.win
      /\ Invoked(r, outcome).host = r.host /\ Invoked(r, outcome).dropped = r.dropped
      /\ Invoked(r, outcome).iterations = k
  BY <1>1, <1>2 DEF Job
<1>. QED
  BY <1>3 DEF k

LEMMA ClearKeeps ==
  ASSUME IInv, UNCHANGED <<world, fvars>>, NEW w \in Windows, NEW j \in Jobs,
         world = "strangers" \/ w = job[j].win, Clear(w, j)
  PROVE  IInv'
<1>1. /\ job[j].kind # "none" /\ job' = ClearedJob(j) /\ owner' = ClearedOwner(w, j)
      /\ UNCHANGED <<wait, run>>
  BY DEF Clear, Kinds
<1>2. run = j /\ job[j].kind = "interval" => job[j].iterations <= MaxIterations
  BY DEF IInv, JobsInv, TurnsLeft
<1>. job \in [Jobs -> Job]
  BY DEF IInv, TypeOK
<1>. QED
  BY <1>1, <1>2, ClearedJobFacts, ClearedFacts, ClearingKeeps

LEMMA WaitKeeps ==
  ASSUME IInv, UNCHANGED <<world, fvars>>, NEW w \in Windows, NEW p \in Waits,
         WaitUntilComplete(w, p)
  PROVE  IInv'
<1>. DEFINE o == WaitOn(owner[w], p)
<1>1. owner \in [Windows -> Owner] /\ \A v \in Windows : OwnerSound(owner[v])
  BY Sound
<1>2. OwnerSound(o) /\ o.tasks = owner[w].tasks
  BY <1>1, WaitOnFacts DEF OwnerSound
<1>3. owner' = [owner EXCEPT ![w] = o] /\ wait' = [wait EXCEPT ![p] = "pending"]
      /\ UNCHANGED <<job, run>>
  BY DEF WaitUntilComplete
<1>. HIDE DEF o
<1>4. /\ owner' \in [Windows -> Owner] /\ IdleExact' /\ ClosedIsEmpty'
      /\ \A v \in Windows : owner'[v].tasks = owner[v].tasks
  BY <1>1, <1>2, <1>3, OneOwnerChanges
<1>5. TypeOK'
  BY <1>3, <1>4 DEF IInv, TypeOK, fvars
<1>6. JobsInv' /\ FetchInv'
  BY <1>3, <1>4, JobsFrame, FetchFrame DEF IInv, fvars
<1>. QED
  BY <1>4, <1>5, <1>6 DEF IInv

(***************************************************************************)
(* The host loop.                                                          *)
(***************************************************************************)
LEMMA TimerKeeps ==
  ASSUME IInv, UNCHANGED <<world, fvars>>, NEW j \in Jobs, TimerFires(j)
  PROVE  IInv'
<1>. DEFINE w == job[j].win
<1>1. job \in [Jobs -> Job] /\ run = Idle /\ job[j].host /\ job[j].kind # "none" /\ w \in Windows
  BY DEF IInv, TypeOK, JobsInv, JobsFresh, TimerFires, HostTurn, NoJob, NewJob
<1>2. job[j].kind = "interval" => job[j].iterations <= MaxIterations
  BY <1>1 DEF IInv, JobsInv, TurnsLeft
<1>3. UNCHANGED wait /\ (run' = Idle \/ run' = j)
  BY DEF TimerFires
<1>4. CASE job[j].kind # "interval" \/ owner[w].closed
  <2>1. job' = [job EXCEPT ![j].host = FALSE] /\ owner' = ClearedOwner(w, j)
    BY <1>4 DEF TimerFires
  <2>2. /\ job' \in [Jobs -> Job] /\ \A i \in Jobs \ {j} : job'[i] = job[i]
        /\ job'[j].kind = job[j].kind /\ job'[j].win = job[j].win /\ ~job'[j].host
        /\ job'[j].iterations = job[j].iterations
    BY <1>1, <2>1 DEF Job
  <2>. HIDE DEF w
  <2>3. w = job[j].win
    BY DEF w
  <2>. QED
    BY <1>1, <1>2, <1>3, <2>1, <2>2, <2>3, ClearingKeeps
<1>5. CASE ~(job[j].kind # "interval" \/ owner[w].closed)
  <2>1. UNCHANGED <<job, owner>>
    BY <1>5 DEF TimerFires
  <2>. QED
    BY <1>1, <1>2, <1>3, <2>1, JobAloneKeeps
<1>. QED
  BY <1>4, <1>5

LEMMA MicrotaskKeeps ==
  ASSUME IInv, UNCHANGED <<world, fvars>>, NEW j \in Jobs, MicrotaskRuns(j)
  PROVE  IInv'
<1>. DEFINE w == job[j].win
            o == End(owner[w], j)
<1>1. job \in [Jobs -> Job] /\ job[j].kind = "microtask" /\ w \in Windows
  BY DEF IInv, TypeOK, JobsInv, JobsFresh, MicrotaskRuns
<1>2. owner' = [owner EXCEPT ![w] = o] /\ UNCHANGED wait /\ (run' = Idle \/ run' = j)
  BY DEF MicrotaskRuns
<1>3. OwnerSound(o) /\ o.tasks = owner[w].tasks \ {j}
  BY <1>1, Sound, EndFacts
<1>4. /\ job' \in [Jobs -> Job] /\ \A i \in Jobs \ {j} : job'[i] = job[i]
      /\ job'[j].kind = job[j].kind /\ job'[j].win = job[j].win /\ ~job'[j].host
  BY <1>1 DEF Job, MicrotaskRuns
<1>. HIDE DEF o
<1>5. JobStep(j, w, o)
  BY <1>1, <1>2, <1>3, <1>4 DEF JobStep, fvars
<1>. QED
  BY <1>1, <1>3, <1>5, JobStepKeeps

LEMMA CallbackEndsKeeps ==
  ASSUME IInv, UNCHANGED <<world, fvars>>, NEW outcome, CallbackEnds(outcome)
  PROVE  IInv'
<1>. DEFINE j == run
            stop == job[j].kind = "interval" /\ (outcome = "throws" \/ LastIteration(j))
            r == IF stop THEN Cleared(job[j]) ELSE job[j]
<1>1. /\ j \in Jobs /\ job \in [Jobs -> Job] /\ job[j].kind # "none" /\ job[j].win \in Windows
      /\ job[j].iterations \in 0 .. MaxIterations + 1
  BY DEF IInv, TypeOK, JobsInv, JobsFresh, CallbackEnds, Job
<1>2. job[j].kind = "interval" => job[j].iterations <= MaxIterations
  BY <1>1 DEF IInv, JobsInv, TurnsLeft
<1>3. /\ r \in Job /\ r.kind = job[j].kind /\ r.win = job[j].win /\ r.iterations = job[j].iterations
      /\ stop => ~r.host
      /\ ~stop => r.host = job[j].host /\ r.dropped = job[j].dropped
  BY <1>1, ClearedFacts
<1>4. /\ job' = [job EXCEPT ![j] = Invoked(r, outcome)]
      /\ owner' = IF stop THEN ClearedOwner(job[j].win, j) ELSE owner
      /\ run' = Idle /\ UNCHANGED wait
  BY DEF CallbackEnds
<1>. HIDE DEF r
<1>5. /\ job' \in [Jobs -> Job] /\ \A i \in Jobs \ {j} : job'[i] = job[i]
      /\ job'[j] = Invoked(r, outcome)
      /\ job'[j].kind = job[j].kind /\ job'[j].win = job[j].win
      /\ job'[j].host = r.host /\ job'[j].dropped = r.dropped
      /\ job[j].kind = "interval" => job'[j].iterations = job[j].iterations + 1
  BY <1>1, <1>2, <1>3, <1>4, InvokedFacts
<1>6. run' = j => FALSE
  BY <1>1, <1>4, TasksAssumption
<1>7. CASE stop
  BY <1>1, <1>3, <1>4, <1>5, <1>6, <1>7, ClearingKeeps
<1>8. CASE ~stop
  <2>1. job[j].kind = "interval" => job'[j].iterations <= MaxIterations
    BY <1>1, <1>2, <1>5, <1>8, TasksAssumption DEF LastIteration
  <2>. QED
    BY <1>1, <1>3, <1>4, <1>5, <1>8, <2>1, JobAloneKeeps
<1>. QED
  BY <1>7, <1>8

LEMMA RejectionKeeps ==
  ASSUME IInv, UNCHANGED <<world, fvars>>, NEW j \in Jobs, RejectionArrives(j)
  PROVE  IInv'
<1>1. /\ job \in [Jobs -> Job] /\ job[j].kind # "none" /\ job[j].win \in Windows
  BY DEF IInv, TypeOK, JobsInv, JobsFresh, RejectionArrives, NoJob, NewJob
<1>2. UNCHANGED <<wait, run>> /\ run' # j
  BY TasksAssumption DEF RejectionArrives
<1>3. CASE job[j].kind = "interval"
  <2>. DEFINE r == Cleared(job[j])
              n == [r EXCEPT !.rejected = FALSE]
  <2>1. r \in Job /\ r.kind = job[j].kind /\ r.win = job[j].win /\ ~r.host
    BY <1>1, ClearedFacts
  <2>2. job' = [job EXCEPT ![j] = n] /\ owner' = ClearedOwner(job[j].win, j)
    BY <1>3 DEF RejectionArrives
  <2>. HIDE DEF r
  <2>3. n \in Job /\ n.kind = r.kind /\ n.win = r.win /\ ~n.host
    BY <2>1 DEF Job
  <2>. HIDE DEF n
  <2>4. /\ job' \in [Jobs -> Job] /\ \A i \in Jobs \ {j} : job'[i] = job[i] /\ job'[j] = n
    BY <1>1, <2>2, <2>3
  <2>. QED
    BY <1>1, <1>2, <2>1, <2>2, <2>3, <2>4, ClearingKeeps
<1>4. CASE job[j].kind # "interval"
  <2>. DEFINE n == [job[j] EXCEPT !.rejected = FALSE]
  <2>1. n \in Job /\ n.kind = job[j].kind /\ n.win = job[j].win /\ n.host = job[j].host
        /\ n.dropped = job[j].dropped
    BY <1>1 DEF Job
  <2>2. job' = [job EXCEPT ![j] = n] /\ UNCHANGED owner
    BY <1>4 DEF RejectionArrives
  <2>. HIDE DEF n
  <2>3. /\ job' \in [Jobs -> Job] /\ \A i \in Jobs \ {j} : job'[i] = job[i] /\ job'[j] = n
    BY <1>1, <2>1, <2>2
  <2>. QED
    BY <1>1, <1>2, <1>4, <2>1, <2>2, <2>3, JobAloneKeeps
<1>. QED
  BY <1>3, <1>4

LEMMA SettleFacts ==
  ASSUME TypeOK, NEW ps, NEW result \in Settled, wait' = Settle(ps, result)
  PROVE  wait' \in [Waits -> {"none", "pending", "resolved", "rejected"}]
BY DEF TypeOK, Settle, Settled

LEMMA IdleTimerKeeps ==
  ASSUME IInv, UNCHANGED <<world, fvars>>, NEW w \in Windows, IdleTimerFires(w)
  PROVE  IInv'
<1>1. owner \in [Windows -> Owner] /\ \A v \in Windows : OwnerSound(owner[v])
  BY Sound
<1>2. \E o : owner' = [owner EXCEPT ![w] = o] /\ OwnerSound(o) /\ o.tasks = owner[w].tasks
  <2>1. CASE owner[w].tasks # {}
    <3>. DEFINE o == [owner[w] EXCEPT !.idle = FALSE]
    <3>1. owner' = [owner EXCEPT ![w] = o]
      BY <2>1 DEF IdleTimerFires
    <3>2. OwnerSound(o) /\ o.tasks = owner[w].tasks
      BY <1>1, <2>1 DEF OwnerSound, Owner
    <3>. HIDE DEF o
    <3>. QED
      BY <3>1, <3>2
  <2>2. CASE owner[w].tasks = {}
    <3>. DEFINE o == [owner[w] EXCEPT !.idle = FALSE, !.debug = FALSE, !.waiters = {}]
    <3>1. owner' = [owner EXCEPT ![w] = o]
      BY <1>1, <2>2 DEF IdleTimerFires
    <3>2. OwnerSound(o) /\ o.tasks = owner[w].tasks
      BY <1>1, <2>2 DEF OwnerSound, Owner
    <3>. HIDE DEF o
    <3>. QED
      BY <3>1, <3>2
  <2>. QED
    BY <2>1, <2>2
<1>3. /\ owner' \in [Windows -> Owner] /\ IdleExact' /\ ClosedIsEmpty'
      /\ \A v \in Windows : owner'[v].tasks = owner[v].tasks
  BY <1>1, <1>2, OneOwnerChanges
<1>4. UNCHANGED <<job, run>> /\ wait' \in [Waits -> {"none", "pending", "resolved", "rejected"}]
  <2>1. UNCHANGED <<job, run>> /\ (UNCHANGED wait \/ wait' = Settle(owner[w].waiters, "resolved"))
    BY DEF IdleTimerFires
  <2>. QED
    BY <2>1, SettleFacts DEF IInv, TypeOK, Settled
<1>5. TypeOK'
  BY <1>3, <1>4 DEF IInv, TypeOK, fvars
<1>6. JobsInv' /\ FetchInv'
  BY <1>3, <1>4, JobsFrame, FetchFrame DEF IInv, fvars
<1>. QED
  BY <1>3, <1>5, <1>6 DEF IInv

(***************************************************************************)
(* The requests.                                                           *)
(***************************************************************************)

(* A step of one request f: what it makes of f and of the owner of f's tasks.*)
RequestStep(f, r, w, o) ==
  /\ UNCHANGED <<world, job, wait, run>>
  /\ fetch' = [fetch EXCEPT ![f] = r]
  /\ owner' = [owner EXCEPT ![w] = o]
  /\ \A t : t \notin {SendTask(f), BodyTask(f)} => (t \in o.tasks <=> t \in owner[w].tasks)
  /\ xhr' \in [Xhrs -> XhrRecord] /\ send' \in [Fetches -> SendRecord]

LEMMA RequestStepKeeps ==
  ASSUME IInv, NEW f \in Fetches, NEW r \in FetchRecord, NEW w \in Windows, NEW o, OwnerSound(o),
         RequestStep(f, r, w, o), RequestSound(f)'
  PROVE  IInv'
<1>. USE DEF RequestStep
<1>1. /\ owner' \in [Windows -> Owner] /\ IdleExact' /\ ClosedIsEmpty'
      /\ \A v \in Windows : owner'[v] = IF v = w THEN o ELSE owner[v]
  <2>. owner \in [Windows -> Owner] /\ \A v \in Windows : OwnerSound(owner[v])
    BY Sound
  <2>. QED
    BY OneOwnerChanges
<1>2. TypeOK'
  BY <1>1 DEF IInv, TypeOK
<1>3. JobsInv'
  <2>1. \A v \in Windows : \A j \in Jobs : j \in owner'[v].tasks <=> j \in owner[v].tasks
    BY <1>1, TokensDiffer
  <2>. QED
    BY <2>1, JobsFrame DEF IInv
<1>4. FetchInv'
  <2>. SUFFICES ASSUME NEW g \in Fetches, g # f
                PROVE  RequestSound(g)'
    BY DEF FetchInv
  <2>1. fetch'[g] = fetch[g]
    BY DEF IInv, TypeOK
  <2>2. \A v \in Windows : /\ SendTask(g) \in owner'[v].tasks <=> SendTask(g) \in owner[v].tasks
                           /\ BodyTask(g) \in owner'[v].tasks <=> BodyTask(g) \in owner[v].tasks
    BY <1>1, TokensDiffer
  <2>. QED
    BY <2>1, <2>2, RequestFrame DEF IInv, FetchInv
<1>. QED
  BY <1>1, <1>2, <1>3, <1>4 DEF IInv

(* Nothing but the request itself changes.                                   *)
LEMMA RequestAloneKeeps ==
  ASSUME IInv, UNCHANGED <<world, tvars>>, NEW f \in Fetches, fetch[f].promise # "none",
         NEW r \in FetchRecord, fetch' = [fetch EXCEPT ![f] = r], RequestSound(f)',
         xhr' \in [Xhrs -> XhrRecord], send' \in [Fetches -> SendRecord]
  PROVE  IInv'
<1>. DEFINE w == fetch[f].win
<1>1. w \in Windows /\ owner \in [Windows -> Owner] /\ OwnerSound(owner[w])
  BY Sound DEF IInv, FetchInv, RequestSound, RequestSited
<1>. HIDE DEF w
<1>2. RequestStep(f, r, w, owner[w])
  BY <1>1 DEF RequestStep, tvars
<1>. QED
  BY <1>1, <1>2, RequestStepKeeps

LEMMA AbortControllerFacts ==
  ASSUME NEW r \in FetchRecord
  PROVE  LET a == AbortController(r) IN
         /\ a \in FetchRecord /\ a.aborted /\ a.win = r.win /\ a.promise = r.promise
         /\ a.send = r.send /\ a.bodyOwned = r.bodyOwned
         /\ a.listening => r.listening
         /\ IF r.aborted THEN a = r ELSE a.body # "flowing"
         /\ r.body # "flowing" => a.body = r.body
         /\ ~r.aborted /\ r.body = "flowing" => ~a.listening
<1>1. CASE r.aborted
  BY <1>1 DEF AbortController
<1>2. CASE ~r.aborted
  <2>. DEFINE race == IF r.race = "none" THEN "abort" ELSE r.race
              body == IF r.body = "flowing" THEN "failed" ELSE r.body
              listening == r.listening /\ r.body # "flowing"
              a == [r EXCEPT !.aborted = TRUE, !.race = race, !.body = body,
                             !.listening = listening]
  <2>1. AbortController(r) = a
    BY <1>2, Zenon DEF AbortController
  <2>2. /\ race \in {"none", "answer", "failure", "abort"}
        /\ body \in {"none", "flowing", "ended", "failed"} /\ listening \in BOOLEAN
    BY DEF FetchRecord
  <2>. HIDE DEF race, body, listening
  <2>3. /\ a \in FetchRecord /\ a.aborted /\ a.win = r.win /\ a.promise = r.promise
        /\ a.send = r.send /\ a.bodyOwned = r.bodyOwned /\ a.body = body
        /\ a.listening = listening
    BY <2>2 DEF FetchRecord
  <2>. HIDE DEF a
  <2>. QED
    BY <1>2, <2>1, <2>3 DEF body, listening
<1>. QED
  BY <1>1, <1>2

LEMMA SendEndsFacts ==
  ASSUME NEW r \in FetchRecord, NEW how \in {"answered", "failed"}
  PROVE  LET a == SendEnds(r, how) IN
         /\ a \in FetchRecord /\ a.win = r.win /\ a.promise = r.promise /\ a.aborted = r.aborted
         /\ a.body = r.body /\ a.bodyOwned = r.bodyOwned /\ a.listening = r.listening
         /\ a.send \notin InFlight
<1>. DEFINE race == IF r.race # "none" THEN r.race
                    ELSE IF how = "answered" THEN "answer" ELSE "failure"
            a == [r EXCEPT !.send = how, !.race = race]
<1>1. SendEnds(r, how) = a
  BY Zenon DEF SendEnds
<1>2. race \in {"none", "answer", "failure", "abort"}
  BY DEF FetchRecord
<1>. HIDE DEF race
<1>3. /\ a \in FetchRecord /\ a.win = r.win /\ a.promise = r.promise /\ a.aborted = r.aborted
      /\ a.body = r.body /\ a.bodyOwned = r.bodyOwned /\ a.listening = r.listening
      /\ a.send = how
  BY <1>2 DEF FetchRecord
<1>. HIDE DEF a
<1>. QED
  BY <1>1, <1>3 DEF InFlight

(* sendFetch() goes on or comes to its end without a body that flows.        *)
LEMMA SendGoesOnKeeps ==
  ASSUME IInv, UNCHANGED <<world, tvars, xhr, send>>, NEW f \in Fetches,
         fetch[f].send \in InFlight, NEW r \in FetchRecord, fetch' = [fetch EXCEPT ![f] = r],
         r.win = fetch[f].win, r.promise = fetch[f].promise, r.aborted = fetch[f].aborted,
         r.body = fetch[f].body, r.listening => fetch[f].listening /\ r.bodyOwned = fetch[f].bodyOwned,
         r.send \in InFlight => r.race = fetch[f].race
  PROVE  IInv'
<1>1. fetch'[f] = r /\ fetch[f].promise # "none" /\ fetch[f].win \in Windows
  BY DEF IInv, TypeOK, FetchInv, RequestSound, RequestSited, NewFetch, InFlight
<1>2. UNCHANGED owner
  BY DEF tvars
<1>3. RequestSound(f)
  BY DEF IInv, FetchInv
<1>4. RequestSited(f)' /\ RequestBacked(f)' /\ BodyStopped(f)'
  BY <1>1, <1>2, <1>3 DEF RequestSound, RequestSited, RequestBacked, BodyStopped
<1>5. InFlightHolds(f)'
  BY <1>1, <1>2, <1>3 DEF RequestSound, InFlightHolds
<1>6. RequestSound(f)'
  BY <1>4, <1>5 DEF RequestSound
<1>. QED
  BY <1>1, <1>6, RequestAloneKeeps DEF IInv, TypeOK

LEMMA SendMovesFacts ==
  ASSUME NEW f, NEW from, NEW next, SendMoves(f, from, next)
  PROVE  /\ fetch[f].send = from
         /\ fetch' = [fetch EXCEPT ![f] = IF fetch[f].aborted THEN SendEnds(fetch[f], "failed")
                                                               ELSE next]
         /\ UNCHANGED <<job, wait, run, xhr, send>>
BY DEF SendMoves

LEMMA InterceptedKeeps ==
  ASSUME IInv, UNCHANGED world, NEW f \in Fetches, NEW reply \in {"passes", "answers", "throws"},
         Intercepted(f, reply)
  PROVE  IInv'
<1>. DEFINE passed == [fetch[f] EXCEPT !.send = "dispatching"]
            next == CASE reply = "passes"  -> passed
                      [] reply = "answers" -> SendEnds(fetch[f], "answered")
                      [] reply = "throws"  -> SendEnds(fetch[f], "failed")
            r == IF fetch[f].aborted THEN SendEnds(fetch[f], "failed") ELSE next
<1>1. /\ fetch[f].send = "intercepting" /\ fetch' = [fetch EXCEPT ![f] = r]
      /\ UNCHANGED <<tvars, xhr, send>>
  BY DEF Intercepted, SendMoves, tvars
<1>2. fetch[f] \in FetchRecord
  BY DEF IInv, TypeOK
<1>3. /\ passed \in FetchRecord /\ passed.win = fetch[f].win /\ passed.promise = fetch[f].promise
      /\ passed.aborted = fetch[f].aborted /\ passed.body = fetch[f].body
      /\ passed.listening = fetch[f].listening /\ passed.bodyOwned = fetch[f].bodyOwned
      /\ passed.race = fetch[f].race
  BY <1>2 DEF FetchRecord, InFlight
<1>. HIDE DEF passed
<1>4. r = passed \/ \E how \in {"answered", "failed"} : r = SendEnds(fetch[f], how)
  OBVIOUS
<1>. HIDE DEF r
<1>5. /\ r \in FetchRecord /\ r.win = fetch[f].win /\ r.promise = fetch[f].promise
      /\ r.aborted = fetch[f].aborted /\ r.body = fetch[f].body
      /\ r.listening = fetch[f].listening /\ r.bodyOwned = fetch[f].bodyOwned
      /\ r.send \in InFlight => r.race = fetch[f].race
  BY <1>2, <1>3, <1>4, SendEndsFacts
<1>6. fetch[f].send \in InFlight
  BY <1>1 DEF InFlight
<1>. QED
  BY <1>1, <1>5, <1>6, SendGoesOnKeeps

LEMMA DispatchedKeeps ==
  ASSUME IInv, UNCHANGED world, NEW f \in Fetches, NEW url \in {"http", "data", "refused"},
         Dispatched(f, url)
  PROVE  IInv'
<1>. DEFINE wired == [fetch[f] EXCEPT !.send = "wire"]
            local == [fetch[f] EXCEPT !.send = "after"]
            next == CASE url = "http"    -> wired
                      [] url = "data"    -> local
                      [] url = "refused" -> SendEnds(fetch[f], "failed")
            r == IF fetch[f].aborted THEN SendEnds(fetch[f], "failed") ELSE next
<1>1. /\ fetch[f].send = "dispatching" /\ fetch' = [fetch EXCEPT ![f] = r]
      /\ UNCHANGED <<tvars, xhr, send>>
  BY DEF Dispatched, SendMoves, tvars
<1>2. fetch[f] \in FetchRecord
  BY DEF IInv, TypeOK
<1>3. \A n \in {wired, local} :
        /\ n \in FetchRecord /\ n.win = fetch[f].win /\ n.promise = fetch[f].promise
        /\ n.aborted = fetch[f].aborted /\ n.body = fetch[f].body
        /\ n.listening = fetch[f].listening /\ n.bodyOwned = fetch[f].bodyOwned
        /\ n.race = fetch[f].race
  BY <1>2 DEF FetchRecord, InFlight
<1>. HIDE DEF wired, local
<1>4. r \in {wired, local} \/ r = SendEnds(fetch[f], "failed")
  OBVIOUS
<1>. HIDE DEF r
<1>5. /\ r \in FetchRecord /\ r.win = fetch[f].win /\ r.promise = fetch[f].promise
      /\ r.aborted = fetch[f].aborted /\ r.body = fetch[f].body
      /\ r.listening = fetch[f].listening /\ r.bodyOwned = fetch[f].bodyOwned
      /\ r.send \in InFlight => r.race = fetch[f].race
  BY <1>2, <1>3, <1>4, SendEndsFacts
<1>6. fetch[f].send \in InFlight
  BY <1>1 DEF InFlight
<1>. QED
  BY <1>1, <1>5, <1>6, SendGoesOnKeeps

LEMMA AfterResponseKeeps ==
  ASSUME IInv, UNCHANGED world, NEW f \in Fetches, NEW reply, AfterResponse(f, reply)
  PROVE  IInv'
<1>. DEFINE how == IF reply = "throws" THEN "failed" ELSE "answered"
            r == IF fetch[f].aborted THEN SendEnds(fetch[f], "failed") ELSE SendEnds(fetch[f], how)
<1>1. /\ fetch[f].send = "after" /\ fetch' = [fetch EXCEPT ![f] = r]
      /\ UNCHANGED <<tvars, xhr, send>>
  BY DEF AfterResponse, SendMoves, tvars
<1>2. fetch[f] \in FetchRecord
  BY DEF IInv, TypeOK
<1>3. \E h \in {"answered", "failed"} : r = SendEnds(fetch[f], h)
  OBVIOUS
<1>. HIDE DEF r
<1>4. /\ r \in FetchRecord /\ r.win = fetch[f].win /\ r.promise = fetch[f].promise
      /\ r.aborted = fetch[f].aborted /\ r.body = fetch[f].body
      /\ r.listening = fetch[f].listening /\ r.bodyOwned = fetch[f].bodyOwned
      /\ r.send \notin InFlight
  BY <1>2, <1>3, SendEndsFacts
<1>5. fetch[f].send \in InFlight
  BY <1>1 DEF InFlight
<1>. QED
  BY <1>1, <1>4, <1>5, SendGoesOnKeeps

(* An answer with a body opens the body's task: a window that was closed in  *)
(* the meantime has aborted the request.                                     *)
LEMMA BodyFlowsKeeps ==
  ASSUME IInv, UNCHANGED <<world, job, wait, run, xhr, send>>, NEW f \in Fetches,
         fetch[f].send = "wire", ~fetch[f].aborted,
         fetch' = [fetch EXCEPT ![f] = [fetch[f] EXCEPT !.send = "after", !.bodyOwned = TRUE,
                                                        !.body = "flowing"]],
         owner' = [owner EXCEPT ![fetch[f].win] = Start(@, BodyTask(f))]
  PROVE  IInv'
<1>. DEFINE w == fetch[f].win
            o == Start(owner[w], BodyTask(f))
            r == [fetch[f] EXCEPT !.send = "after", !.bodyOwned = TRUE, !.body = "flowing"]
<1>1. RequestSound(f) /\ fetch \in [Fetches -> FetchRecord] /\ xhr \in [Xhrs -> XhrRecord]
      /\ send \in [Fetches -> SendRecord] /\ owner \in [Windows -> Owner]
  BY DEF IInv, TypeOK, FetchInv
<1>2. /\ fetch[f].race = "none" /\ fetch[f].promise = "pending"
      /\ w \in Windows /\ SendTask(f) \in owner[w].tasks
  BY <1>1 DEF RequestSound, RequestSited, InFlightHolds, InFlight
<1>3. ~owner[w].closed
  BY <1>2 DEF IInv, ClosedIsEmpty
<1>4. OwnerSound(o) /\ o.tasks = owner[w].tasks \cup {BodyTask(f)}
  BY <1>2, <1>3, Sound, TokensDiffer, StartFacts
<1>5. /\ r \in FetchRecord /\ r.win = w /\ r.promise = "pending" /\ r.race = "none"
      /\ r.body = "flowing" /\ ~r.aborted
  BY <1>1, <1>2 DEF FetchRecord, InFlight
<1>6. owner' = [owner EXCEPT ![w] = o] /\ fetch' = [fetch EXCEPT ![f] = r]
  OBVIOUS
<1>. HIDE DEF w, o, r
<1>7. /\ fetch'[f] = r
      /\ \A v \in Windows : \A t : t \in owner'[v].tasks
                                <=> (t \in owner[v].tasks \/ (v = w /\ t = BodyTask(f)))
  BY <1>1, <1>2, <1>4, <1>6
<1>8. RequestSound(f)'
  <2>1. RequestBacked(f)'
    BY <1>1, <1>2, <1>5, <1>7, TokensDiffer DEF RequestBacked, RequestSound, w
  <2>2. RequestSited(f)' /\ InFlightHolds(f)' /\ BodyStopped(f)'
    BY <1>2, <1>5, <1>7 DEF RequestSited, InFlightHolds, BodyStopped, Settled
  <2>. QED
    BY <2>1, <2>2 DEF RequestSound
<1>9. RequestStep(f, r, w, o)
  BY <1>1, <1>4, <1>6 DEF RequestStep
<1>. QED
  BY <1>2, <1>4, <1>5, <1>8, <1>9, RequestStepKeeps

LEMMA WireAnswersKeeps ==
  ASSUME IInv, UNCHANGED world, NEW f \in Fetches, NEW reply \in {"error", "empty", "body"},
         WireAnswers(f, reply)
  PROVE  IInv'
<1>. DEFINE empty == [fetch[f] EXCEPT !.send = "after", !.bodyOwned = TRUE, !.listening = FALSE]
            flows == [fetch[f] EXCEPT !.send = "after", !.bodyOwned = TRUE, !.body = "flowing"]
            next == CASE reply = "error" -> SendEnds(fetch[f], "failed")
                      [] reply = "empty" -> empty
                      [] reply = "body"  -> flows
            r == IF fetch[f].aborted THEN SendEnds(fetch[f], "failed") ELSE next
<1>1. /\ fetch[f].send = "wire" /\ fetch' = [fetch EXCEPT ![f] = r]
      /\ UNCHANGED <<job, wait, run, xhr, send>>
      /\ owner' = IF reply = "body" /\ ~fetch[f].aborted
                    THEN [owner EXCEPT ![fetch[f].win] = Start(@, BodyTask(f))] ELSE owner
  BY DEF WireAnswers, SendMoves
<1>2. fetch[f] \in FetchRecord
  BY DEF IInv, TypeOK
<1>3. CASE reply = "body" /\ ~fetch[f].aborted
  BY <1>1, <1>3, BodyFlowsKeeps
<1>4. CASE ~(reply = "body" /\ ~fetch[f].aborted)
  <2>1. /\ empty \in FetchRecord /\ empty.win = fetch[f].win /\ empty.promise = fetch[f].promise
        /\ empty.aborted = fetch[f].aborted /\ empty.body = fetch[f].body
        /\ ~empty.listening /\ empty.race = fetch[f].race
    BY <1>2 DEF FetchRecord, InFlight
  <2>. HIDE DEF empty, flows
  <2>2. r = empty \/ r = SendEnds(fetch[f], "failed")
    BY <1>4
  <2>. HIDE DEF r
  <2>3. /\ r \in FetchRecord /\ r.win = fetch[f].win /\ r.promise = fetch[f].promise
        /\ r.aborted = fetch[f].aborted /\ r.body = fetch[f].body
        /\ r.listening => fetch[f].listening /\ r.bodyOwned = fetch[f].bodyOwned
        /\ r.send \in InFlight => r.race = fetch[f].race
    BY <1>2, <2>1, <2>2, SendEndsFacts
  <2>4. fetch[f].send \in InFlight /\ UNCHANGED tvars
    BY <1>1, <1>4 DEF InFlight, tvars
  <2>. QED
    BY <1>1, <2>3, <2>4, SendGoesOnKeeps
<1>. QED
  BY <1>3, <1>4

LEMMA BodyEndsKeeps ==
  ASSUME IInv, UNCHANGED world, NEW f \in Fetches, NEW how \in {"ended", "failed"}, BodyEnds(f, how)
  PROVE  IInv'
<1>. DEFINE w == fetch[f].win
            o == End(owner[w], BodyTask(f))
            r == [fetch[f] EXCEPT !.body = how, !.listening = FALSE]
<1>1. RequestSound(f) /\ fetch \in [Fetches -> FetchRecord] /\ xhr \in [Xhrs -> XhrRecord]
      /\ send \in [Fetches -> SendRecord] /\ owner \in [Windows -> Owner]
  BY DEF IInv, TypeOK, FetchInv
<1>2. /\ fetch[f].body = "flowing" /\ fetch' = [fetch EXCEPT ![f] = r]
      /\ owner' = [owner EXCEPT ![w] = o] /\ UNCHANGED <<job, wait, run, xhr, send>>
  BY <1>1 DEF BodyEnds
<1>3. w \in Windows /\ fetch[f].promise # "none"
  BY <1>1, <1>2 DEF RequestSound, RequestSited, NewFetch
<1>4. OwnerSound(o) /\ o.tasks = owner[w].tasks \ {BodyTask(f)}
  BY <1>3, Sound, EndFacts
<1>5. /\ r \in FetchRecord /\ r.win = w /\ r.promise = fetch[f].promise /\ r.race = fetch[f].race
      /\ r.body # "flowing" /\ r.aborted = fetch[f].aborted /\ r.send = fetch[f].send
      /\ ~r.listening
  BY <1>1 DEF FetchRecord
<1>. HIDE DEF w, o, r
<1>6. /\ fetch'[f] = r
      /\ \A v \in Windows : \A t : t \in owner'[v].tasks
                                <=> (t \in owner[v].tasks /\ ~(v = w /\ t = BodyTask(f)))
  BY <1>1, <1>2, <1>3, <1>4
<1>7. RequestSound(f)'
  <2>1. RequestBacked(f)'
    BY <1>1, <1>3, <1>5, <1>6, TokensDiffer DEF RequestBacked, RequestSound, w
  <2>2. RequestSited(f)' /\ InFlightHolds(f)' /\ BodyStopped(f)'
    BY <1>1, <1>3, <1>5, <1>6, TokensDiffer
       DEF RequestSound, RequestSited, InFlightHolds, BodyStopped, w
  <2>. QED
    BY <2>1, <2>2 DEF RequestSound
<1>8. RequestStep(f, r, w, o)
  BY <1>1, <1>2, <1>4 DEF RequestStep
<1>. QED
  BY <1>3, <1>4, <1>5, <1>7, <1>8, RequestStepKeeps

LEMMA FetchSettlesKeeps ==
  ASSUME IInv, UNCHANGED world, NEW f \in Fetches, FetchSettles(f)
  PROVE  IInv'
<1>. DEFINE w == fetch[f].win
            o == End(owner[w], SendTask(f))
            promise == IF fetch[f].race = "answer" THEN "resolved" ELSE "rejected"
            listening == fetch[f].listening /\ fetch[f].bodyOwned
            r == [fetch[f] EXCEPT !.promise = promise, !.listening = listening]
<1>1. RequestSound(f) /\ fetch \in [Fetches -> FetchRecord] /\ xhr \in [Xhrs -> XhrRecord]
      /\ send \in [Fetches -> SendRecord] /\ owner \in [Windows -> Owner]
  BY DEF IInv, TypeOK, FetchInv
<1>2. /\ fetch[f].promise = "pending" /\ fetch[f].race # "none"
      /\ fetch' = [fetch EXCEPT ![f] = r]
      /\ owner' = [owner EXCEPT ![w] = o] /\ UNCHANGED <<job, wait, run, xhr, send>>
  BY <1>1 DEF FetchSettles
<1>3. w \in Windows
  BY <1>1, <1>2 DEF RequestSound, RequestSited
<1>4. OwnerSound(o) /\ o.tasks = owner[w].tasks \ {SendTask(f)}
  BY <1>3, Sound, EndFacts
<1>5. promise \in Settled /\ promise \notin {"none", "pending"} /\ listening \in BOOLEAN
  BY <1>1 DEF FetchRecord, Settled
<1>6. /\ fetch[f].bodyOwned /\ fetch[f].body # "flowing" => ~listening
      /\ ~fetch[f].bodyOwned => ~listening
  BY <1>1 DEF RequestSound, BodyStopped
<1>. HIDE DEF promise, listening
<1>7. /\ r \in FetchRecord /\ r.win = w /\ r.promise = promise /\ r.race = fetch[f].race
      /\ r.body = fetch[f].body /\ r.aborted = fetch[f].aborted /\ r.send = fetch[f].send
      /\ r.listening = listening /\ r.bodyOwned = fetch[f].bodyOwned
  BY <1>1, <1>5 DEF FetchRecord
<1>. HIDE DEF w, o, r
<1>8. /\ fetch'[f] = r
      /\ \A v \in Windows : \A t : t \in owner'[v].tasks
                                <=> (t \in owner[v].tasks /\ ~(v = w /\ t = SendTask(f)))
  BY <1>1, <1>2, <1>3, <1>4
<1>9. RequestSound(f)'
  <2>1. RequestBacked(f)'
    BY <1>1, <1>3, <1>7, <1>8, TokensDiffer DEF RequestBacked, RequestSound, w
  <2>2. RequestSited(f)'
    BY <1>3, <1>5, <1>7, <1>8 DEF RequestSited
  <2>3. InFlightHolds(f)'
    BY <1>1, <1>2, <1>7, <1>8 DEF RequestSound, InFlightHolds
  <2>4. BodyStopped(f)'
    BY <1>1, <1>6, <1>7, <1>8 DEF RequestSound, BodyStopped
  <2>. QED
    BY <2>1, <2>2, <2>3, <2>4 DEF RequestSound
<1>10. RequestStep(f, r, w, o)
  BY <1>1, <1>2, <1>4 DEF RequestStep
<1>. QED
  BY <1>3, <1>4, <1>7, <1>9, <1>10, RequestStepKeeps

LEMMA RequestKeeps ==
  ASSUME IInv, UNCHANGED world, NEW w \in Windows, NEW f \in Fetches,
         NEW valid \in BOOLEAN, NEW signalled \in BOOLEAN, Request(w, f, valid, signalled),
         xhr' \in [Xhrs -> XhrRecord], send' \in [Fetches -> SendRecord]
  PROVE  IInv'
<1>1. /\ RequestSound(f) /\ fetch \in [Fetches -> FetchRecord] /\ owner \in [Windows -> Owner]
      /\ OwnerSound(owner[w])
  BY Sound DEF IInv, TypeOK, FetchInv
<1>2. /\ fetch[f] = NewFetch /\ fetch[f].promise = "none" /\ UNCHANGED <<job, wait, run>>
      /\ NewFetch \in FetchRecord
  BY <1>1 DEF Request, RequestSound, RequestSited
<1>3. \A v \in Windows : SendTask(f) \notin owner[v].tasks /\ BodyTask(f) \notin owner[v].tasks
  BY <1>1, <1>2 DEF RequestSound, RequestBacked, NewFetch
<1>4. /\ NewFetch.race = "none" /\ NewFetch.send = "none" /\ NewFetch.body = "none"
      /\ ~NewFetch.aborted /\ ~NewFetch.listening /\ ~NewFetch.bodyOwned
  BY DEF NewFetch
<1>5. CASE owner[w].closed \/ ~valid
  <2>. DEFINE r == [NewFetch EXCEPT !.promise = "rejected", !.win = w]
  <2>1. fetch' = [fetch EXCEPT ![f] = r] /\ UNCHANGED owner
    BY <1>2, <1>5 DEF Request
  <2>2. /\ r \in FetchRecord /\ r.win = w /\ r.promise = "rejected" /\ r.send = "none"
        /\ r.body = "none" /\ ~r.aborted /\ ~r.listening
    BY <1>2, <1>4 DEF FetchRecord, Settled
  <2>. HIDE DEF r
  <2>4. fetch'[f] = r
    BY <1>1, <2>1
  <2>5. RequestSound(f)'
    BY <1>3, <2>1, <2>2, <2>4
       DEF RequestSound, RequestSited, RequestBacked, InFlightHolds, BodyStopped, InFlight
  <2>6. RequestStep(f, r, w, owner[w])
    BY <1>1, <1>2, <2>1 DEF RequestStep
  <2>. QED
    BY <1>1, <2>2, <2>5, <2>6, RequestStepKeeps
<1>6. CASE ~(owner[w].closed \/ ~valid)
  <2>. DEFINE q == [NewFetch EXCEPT !.win = w, !.promise = "pending", !.listening = TRUE,
                                    !.send = "intercepting", !.signalled = signalled]
              r == IF signalled THEN AbortController(q) ELSE q
              o == Start(owner[w], SendTask(f))
  <2>1. fetch' = [fetch EXCEPT ![f] = r] /\ owner' = [owner EXCEPT ![w] = o]
    BY <1>6 DEF Request
  <2>2. /\ q \in FetchRecord /\ q.win = w /\ q.promise = "pending" /\ q.race = "none"
        /\ q.body = "none" /\ ~q.aborted /\ ~q.bodyOwned
    BY <1>2, <1>4 DEF FetchRecord, InFlight
  <2>. HIDE DEF q
  <2>4. /\ r \in FetchRecord /\ r.win = w /\ r.promise = "pending" /\ r.body = "none"
        /\ ~r.bodyOwned /\ (~r.aborted => r.race = "none")
    BY <2>2, AbortControllerFacts
  <2>5. OwnerSound(o) /\ o.tasks = owner[w].tasks \cup {SendTask(f)}
    BY <1>1, <1>6, TokensDiffer, StartFacts
  <2>. HIDE DEF r, o
  <2>6. /\ fetch'[f] = r
        /\ \A v \in Windows : \A t : t \in owner'[v].tasks
                                  <=> (t \in owner[v].tasks \/ (v = w /\ t = SendTask(f)))
    BY <1>1, <2>1, <2>5
  <2>7. RequestSound(f)'
    <3>1. RequestBacked(f)'
      BY <1>3, <2>4, <2>6, TokensDiffer DEF RequestBacked
    <3>2. RequestSited(f)' /\ InFlightHolds(f)' /\ BodyStopped(f)'
      BY <2>4, <2>6 DEF RequestSited, InFlightHolds, BodyStopped, Settled
    <3>. QED
      BY <3>1, <3>2 DEF RequestSound
  <2>8. RequestStep(f, r, w, o)
    BY <1>2, <2>1, <2>5 DEF RequestStep
  <2>. QED
    BY <2>4, <2>5, <2>7, <2>8, RequestStepKeeps
<1>. QED
  BY <1>5, <1>6

LEMMA SignalAbortsKeeps ==
  ASSUME IInv, UNCHANGED world, NEW f \in Fetches, SignalAborts(f)
  PROVE  IInv'
<1>. DEFINE w == fetch[f].win
            q == [fetch[f] EXCEPT !.signalled = TRUE]
            r == IF q.listening THEN AbortController(q) ELSE q
            stops == q.listening /\ ~q.aborted /\ q.body = "flowing"
            o == IF stops THEN End(owner[w], BodyTask(f)) ELSE owner[w]
<1>1. RequestSound(f) /\ fetch \in [Fetches -> FetchRecord] /\ xhr \in [Xhrs -> XhrRecord]
      /\ send \in [Fetches -> SendRecord] /\ owner \in [Windows -> Owner]
  BY DEF IInv, TypeOK, FetchInv
<1>2. w \in Windows /\ fetch[f].promise # "none"
  BY <1>1 DEF SignalAborts, RequestSound, RequestSited
<1>3. /\ q \in FetchRecord /\ q.win = w /\ q.promise = fetch[f].promise /\ q.send = fetch[f].send
      /\ q.race = fetch[f].race /\ q.aborted = fetch[f].aborted /\ q.listening = fetch[f].listening
      /\ q.bodyOwned = fetch[f].bodyOwned /\ q.body = fetch[f].body
  BY <1>1 DEF FetchRecord
<1>4. /\ fetch' = [fetch EXCEPT ![f] = r] /\ UNCHANGED <<job, wait, run, xhr, send>>
      /\ owner' = [owner EXCEPT ![w] = o]
  <2>1. /\ fetch' = [fetch EXCEPT ![f] = r] /\ UNCHANGED <<job, wait, run, xhr, send>>
        /\ owner' = IF stops THEN [owner EXCEPT ![q.win] = End(@, BodyTask(f))] ELSE owner
    BY DEF SignalAborts
  <2>2. q.win = w
    BY <1>3
  <2>. HIDE DEF q, w
  <2>3. CASE stops
    BY <2>1, <2>2, <2>3
  <2>4. CASE ~stops
    <3>1. [owner EXCEPT ![w] = owner[w]] = owner
      BY <1>1
    <3>. QED
      BY <2>1, <2>4, <3>1
  <2>. QED
    BY <2>3, <2>4
<1>. HIDE DEF w, q
<1>5. /\ r \in FetchRecord /\ r.win = w /\ r.promise = q.promise /\ r.send = q.send
      /\ r.bodyOwned = q.bodyOwned
      /\ r.listening => q.listening
      /\ r.aborted => r.body # "flowing"
      /\ ~r.aborted => r.race = q.race /\ ~q.aborted
      /\ q.body # "flowing" => r.body = q.body
      /\ r.body # "flowing" => q.body # "flowing" \/ ~r.listening
      /\ stops => r.body # "flowing"
      /\ ~stops => (r.body = "flowing" <=> q.body = "flowing")
  <2>1. q.aborted => q.body # "flowing"
    BY <1>1, <1>3 DEF RequestSound, BodyStopped
  <2>. QED
    BY <1>3, <2>1, AbortControllerFacts
<1>6. OwnerSound(o) /\ o.tasks = IF stops THEN owner[w].tasks \ {BodyTask(f)} ELSE owner[w].tasks
  BY <1>2, Sound, EndFacts
<1>. HIDE DEF r, o, stops
<1>7. /\ fetch'[f] = r
      /\ \A v \in Windows : \A t :
            t \in owner'[v].tasks <=> t \in owner[v].tasks /\ ~(stops /\ v = w /\ t = BodyTask(f))
  BY <1>1, <1>2, <1>4, <1>6
<1>8. RequestSound(f)'
  <2>1. RequestBacked(f)'
    BY <1>1, <1>2, <1>3, <1>5, <1>7, TokensDiffer DEF RequestBacked, RequestSound, w, stops
  <2>2. RequestSited(f)'
    BY <1>2, <1>3, <1>5, <1>7 DEF RequestSited
  <2>3. InFlightHolds(f)'
    BY <1>1, <1>2, <1>3, <1>5, <1>7, TokensDiffer DEF RequestSound, InFlightHolds, w
  <2>4. BodyStopped(f)'
    BY <1>1, <1>3, <1>5, <1>7 DEF RequestSound, BodyStopped
  <2>. QED
    BY <2>1, <2>2, <2>3, <2>4 DEF RequestSound
<1>9. RequestStep(f, r, w, o)
  BY <1>1, <1>4, <1>6 DEF RequestStep
<1>. QED
  BY <1>2, <1>5, <1>6, <1>8, <1>9, RequestStepKeeps

(***************************************************************************)
(* An XMLHttpRequest only asks for requests and follows them.              *)
(***************************************************************************)
LEMMA XhrFrame ==
  ASSUME IInv, UNCHANGED <<world, tvars, fetch>>,
         xhr' \in [Xhrs -> XhrRecord], send' \in [Fetches -> SendRecord]
  PROVE  IInv'
<1>1. TypeOK' /\ IdleExact' /\ ClosedIsEmpty'
  BY DEF IInv, TypeOK, IdleExact, ClosedIsEmpty, tvars
<1>2. JobsInv' /\ FetchInv'
  BY JobsFrame, FetchFrame DEF IInv, tvars
<1>. QED
  BY <1>1, <1>2 DEF IInv

LEMMA XhrCallsKeep ==
  ASSUME IInv, UNCHANGED world, NEW x \in Xhrs,
         \/ \E async \in BOOLEAN : XhrOpen(x, async)
         \/ XhrSendSync(x) \/ XhrAbort(x)
  PROVE  IInv'
<1>1. xhr \in [Xhrs -> XhrRecord] /\ send \in [Fetches -> SendRecord]
  BY DEF IInv, TypeOK
<1>2. ASSUME NEW async \in BOOLEAN, XhrOpen(x, async) PROVE IInv'
  BY <1>1, <1>2, XhrFrame DEF XhrOpen, XhrRecord
<1>3. CASE XhrSendSync(x)
  BY <1>1, <1>3, XhrFrame DEF XhrSendSync, XhrRecord
<1>4. CASE XhrAbort(x)
  <2>1. UNCHANGED <<tvars, fetch>> /\ xhr' = [xhr EXCEPT ![x] = [@ EXCEPT !.aborted = TRUE]]
    BY <1>4 DEF XhrAbort
  <2>2. xhr' \in [Xhrs -> XhrRecord]
    BY <1>1, <2>1 DEF XhrRecord
  <2>3. ASSUME NEW f \in Fetches PROVE [send[f] EXCEPT !.aborted = TRUE] \in SendRecord
    BY <1>1 DEF SendRecord
  <2>4. send' \in [Fetches -> SendRecord]
    BY <1>1, <1>4, <2>3 DEF XhrAbort
  <2>. QED
    BY <2>1, <2>2, <2>4, XhrFrame
<1>. QED
  BY <1>2, <1>3, <1>4

LEMMA XhrSendKeeps ==
  ASSUME IInv, UNCHANGED world, NEW x \in Xhrs, NEW w \in Windows, NEW f \in Fetches,
         XhrSend(x, w, f)
  PROVE  IInv'
<1>1. xhr \in [Xhrs -> XhrRecord] /\ send \in [Fetches -> SendRecord]
  BY DEF IInv, TypeOK
<1>2. xhr' \in [Xhrs -> XhrRecord] /\ send' \in [Fetches -> SendRecord]
  BY <1>1 DEF XhrSend, XhrRecord, SendRecord, NoSend
<1>3. Request(w, f, TRUE, FALSE)
  BY DEF XhrSend
<1>. QED
  BY <1>2, <1>3, RequestKeeps

LEMMA XhrContinuesKeeps ==
  ASSUME IInv, UNCHANGED world, NEW f \in Fetches, XhrHeaders(f) \/ XhrDone(f)
  PROVE  IInv'
<1>1. xhr \in [Xhrs -> XhrRecord] /\ send \in [Fetches -> SendRecord]
  BY DEF IInv, TypeOK
<1>2. PICK state \in {"HEADERS_RECEIVED", "DONE"}, phase \in {"reading", "done"} :
        /\ UNCHANGED <<tvars, fetch>>
        /\ xhr' = [xhr EXCEPT ![send[f].xhr].readyState = state]
        /\ send' = [send EXCEPT ![f].phase = phase]
  BY DEF XhrHeaders, XhrDone, XhrContinues
<1>3. \A x \in Xhrs : [xhr[x] EXCEPT !.readyState = state] \in XhrRecord
  BY <1>1 DEF XhrRecord
<1>4. xhr' \in [Xhrs -> XhrRecord]
  BY <1>1, <1>2, <1>3
<1>5. [send[f] EXCEPT !.phase = phase] \in SendRecord
  BY <1>1 DEF SendRecord
<1>6. send' \in [Fetches -> SendRecord]
  BY <1>1, <1>2, <1>5
<1>. QED
  BY <1>2, <1>4, <1>6, XhrFrame

(***************************************************************************)
(* An abort: the tasks are gone before their cancel callbacks run.         *)
(***************************************************************************)
LEMMA AbortControllerStops ==
  ASSUME NEW f \in Fetches, RequestSound(f), fetch[f] \in FetchRecord, fetch[f].promise # "none",
         fetch'[f] = AbortController(fetch[f]),
         \A w \in Windows : SendTask(f) \notin owner'[w].tasks \/ SendTask(f) \in owner[w].tasks,
         \A w \in Windows : BodyTask(f) \notin owner'[w].tasks
  PROVE  RequestSound(f)'
<1>. DEFINE r == fetch[f]
            a == AbortController(r)
<1>1. /\ fetch'[f] = a /\ a.aborted /\ a.win = r.win /\ a.promise = r.promise
      /\ a.bodyOwned = r.bodyOwned /\ a.body # "flowing"
      /\ ~r.aborted /\ r.body = "flowing" => ~a.listening
      /\ a.listening => r.listening
      /\ r.body # "flowing" => a.body = r.body
      /\ r.aborted => a = r
  BY AbortControllerFacts DEF RequestSound, BodyStopped
<1>. HIDE DEF a
<1>2. RequestSited(f)' /\ InFlightHolds(f)'
  BY <1>1 DEF RequestSound, RequestSited, InFlightHolds
<1>3. RequestBacked(f)'
  BY <1>1 DEF RequestSound, RequestBacked
<1>4. BodyStopped(f)'
  BY <1>1 DEF RequestSound, BodyStopped
<1>. QED
  BY <1>2, <1>3, <1>4 DEF RequestSound

LEMMA AbortKeeps ==
  ASSUME IInv, UNCHANGED <<world, run, xhr, send>>, NEW w \in Windows, NEW o, OwnerSound(o), o.tasks = {},
         owner' = [owner EXCEPT ![w] = o],
         job' = CancelJobs(w), fetch' = CancelFetches(w),
         wait' \in [Waits -> {"none", "pending", "resolved", "rejected"}]
  PROVE  IInv'
<1>1. /\ owner' \in [Windows -> Owner] /\ IdleExact' /\ ClosedIsEmpty'
      /\ \A v \in Windows : owner'[v] = IF v = w THEN o ELSE owner[v]
  <2>. owner \in [Windows -> Owner] /\ \A v \in Windows : OwnerSound(owner[v])
    BY Sound
  <2>. QED
    BY OneOwnerChanges
<1>2. job \in [Jobs -> Job] /\ fetch \in [Fetches -> FetchRecord]
  BY DEF IInv, TypeOK
<1>. DEFINE hit(i) == job[i].win = w /\ i \in owner[w].tasks \cup owner[w].timers
<1>3. ASSUME NEW i \in Jobs
      PROVE  /\ job'[i] \in Job /\ job'[i].kind = job[i].kind /\ job'[i].win = job[i].win
             /\ job'[i].iterations = job[i].iterations
             /\ job'[i].host => job[i].host
             /\ job'[i].host => job[i].kind = "microtask" \/ job'[i].dropped = job[i].dropped
             /\ job[i].dropped => job'[i].dropped
             /\ hit(i) => job'[i].dropped
             /\ ~hit(i) => job'[i] = job[i]
  <2>. DEFINE r == [job[i] EXCEPT !.dropped = TRUE, !.host = @ /\ job[i].kind = "microtask"]
  <2>1. job'[i] = IF hit(i) THEN r ELSE job[i]
    BY DEF CancelJobs
  <2>2. /\ r \in Job /\ r.kind = job[i].kind /\ r.win = job[i].win /\ r.dropped
        /\ r.iterations = job[i].iterations
        /\ r.host <=> job[i].host /\ job[i].kind = "microtask"
    BY <1>2 DEF Job
  <2>. HIDE DEF r, hit
  <2>. QED
    BY <1>2, <2>1, <2>2
<1>4. job' = [i \in Jobs |-> job'[i]]
  BY DEF CancelJobs
<1>5. ASSUME NEW f \in Fetches
      PROVE  fetch'[f] \in FetchRecord /\ RequestSound(f)'
  <2>1. fetch[f] \in FetchRecord /\ RequestSound(f)
    BY <1>2 DEF IInv, FetchInv
  <2>2. \A v \in Windows : \A t : t \in owner'[v].tasks <=> t \in owner[v].tasks /\ v # w
    BY <1>1
  <2>3. CASE SendTask(f) \in owner[w].tasks \/ BodyTask(f) \in owner[w].tasks
    <3>1. /\ fetch'[f] = AbortController(fetch[f]) /\ fetch[f].win = w
          /\ fetch[f].promise # "none"
      BY <2>1, <2>3, TasksAssumption
         DEF CancelFetches, RequestSound, RequestBacked, RequestSited, NewFetch
    <3>2. \A v \in Windows : BodyTask(f) \notin owner'[v].tasks
      BY <2>1, <2>2, <3>1 DEF RequestSound, RequestBacked
    <3>. QED
      BY <2>1, <2>2, <3>1, <3>2, AbortControllerFacts, AbortControllerStops
  <2>4. CASE SendTask(f) \notin owner[w].tasks /\ BodyTask(f) \notin owner[w].tasks
    <3>1. fetch'[f] = fetch[f]
      BY <2>4 DEF CancelFetches
    <3>. QED
      BY <2>1, <2>2, <2>4, <3>1, RequestFrame
  <2>. QED
    BY <2>3, <2>4
<1>6. fetch' = [f \in Fetches |-> fetch'[f]]
  BY DEF CancelFetches
<1>7. TypeOK'
  BY <1>1, <1>3, <1>4, <1>5, <1>6 DEF IInv, TypeOK
<1>8. JobsInv'
  <2>1. JobsFresh'
    <3>1. \A i \in Jobs : job[i].kind = "none" => ~hit(i)
      BY TasksAssumption DEF JobsFresh, IInv, JobsInv, NoJob, NewJob
    <3>. HIDE DEF hit
    <3>. QED
      BY <1>3, <3>1 DEF JobsFresh, IInv, JobsInv
  <2>2. DroppedIsStill' /\ TurnsLeft'
    BY <1>3 DEF DroppedIsStill, TurnsLeft, IInv, JobsInv
  <2>3. JobsBacked'
    BY <1>1, <1>3 DEF JobsBacked, IInv, JobsInv, hit
  <2>. QED
    BY <2>1, <2>2, <2>3 DEF JobsInv
<1>9. FetchInv'
  BY <1>5 DEF FetchInv
<1>. QED
  BY <1>1, <1>7, <1>8, <1>9 DEF IInv

LEMMA AbortsKeep ==
  ASSUME IInv, UNCHANGED world, Aborts
  PROVE  IInv'
<1>1. owner \in [Windows -> Owner] /\ wait \in [Waits -> {"none", "pending", "resolved", "rejected"}]
  BY DEF IInv, TypeOK
<1>2. ASSUME NEW w \in Windows, NEW close \in BOOLEAN, AbortWindow(w, close) PROVE IInv'
  <2>1. /\ owner' = [owner EXCEPT ![w] = AbortOwner(owner[w], close)]
        /\ job' = CancelJobs(w) /\ fetch' = CancelFetches(w) /\ UNCHANGED <<wait, run, xhr, send>>
    BY <1>2 DEF AbortWindow, Abort
  <2>2. OwnerSound(AbortOwner(owner[w], close)) /\ AbortOwner(owner[w], close).tasks = {}
    BY <1>1, AbortOwnerFacts
  <2>. QED
    BY <1>1, <2>1, <2>2, AbortKeeps
<1>3. ASSUME NEW w \in Windows, DebugLimit(w) PROVE IInv'
  <2>. DEFINE q == [owner[w] EXCEPT !.debug = FALSE, !.waiters = {}]
  <2>1. /\ owner' = [owner EXCEPT ![w] = AbortOwner(q, FALSE)] /\ wait' = Settle(owner[w].waiters, "rejected")
        /\ job' = CancelJobs(w) /\ fetch' = CancelFetches(w) /\ UNCHANGED <<run, xhr, send>>
    BY <1>3 DEF DebugLimit, DebugTimerFires
  <2>2. q \in Owner
    BY <1>1 DEF Owner
  <2>3. OwnerSound(AbortOwner(q, FALSE)) /\ AbortOwner(q, FALSE).tasks = {}
    BY <2>2, AbortOwnerFacts
  <2>4. wait' \in [Waits -> {"none", "pending", "resolved", "rejected"}]
    BY <2>1, SettleFacts DEF IInv, Settled
  <2>. HIDE DEF q
  <2>. QED
    BY <2>1, <2>3, <2>4, AbortKeeps
<1>. QED
  BY <1>2, <1>3 DEF Aborts

-----------------------------------------------------------------------------
(* The inductive invariant holds in every state.                             *)

LEMMA HostStepsKeep ==
  ASSUME IInv, UNCHANGED <<world, fvars>>, HostSteps
  PROVE  IInv'
<1>1. CASE \E j \in Jobs : TimerFires(j) \/ MicrotaskRuns(j) \/ RejectionArrives(j)
  BY <1>1, TimerKeeps, MicrotaskKeeps, RejectionKeeps
<1>2. CASE \E outcome \in {"returns", "throws", "rejects"} : CallbackEnds(outcome)
  BY <1>2, CallbackEndsKeeps
<1>3. CASE \E w \in Windows : IdleTimerFires(w)
  BY <1>3, IdleTimerKeeps
<1>. QED
  BY <1>1, <1>2, <1>3 DEF HostSteps

LEMMA FetchStepsKeep ==
  ASSUME IInv, UNCHANGED world, FetchSteps
  PROVE  IInv'
<1>1. CASE \/ \E f \in Fetches, reply \in {"passes", "answers", "throws"} : Intercepted(f, reply)
           \/ \E f \in Fetches, url \in {"http", "data", "refused"} : Dispatched(f, url)
  BY <1>1, InterceptedKeeps, DispatchedKeeps
<1>2. CASE \/ \E f \in Fetches, reply \in {"error", "empty", "body"} : WireAnswers(f, reply)
           \/ \E f \in Fetches, reply \in {"returns", "throws"} : AfterResponse(f, reply)
  BY <1>2, WireAnswersKeeps, AfterResponseKeeps
<1>3. CASE \/ \E f \in Fetches, how \in {"ended", "failed"} : BodyEnds(f, how)
           \/ \E f \in Fetches : FetchSettles(f)
  BY <1>3, BodyEndsKeeps, FetchSettlesKeeps
<1>4. CASE \E f \in Fetches : XhrHeaders(f) \/ XhrDone(f)
  BY <1>4, XhrContinuesKeeps
<1>. QED
  BY <1>1, <1>2, <1>3, <1>4 DEF FetchSteps

LEMMA ProgramCallsKeep ==
  ASSUME IInv, UNCHANGED <<world, fvars>>, ProgramCalls(world = "strangers")
  PROVE  IInv'
<1>1. CASE \E w \in Windows, j \in Jobs, k \in Kinds : Schedule(w, j, k)
  BY <1>1, ScheduleKeeps
<1>2. CASE \E w \in Windows, j \in Jobs : (world = "strangers" \/ w = job[j].win) /\ Clear(w, j)
  BY <1>2, ClearKeeps
<1>3. CASE \E w \in Windows, p \in Waits : WaitUntilComplete(w, p)
  BY <1>3, WaitKeeps
<1>. QED
  BY <1>1, <1>2, <1>3 DEF ProgramCalls

LEMMA ProgramRequestsKeep ==
  ASSUME IInv, UNCHANGED world, ProgramRequests
  PROVE  IInv'
<1>1. xhr \in [Xhrs -> XhrRecord] /\ send \in [Fetches -> SendRecord]
  BY DEF IInv, TypeOK
<1>2. ASSUME NEW w \in Windows, NEW f \in Fetches, NEW valid \in BOOLEAN,
             NEW signalled \in BOOLEAN, WindowFetch(w, f, valid, signalled)
      PROVE  IInv'
  BY <1>1, <1>2, RequestKeeps DEF WindowFetch
<1>. QED
  BY <1>2, SignalAbortsKeeps DEF ProgramRequests

LEMMA ProgramXhrKeeps ==
  ASSUME IInv, UNCHANGED world, ProgramXhr
  PROVE  IInv'
BY XhrCallsKeep, XhrSendKeeps DEF ProgramXhr

LEMMA NextKeeps ==
  ASSUME IInv, [Next]_wvars
  PROVE  IInv'
<1>1. CASE UNCHANGED wvars
  <2>1. TypeOK' /\ IdleExact' /\ ClosedIsEmpty'
    BY <1>1 DEF IInv, TypeOK, IdleExact, ClosedIsEmpty, wvars, tvars, fvars
  <2>2. JobsInv' /\ FetchInv'
    BY <1>1, JobsFrame, FetchFrame DEF IInv, wvars, tvars, fvars
  <2>. QED
    BY <2>1, <2>2 DEF IInv
<1>2. CASE UNCHANGED <<world, fvars>> /\ HostSteps
  BY <1>2, HostStepsKeep
<1>3. CASE UNCHANGED world /\ (FetchSteps \/ Aborts)
  BY <1>3, FetchStepsKeep, AbortsKeep
<1>4. CASE UNCHANGED <<world, fvars>> /\ ProgramCalls(world = "strangers")
  BY <1>4, ProgramCallsKeep
<1>5. CASE UNCHANGED world /\ (ProgramRequests \/ ProgramXhr)
  BY <1>5, ProgramRequestsKeep, ProgramXhrKeeps
<1>6. CASE /\ UNCHANGED <<world, fvars>>
           /\ \/ \E w \in Windows, j \in Timed : Schedule(w, j, "timeout")
              \/ \E w \in Windows, p \in Waits : WaitUntilComplete(w, p)
  <2>1. "timeout" \in Kinds /\ Timed \subseteq Jobs
    BY WorldsAssumption DEF Kinds
  <2>. QED
    BY <1>6, <2>1, ScheduleKeeps, WaitKeeps
<1>. QED
  BY <1>1, <1>2, <1>3, <1>4, <1>5, <1>6 DEF Next

LEMMA Invariance == Spec => []IInv
<1>1. IInv /\ [Next]_wvars => IInv'
  BY NextKeeps
<1>. QED
  BY <1>1, IInvInit, PTL DEF Spec, Safe

(***************************************************************************)
(* The state is always of its types; an interval never passes its limit of *)
(* turns (timers.js maxIntervalIterations).                                *)
(***************************************************************************)
THEOREM WindowTyped == Spec => []TypeOK
<1>1. IInv => TypeOK
  BY DEF IInv
<1>. QED
  BY <1>1, Invariance, PTL

(***************************************************************************)
(* The idle checkpoint is armed exactly when somebody waits for a window   *)
(* without tasks (window-tasks.js start, end, checkIdle).                  *)
(***************************************************************************)
THEOREM IdleAlwaysExact == Spec => []IdleExact
<1>1. IInv => IdleExact
  BY DEF IInv
<1>. QED
  BY <1>1, Invariance, PTL

(***************************************************************************)
(* Work that goes on holds a task, and no task is left without work that   *)
(* will end it (timers.js schedule and clearTimer, fetch.js trackedFetch). *)
(***************************************************************************)
THEOREM TasksAlwaysBacked == Spec => []TasksBacked
<1>1. IInv => TasksBacked
  BY DEF IInv, JobsInv, JobsBacked, FetchInv, RequestSound, RequestBacked, TasksBacked
<1>. QED
  BY <1>1, Invariance, PTL

(***************************************************************************)
(* No task is open and no body flows in a closed window (fetch.js checks   *)
(* for the abort after every await).                                       *)
(***************************************************************************)
THEOREM ClosedAlwaysQuiet == Spec => []ClosedIsQuiet
<1>1. IInv => ClosedIsQuiet
  BY DEF IInv, ClosedIsEmpty, FetchInv, RequestSound, RequestBacked, ClosedIsQuiet
<1>. QED
  BY <1>1, Invariance, PTL

(***************************************************************************)
(* A request that is over leaves no listener on the program's signal.      *)
(***************************************************************************)
THEOREM ListenersAlwaysReleased == Spec => []ListenersReleased
<1>1. IInv => ListenersReleased
  BY DEF IInv, FetchInv, RequestSound, BodyStopped, ListenersReleased, Settled
<1>. QED
  BY <1>1, Invariance, PTL

-----------------------------------------------------------------------------
(* Only a due timer or a queued microtask starts a callback.                 *)
LEMMA OnlyHostStarts ==
  ASSUME IInv, [Next]_wvars, run' # run
  PROVE  run' = Idle \/ \E j \in Jobs : TimerFires(j) \/ MicrotaskRuns(j)
<1>1. CASE HostSteps
  BY <1>1 DEF HostSteps, RejectionArrives, CallbackEnds, IdleTimerFires
<1>2. CASE FetchSteps \/ Aborts
  BY <1>2 DEF FetchSteps, Intercepted, Dispatched, WireAnswers, AfterResponse, SendMoves, BodyEnds,
              FetchSettles, XhrHeaders, XhrDone, XhrContinues, Aborts, AbortWindow, DebugLimit,
              Abort, DebugTimerFires, tvars
<1>3. CASE ProgramCalls(world = "strangers")
  BY <1>3 DEF ProgramCalls, Schedule, Clear, WaitUntilComplete
<1>4. CASE ProgramRequests \/ ProgramXhr
  BY <1>4 DEF ProgramRequests, WindowFetch, Request, SignalAborts, ProgramXhr, XhrOpen, XhrSend,
              XhrSendSync, XhrAbort, tvars
<1>5. CASE \/ \E w \in Windows, j \in Timed : Schedule(w, j, "timeout")
           \/ \E w \in Windows, p \in Waits : WaitUntilComplete(w, p)
  BY <1>5 DEF Schedule, WaitUntilComplete
<1>6. CASE UNCHANGED wvars
  BY <1>6 DEF wvars, tvars
<1>. QED
  BY <1>1, <1>2, <1>3, <1>4, <1>5, <1>6 DEF Next

LEMMA DroppedDoesNotStart ==
  ASSUME IInv, [Next]_wvars, NEW j \in Jobs, job[j].dropped, run # j
  PROVE  run' # j
<1>. SUFFICES ASSUME run' = j PROVE FALSE
  OBVIOUS
<1>1. PICK i \in Jobs : TimerFires(i) \/ MicrotaskRuns(i)
  BY OnlyHostStarts, TasksAssumption
<1>2. CASE TimerFires(i)
  <2>1. i = j /\ job[j].host /\ ~MicrotaskQueued
    BY <1>2, TasksAssumption DEF TimerFires, HostTurn
  <2>2. job[j].kind # "microtask"
    BY <2>1 DEF MicrotaskQueued
  <2>. QED
    BY <2>1, <2>2 DEF IInv, JobsInv, DroppedIsStill
<1>3. CASE MicrotaskRuns(i)
  BY <1>3, TasksAssumption DEF MicrotaskRuns
<1>. QED
  BY <1>1, <1>2, <1>3

(***************************************************************************)
(* A timer or microtask that was cleared or aborted never runs again, even *)
(* when its microtask was queued before the abort (timers.js invoke).      *)
(***************************************************************************)
THEOREM DroppedAlwaysStays == Spec => DroppedNeverRuns
<1>1. IInv /\ [Next]_wvars => [\A j \in Jobs : job[j].dropped => run' # j \/ run = j]_wvars
  BY DroppedDoesNotStart
<1>. QED
  BY <1>1, Invariance, PTL DEF Spec, Safe, DroppedNeverRuns
=============================================================================
