---------------------------- MODULE WindowTasks ----------------------------
(***************************************************************************)
(* The pending work of a window: src/js/facade/window-tasks.js (the owner  *)
(* of the tasks, its waiters and its idle checkpoint) and the timers and   *)
(* microtasks of src/js/facade/extensions/timers.js.                       *)
(*                                                                         *)
(* JavaScript runs to completion: "run" is the callback being run (Idle    *)
(* when the host loop has control), a host callback only starts at Idle,   *)
(* and no host timer fires while a microtask is queued.  The program calls *)
(* the API between two callbacks or inside one.                            *)
(***************************************************************************)
EXTENDS Naturals, FiniteSets

CONSTANTS Windows,    \* the windows
          Jobs,       \* host timer ids and queued microtasks, each used once
          Waits,      \* the promises waitUntilComplete() returned to the program
          Teardown,   \* the promises abort() returned: settled all together
          Idle,       \* no callback is running
          MaxIterations \* settings.timer.maxIntervalIterations

ASSUME TasksAssumption ==
  MaxIterations \in Nat /\ Teardown \notin Waits /\ Idle \notin Jobs \cup Windows

VARIABLES owner,   \* the WindowTasks of each window
          job,     \* each timer or microtask
          wait,    \* what became of each waitUntilComplete() promise
          run      \* the job whose callback is running, or Idle

tvars == <<owner, job, wait, run>>

Kinds == {"timeout", "interval", "raf", "microtask"}
\* traced: the window's settings.debug.traceWaitUntilComplete is positive.
NewOwner(traced) ==
           [traced |-> traced, closed |-> FALSE, tasks |-> {}, timers |-> {}, waiters |-> {},
            idle |-> FALSE, debug |-> FALSE]
NewJob(w, k, host) == [kind |-> k, win |-> w, host |-> host, dropped |-> FALSE,
                       rejected |-> FALSE, iterations |-> 0]
NoJob == NewJob(Idle, "none", FALSE)

TasksInit == /\ owner \in [Windows -> {NewOwner(traced) : traced \in BOOLEAN}]
             /\ job = [j \in Jobs |-> NoJob]
             /\ wait = [p \in Waits |-> "none"]
             /\ run = Idle

-----------------------------------------------------------------------------
(* The owner: operators from the owner before a call to the owner after.   *)

\* Mutant: the idle checkpoint stays armed when a task starts.
StartUnderCheckpoint(o, t) == [o EXCEPT !.tasks = @ \cup {t}]

\* A new task takes the idle checkpoint back.  Callers check closed first.
Start(o, t) == [o EXCEPT !.tasks = @ \cup {t}, !.idle = FALSE]

StartTimer(o, j) == [Start(o, j) EXCEPT !.timers = @ \cup {j}]

CheckIdle(o) == [o EXCEPT !.idle = @ \/ (o.tasks = {} /\ o.waiters # {})]

\* Mutant: the last task to end does not look for waiters.
EndSilently(o, t) == [o EXCEPT !.tasks = @ \ {t}]

\* A token of an older generation is no longer in the map and ends nothing.
End(o, t) == IF t \in o.tasks THEN CheckIdle([o EXCEPT !.tasks = @ \ {t}]) ELSE o

WaitOn(o, p) == [CheckIdle([o EXCEPT !.waiters = @ \cup {p}])
                   EXCEPT !.debug = @ \/ o.traced]

\* abort(close): the maps are emptied before the cancels run, and the call
\* returns a wait of its own.
AbortOwner(o, close) ==
  WaitOn([o EXCEPT !.closed = @ \/ close, !.tasks = {}, !.timers = {}], Teardown)

\* What the cancel callbacks of a window's timers and microtasks do.
CancelJobs(w) ==
  [j \in Jobs |->
     IF job[j].win = w /\ j \in owner[w].tasks \cup owner[w].timers
       THEN [job[j] EXCEPT !.dropped = TRUE,
                           !.host = @ /\ job[j].kind = "microtask"]
       ELSE job[j]]

Settle(ps, result) == [p \in Waits |-> IF p \in ps THEN result ELSE wait[p]]

-----------------------------------------------------------------------------
(* Calls of the program.                                                    *)

\* setTimeout, setInterval, requestAnimationFrame and queueMicrotask; a
\* closed window schedules nothing.
Schedule(w, j, k) ==
  /\ job[j].kind = "none" /\ ~owner[w].closed
  /\ job' = [job EXCEPT ![j] = NewJob(w, k, TRUE)]
  /\ owner' = [owner EXCEPT ![w] = IF k = "microtask" THEN Start(@, j) ELSE StartTimer(@, j)]
  /\ UNCHANGED <<wait, run>>

\* clearTimer(owner, id): the owner is that of the window it is called on.
\* The task token of a timer lives as long as the timer is at the host.
Cleared(r) == [r EXCEPT !.host = FALSE, !.dropped = TRUE]
ClearedJob(j) == [job EXCEPT ![j] = Cleared(@)]
\* Mutant: the task of a cleared timer is forgotten.
ClearedKeepingTask(w, j) == [owner EXCEPT ![w].timers = @ \ {j}]
ClearedOwner(w, j) ==
  LET o == [owner[w] EXCEPT !.timers = @ \ {j}]
  IN  [owner EXCEPT ![w] = IF job[j].host THEN End(o, j) ELSE o]

Clear(w, j) ==
  /\ job[j].kind \in Kinds \ {"microtask"}
  /\ job' = ClearedJob(j) /\ owner' = ClearedOwner(w, j)
  /\ UNCHANGED <<wait, run>>

WaitUntilComplete(w, p) ==
  /\ wait[p] = "none"
  /\ wait' = [wait EXCEPT ![p] = "pending"]
  /\ owner' = [owner EXCEPT ![w] = WaitOn(@, p)]
  /\ UNCHANGED <<job, run>>

\* happyDOM.abort() and, with close, what closeWindow does to the tasks.
Abort(w, close) ==
  /\ owner' = [owner EXCEPT ![w] = AbortOwner(@, close)]
  /\ job' = CancelJobs(w)
  /\ UNCHANGED <<wait, run>>

-----------------------------------------------------------------------------
(* The host loop.                                                           *)

MicrotaskQueued == \E j \in Jobs : job[j].kind = "microtask" /\ job[j].host

HostTurn == run = Idle /\ ~MicrotaskQueued

\* A timer is due.  All but intervals clear themselves before the callback.
TimerFires(j) ==
  LET w == job[j].win IN
  /\ HostTurn /\ job[j].host
  /\ IF job[j].kind # "interval" \/ owner[w].closed
       THEN job' = [job EXCEPT ![j].host = FALSE] /\ owner' = ClearedOwner(w, j)
       ELSE UNCHANGED <<job, owner>>
  /\ run' = IF owner[w].closed THEN Idle ELSE j
  /\ UNCHANGED wait

\* Mutant: the microtask does not look whether it was aborted.
MicrotaskRunsAnyway(j) ==
  /\ run = Idle /\ job[j].kind = "microtask" /\ job[j].host
  /\ job' = [job EXCEPT ![j].host = FALSE]
  /\ owner' = [owner EXCEPT ![job[j].win] = End(@, j)]
  /\ run' = IF owner[job[j].win].closed THEN Idle ELSE j
  /\ UNCHANGED wait

\* The task of a microtask ends before its callback is invoked, if it still is.
MicrotaskRuns(j) ==
  LET w == job[j].win IN
  /\ run = Idle /\ job[j].kind = "microtask" /\ job[j].host
  /\ job' = [job EXCEPT ![j].host = FALSE]
  /\ owner' = [owner EXCEPT ![w] = End(@, j)]
  /\ run' = IF job[j].dropped \/ owner[w].closed THEN Idle ELSE j
  /\ UNCHANGED wait

\* Mutant: the limit is compared one iteration too late.
LastIterationLate(j) == job[j].iterations > MaxIterations
LastIteration(j) == job[j].iterations >= MaxIterations

Invoked(r, outcome) == [r EXCEPT !.iterations = IF r.kind = "interval" THEN @ + 1 ELSE @,
                                 !.rejected = @ \/ outcome = "rejects"]

\* The callback returns, throws or returns a promise that will be rejected.
\* An interval is cleared by a throw and by its last iteration.
CallbackEnds(outcome) ==
  /\ run # Idle
  /\ LET j == run
         stop == job[j].kind = "interval" /\ (outcome = "throws" \/ LastIteration(j))
     IN  /\ job' = [job EXCEPT ![j] = Invoked(IF stop THEN Cleared(@) ELSE @, outcome)]
         /\ owner' = IF stop THEN ClearedOwner(job[j].win, j) ELSE owner
  /\ run' = Idle
  /\ UNCHANGED wait

\* The rejection of a callback's promise arrives: an interval stops.
RejectionArrives(j) ==
  /\ run = Idle /\ job[j].rejected
  /\ IF job[j].kind = "interval"
       THEN /\ job' = [job EXCEPT ![j] = [Cleared(@) EXCEPT !.rejected = FALSE]]
            /\ owner' = ClearedOwner(job[j].win, j)
       ELSE job' = [job EXCEPT ![j].rejected = FALSE] /\ UNCHANGED owner
  /\ UNCHANGED <<wait, run>>

\* The idle checkpoint: nothing happens if a task has started since.
IdleTimerFires(w) ==
  /\ HostTurn /\ owner[w].idle
  /\ IF owner[w].tasks # {}
       THEN owner' = [owner EXCEPT ![w].idle = FALSE] /\ UNCHANGED wait
       ELSE /\ owner' = [owner EXCEPT ![w].idle = FALSE, ![w].debug = FALSE, ![w].waiters = {}]
            /\ wait' = Settle(owner[w].waiters, "resolved")
  /\ UNCHANGED <<job, run>>

\* The debug limit: every waiter is rejected, then the window's work aborted.
DebugTimerFires(w) ==
  /\ HostTurn /\ owner[w].debug
  /\ wait' = Settle(owner[w].waiters, "rejected")
  /\ owner' = [owner EXCEPT ![w] = AbortOwner([@ EXCEPT !.debug = FALSE, !.waiters = {}], FALSE)]
  /\ job' = CancelJobs(w)
  /\ UNCHANGED run

-----------------------------------------------------------------------------
\* strangers: a timer may be cleared through a window that did not set it.
ProgramCalls(strangers) ==
  \/ \E w \in Windows, j \in Jobs, k \in Kinds : Schedule(w, j, k)
  \/ \E w \in Windows, j \in Jobs : (strangers \/ w = job[j].win) /\ Clear(w, j)
  \/ \E w \in Windows, p \in Waits : WaitUntilComplete(w, p)

HostSteps ==
  \/ \E j \in Jobs : TimerFires(j) \/ MicrotaskRuns(j) \/ RejectionArrives(j)
  \/ \E o \in {"returns", "throws", "rejects"} : CallbackEnds(o)
  \/ \E w \in Windows : IdleTimerFires(w)

=============================================================================
