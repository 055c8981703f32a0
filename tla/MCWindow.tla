------------------------------ MODULE MCWindow ------------------------------
(* The window's tasks, its requests and what they promise.                   *)
EXTENDS Fetch, TLC

CONSTANTS Timed,   \* the jobs a program with requests or strangers may schedule
          Second,  \* the windows only a program of strangers uses
          Worlds   \* the parts of the API a program uses

ASSUME WorldsAssumption == Timed \subseteq Jobs /\ Second \subseteq Windows

\* A program that uses the timers, the requests or XMLHttpRequest most, or one
\* that clears timers of one window through another ("strangers").
VARIABLE world
wvars == <<world, tvars, fvars>>

Init == world \in Worlds /\ TasksInit /\ FetchInit

Next ==
  /\ UNCHANGED world
  /\ \/ HostSteps /\ UNCHANGED fvars
     \/ FetchSteps \/ Aborts
     \/ world \in {"timers", "strangers"} /\ ProgramCalls(world = "strangers") /\ UNCHANGED fvars
     \/ world = "requests" /\ ProgramRequests
     \/ world = "xhr" /\ ProgramXhr
     \/ /\ world \in {"requests", "xhr"} /\ UNCHANGED fvars
        /\ \/ world = "requests" /\ \E w \in Windows, j \in Timed : Schedule(w, j, "timeout")
           \/ \E w \in Windows, p \in Waits : WaitUntilComplete(w, p)
  /\ IF world = "strangers" THEN \A j \in Jobs \ Timed : job'[j] = job[j]
                            ELSE \A w \in Second : owner'[w] = owner[w]

Safe == Init /\ [][Next]_wvars

\* The host fires due timers, runs queued microtasks and answers requests;
\* callbacks return.  Nothing is assumed of the program, nor of the debug limit.
Fairness ==
  /\ \A j \in Jobs : /\ WF_wvars(TimerFires(j) /\ UNCHANGED <<world, fvars>>)
                     /\ WF_wvars(MicrotaskRuns(j) /\ UNCHANGED <<world, fvars>>)
                     /\ WF_wvars(RejectionArrives(j) /\ UNCHANGED <<world, fvars>>)
  /\ WF_wvars((\E o \in {"returns", "throws", "rejects"} : CallbackEnds(o)) /\ UNCHANGED <<world, fvars>>)
  /\ \A w \in Windows : WF_wvars(IdleTimerFires(w) /\ UNCHANGED <<world, fvars>>)
  /\ WF_wvars(FetchSteps /\ UNCHANGED world)

Spec == Safe /\ Fairness

-----------------------------------------------------------------------------
Tokens == Jobs \cup {SendTask(f) : f \in Fetches} \cup {BodyTask(f) : f \in Fetches}

Owner == [traced : BOOLEAN, closed : BOOLEAN, tasks : SUBSET Tokens, timers : SUBSET Jobs,
          waiters : SUBSET (Waits \cup {Teardown}), idle : BOOLEAN, debug : BOOLEAN]

Job == [kind : Kinds \cup {"none"}, win : Windows \cup {Idle}, host : BOOLEAN, dropped : BOOLEAN,
        rejected : BOOLEAN, iterations : 0 .. MaxIterations + 1]

InFlight == {"intercepting", "dispatching", "wire", "after"}
Settled == {"resolved", "rejected"}

FetchRecord == [win : Windows \cup {Idle}, promise : {"none", "pending"} \cup Settled,
             send : {"none", "answered", "failed"} \cup InFlight,
             race : {"none", "answer", "failure", "abort"},
             aborted : BOOLEAN, signalled : BOOLEAN, listening : BOOLEAN, bodyOwned : BOOLEAN,
             body : {"none", "flowing", "ended", "failed"}]

XhrRecord == [readyState : {"UNSENT", "OPENED", "LOADING", "HEADERS_RECEIVED", "DONE"},
              async : BOOLEAN, aborted : BOOLEAN]
SendRecord == [xhr : Xhrs \cup {NoXhr}, phase : {"none", "fetching", "reading", "done"},
               aborted : BOOLEAN]

(* The types of the state.  An interval is never given more turns than the   *)
(* limit of its window's settings allows and the one that reaches it.        *)
TypeOK ==
  /\ world \in Worlds
  /\ owner \in [Windows -> Owner]
  /\ job \in [Jobs -> Job]
  /\ wait \in [Waits -> {"none", "pending", "resolved", "rejected"}]
  /\ run \in Jobs \cup {Idle}
  /\ fetch \in [Fetches -> FetchRecord]
  /\ xhr \in [Xhrs -> XhrRecord]
  /\ send \in [Fetches -> SendRecord]

(* The idle checkpoint is armed exactly when somebody waits for a window     *)
(* without tasks: a task that starts takes it back, the last one to end and  *)
(* every wait on an idle window arm it (window-tasks.js start, checkIdle).   *)
IdleExact ==
  \A w \in Windows : owner[w].idle <=> (owner[w].tasks = {} /\ owner[w].waiters # {})

(* Everything at work that was not cancelled has its task, so no wait passes *)
(* over work that goes on; and every open task has something at work that    *)
(* will end it, so no wait hangs on a task nobody ends, if timers are only   *)
(* cleared through the window that set them: clearTimer ends the task of the *)
(* window it is called on (timers.js:149), that of a stranger stays open.    *)
TasksBacked ==
  /\ \A w \in Windows, j \in Jobs :
       /\ job[j].win = w /\ job[j].host /\ ~job[j].dropped => j \in owner[w].tasks
       /\ j \in owner[w].tasks => /\ job[j].win = w
                                  /\ world # "strangers" => job[j].host /\ ~job[j].dropped
  /\ \A w \in Windows, f \in Fetches :
       /\ SendTask(f) \in owner[w].tasks => fetch[f].win = w /\ fetch[f].promise = "pending"
       /\ BodyTask(f) \in owner[w].tasks <=> fetch[f].win = w /\ fetch[f].body = "flowing"

(* No body flows and no task is open in a closed window, whatever answer     *)
(* arrives after close(): sendFetch checks for the abort after every await.  *)
ClosedIsQuiet ==
  \A w \in Windows : owner[w].closed =>
    /\ owner[w].tasks = {}
    /\ \A f \in Fetches : fetch[f].win = w => fetch[f].body # "flowing"

(* A request that is over leaves no listener on the program's signal, which  *)
(* may outlive it and be shared by other requests.                           *)
ListenersReleased ==
  \A f \in Fetches :
    fetch[f].promise \in {"resolved", "rejected"} /\ fetch[f].body # "flowing"
      => ~fetch[f].listening

(* A timer or microtask that was cleared or aborted never runs its callback  *)
(* again, even when its microtask was queued before the abort.               *)
DroppedNeverRuns ==
  [][\A j \in Jobs : job[j].dropped => run' # j \/ run = j]_wvars

(* Everybody who waits for a window is released, also by an abort.           *)
WaitersReleased ==
  /\ \A p \in Waits : (world # "strangers" /\ wait[p] = "pending") ~> (wait[p] # "pending")
  /\ \A w \in Windows : (world # "strangers" /\ Teardown \in owner[w].waiters)
                             ~> (Teardown \notin owner[w].waiters)

(* Every asynchronous send() comes to its loadend, also when its window is   *)
(* aborted or closed under it.                                               *)
SendsComplete ==
  \A f \in Fetches : (send[f].phase = "fetching") ~> (send[f].phase = "done")

=============================================================================
