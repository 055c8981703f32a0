------------------------------- MODULE Fetch -------------------------------
(***************************************************************************)
(* window.fetch and XMLHttpRequest over the tasks of a window:             *)
(* src/js/facade/extensions/fetch.js and xhr.js.                           *)
(*                                                                         *)
(* A fetch is two computations: sendFetch(), which goes on to its end, and *)
(* the caller's promise, which is the race of sendFetch with an abort.  Its*)
(* body is a third, with a task of its own.  Interceptors, the network and *)
(* virtual servers answer whenever they want, and may answer an aborted    *)
(* request.                                                                *)
(***************************************************************************)
EXTENDS WindowTasks

CONSTANTS Fetches,  \* requests, each used once
          Xhrs,     \* XMLHttpRequest objects
          NoXhr

VARIABLES fetch, \* each request
          xhr,   \* each XMLHttpRequest
          send   \* the run of sendAsync() that made a request, if one did

fvars == <<fetch, xhr, send>>

NewFetch == [win |-> Idle,
             promise |-> "none",  \* what the caller sees
             send |-> "none",     \* where sendFetch() is
             race |-> "none",     \* which of the two settled first
             aborted |-> FALSE,   \* controller.signal.aborted
             signalled |-> FALSE, \* request.signal.aborted
             listening |-> FALSE, \* onAbort still sits on request.signal
             bodyOwned |-> FALSE,
             body |-> "none"]     \* none, flowing, ended, failed
NewXhr == [readyState |-> "UNSENT", async |-> TRUE, aborted |-> FALSE]
NoSend == [xhr |-> NoXhr,
           phase |-> "none",     \* none, fetching, reading, done
           aborted |-> FALSE]    \* abort() was called while it was in flight

FetchInit == /\ fetch = [f \in Fetches |-> NewFetch]
             /\ xhr = [x \in Xhrs |-> NewXhr]
             /\ send = [f \in Fetches |-> NoSend]

SendTask(f) == <<"send", f>>
BodyTask(f) == <<"body", f>>

\* Every task has a token of its own.
ASSUME TokensAssumption == \A f \in Fetches : SendTask(f) \notin Jobs /\ BodyTask(f) \notin Jobs

-----------------------------------------------------------------------------
\* controller.abort(): the caller's promise loses the race, a flowing body fails.
AbortController(r) ==
  IF r.aborted THEN r
  ELSE [r EXCEPT !.aborted = TRUE,
                 !.race = IF @ = "none" THEN "abort" ELSE @,
                 !.body = IF @ = "flowing" THEN "failed" ELSE @,
                 !.listening = @ /\ r.body # "flowing"]

\* Both cancel callbacks of a request, run by abort() of its window.
CancelFetches(w) ==
  [f \in Fetches |-> IF {SendTask(f), BodyTask(f)} \cap owner[w].tasks # {}
                       THEN AbortController(fetch[f]) ELSE fetch[f]]

\* fetchImpl up to the race.  A closed window or a malformed request rejects
\* at once; a signal that is already aborted aborts the controller.
Request(w, f, valid, signalled) ==
  /\ fetch[f].promise = "none"
  /\ IF owner[w].closed \/ ~valid
       THEN /\ fetch' = [fetch EXCEPT ![f].promise = "rejected", ![f].win = w]
            /\ UNCHANGED owner
       ELSE /\ owner' = [owner EXCEPT ![w] = Start(@, SendTask(f))]
            /\ LET r == [NewFetch EXCEPT !.win = w, !.promise = "pending", !.listening = TRUE,
                                         !.send = "intercepting", !.signalled = signalled]
               IN  fetch' = [fetch EXCEPT ![f] = IF signalled THEN AbortController(r) ELSE r]
  /\ UNCHANGED <<job, wait, run>>

WindowFetch(w, f, valid, signalled) == Request(w, f, valid, signalled) /\ UNCHANGED <<xhr, send>>

\* AbortController.abort() of the program: once per signal.
SignalAborts(f) ==
  /\ fetch[f].promise # "none" /\ ~fetch[f].signalled
  /\ LET r == [fetch[f] EXCEPT !.signalled = TRUE]
     IN  /\ fetch' = [fetch EXCEPT ![f] = IF r.listening THEN AbortController(r) ELSE r]
         /\ owner' = IF r.listening /\ ~r.aborted /\ r.body = "flowing"
                       THEN [owner EXCEPT ![r.win] = End(@, BodyTask(f))] ELSE owner
  /\ UNCHANGED <<job, wait, run, xhr, send>>

-----------------------------------------------------------------------------
(* sendFetch(): every await is followed by throwIfAborted().                *)

SendEnds(r, how) == [r EXCEPT !.send = how,
                              !.race = IF @ # "none" THEN @ ELSE
                                         IF how = "answered" THEN "answer" ELSE "failure"]

\* Mutant: an await is not followed by throwIfAborted().
SendMovesOn(f, from, next) ==
  /\ run = Idle /\ fetch[f].send = from
  /\ fetch' = [fetch EXCEPT ![f] = next]
  /\ UNCHANGED <<job, wait, run, xhr, send>>

SendMoves(f, from, next) ==
  /\ run = Idle /\ fetch[f].send = from
  /\ fetch' = [fetch EXCEPT ![f] = IF fetch[f].aborted THEN SendEnds(@, "failed") ELSE next]
  /\ UNCHANGED <<job, wait, run, xhr, send>>

\* beforeAsyncRequest lets the request pass, answers it or throws.
Intercepted(f, reply) ==
  /\ SendMoves(f, "intercepting",
       CASE reply = "passes"  -> [fetch[f] EXCEPT !.send = "dispatching"]
         [] reply = "answers" -> SendEnds(fetch[f], "answered")
         [] reply = "throws"  -> SendEnds(fetch[f], "failed"))
  /\ UNCHANGED owner

\* data: URLs are answered here; other schemes and mixed content are refused.
Dispatched(f, url) ==
  /\ SendMoves(f, "dispatching",
       CASE url = "http"    -> [fetch[f] EXCEPT !.send = "wire"]
         [] url = "data"    -> [fetch[f] EXCEPT !.send = "after"]
         [] url = "refused" -> SendEnds(fetch[f], "failed"))
  /\ UNCHANGED owner

\* The network or a virtual server answers.  From here on the body owns the
\* listener on the request's signal; without a body it is removed at once.
WireAnswers(f, reply) ==
  /\ SendMoves(f, "wire",
       CASE reply = "error" -> SendEnds(fetch[f], "failed")
         [] reply = "empty" -> [fetch[f] EXCEPT !.send = "after", !.bodyOwned = TRUE, !.listening = FALSE]
         [] reply = "body"  -> [fetch[f] EXCEPT !.send = "after", !.bodyOwned = TRUE, !.body = "flowing"])
  /\ owner' = IF reply = "body" /\ ~fetch[f].aborted
                THEN [owner EXCEPT ![fetch[f].win] = Start(@, BodyTask(f))] ELSE owner

\* afterAsyncResponse returns or throws.
AfterResponse(f, reply) ==
  /\ SendMoves(f, "after", SendEnds(fetch[f], IF reply = "throws" THEN "failed" ELSE "answered"))
  /\ UNCHANGED owner

\* ownedBody(): the transport reaches its end or fails, or the reader cancels.
BodyEnds(f, how) ==
  /\ run = Idle /\ fetch[f].body = "flowing"
  /\ fetch' = [fetch EXCEPT ![f].body = how, ![f].listening = FALSE]
  /\ owner' = [owner EXCEPT ![fetch[f].win] = End(@, BodyTask(f))]
  /\ UNCHANGED <<job, wait, run, xhr, send>>

\* Mutant: the listener on the program's signal is only removed by a body.
FetchSettlesListening(f) ==
  /\ run = Idle /\ fetch[f].promise = "pending" /\ fetch[f].race # "none"
  /\ fetch' = [fetch EXCEPT ![f].promise = IF fetch[f].race = "answer" THEN "resolved" ELSE "rejected"]
  /\ owner' = [owner EXCEPT ![fetch[f].win] = End(@, SendTask(f))]
  /\ UNCHANGED <<job, wait, run, xhr, send>>

\* The race settles the caller's promise; "finally" ends the task.
FetchSettles(f) ==
  /\ run = Idle /\ fetch[f].promise = "pending" /\ fetch[f].race # "none"
  /\ fetch' = [fetch EXCEPT ![f].promise = IF fetch[f].race = "answer" THEN "resolved" ELSE "rejected",
                            ![f].listening = @ /\ fetch[f].bodyOwned]
  /\ owner' = [owner EXCEPT ![fetch[f].win] = End(@, SendTask(f))]
  /\ UNCHANGED <<job, wait, run, xhr, send>>

-----------------------------------------------------------------------------
(* XMLHttpRequest.                                                          *)

\* open() validates through a Request of its own, then starts over.  The
\* continuation of an earlier send is not stopped.
XhrOpen(x, async) ==
  /\ xhr' = [xhr EXCEPT ![x].readyState = "OPENED", ![x].async = async, ![x].aborted = FALSE]
  /\ UNCHANGED <<tvars, fetch, send>>

\* send() of an asynchronous request: the window's fetch, without the signal
\* of the controller that open() made.
XhrSend(x, w, f) ==
  /\ xhr[x].readyState = "OPENED" /\ xhr[x].async
  /\ Request(w, f, TRUE, FALSE)
  /\ xhr' = [xhr EXCEPT ![x].readyState = "LOADING"]
  /\ send' = [send EXCEPT ![f] = [NoSend EXCEPT !.xhr = x, !.phase = "fetching"]]

\* send() of a synchronous request blocks on a child process; whatever becomes
\* of the child, the request is done.
XhrSendSync(x) ==
  /\ xhr[x].readyState = "OPENED" /\ ~xhr[x].async
  /\ xhr' = [xhr EXCEPT ![x].readyState = "DONE"]
  /\ UNCHANGED <<tvars, fetch, send>>

\* abort() aborts the controller of open(), which no fetch listens to.
XhrAbort(x) ==
  /\ ~xhr[x].aborted
  /\ xhr' = [xhr EXCEPT ![x].aborted = TRUE]
  /\ send' = [f \in Fetches |-> IF send[f].xhr = x /\ send[f].phase \in {"fetching", "reading"}
                                  THEN [send[f] EXCEPT !.aborted = TRUE] ELSE send[f]]
  /\ UNCHANGED <<tvars, fetch>>

\* The continuations of sendAsync() after its two awaits.
XhrContinues(f, ready, readyState, phase) ==
  /\ run = Idle /\ ready
  /\ xhr' = [xhr EXCEPT ![send[f].xhr].readyState = readyState]
  /\ send' = [send EXCEPT ![f].phase = phase]
  /\ UNCHANGED <<tvars, fetch>>

XhrHeaders(f) ==
  XhrContinues(f, send[f].phase = "fetching" /\ fetch[f].promise = "resolved",
               "HEADERS_RECEIVED", "reading")

\* Mutant: a rejected fetch is not caught.
XhrDoneUncaught(f) ==
  XhrContinues(f, send[f].phase = "reading" /\ fetch[f].body # "flowing", "DONE", "done")

\* The text is read, the fetch was rejected or the body failed: load or
\* error, then loadend.
XhrDone(f) ==
  XhrContinues(f, \/ send[f].phase = "reading" /\ fetch[f].body # "flowing"
                  \/ send[f].phase = "fetching" /\ fetch[f].promise = "rejected",
               "DONE", "done")

-----------------------------------------------------------------------------
(* The composition: abort() runs the cancels of jobs and of requests.       *)

AbortWindow(w, close) ==
  /\ Abort(w, close) /\ fetch' = CancelFetches(w) /\ UNCHANGED <<xhr, send>>
DebugLimit(w) ==
  /\ DebugTimerFires(w) /\ fetch' = CancelFetches(w) /\ UNCHANGED <<xhr, send>>

FetchSteps ==
  \/ \E f \in Fetches, reply \in {"passes", "answers", "throws"} : Intercepted(f, reply)
  \/ \E f \in Fetches, url \in {"http", "data", "refused"} : Dispatched(f, url)
  \/ \E f \in Fetches, reply \in {"error", "empty", "body"} : WireAnswers(f, reply)
  \/ \E f \in Fetches, reply \in {"returns", "throws"} : AfterResponse(f, reply)
  \/ \E f \in Fetches, how \in {"ended", "failed"} : BodyEnds(f, how)
  \/ \E f \in Fetches : FetchSettles(f)
  \/ \E f \in Fetches : XhrHeaders(f) \/ XhrDone(f)

ProgramRequests ==
  \/ \E w \in Windows, f \in Fetches, valid, signalled \in BOOLEAN : WindowFetch(w, f, valid, signalled)
  \/ \E f \in Fetches : SignalAborts(f)

ProgramXhr ==
  \/ \E x \in Xhrs, async \in BOOLEAN : XhrOpen(x, async)
  \/ \E x \in Xhrs, w \in Windows, f \in Fetches : XhrSend(x, w, f)
  \/ \E x \in Xhrs : XhrSendSync(x) \/ XhrAbort(x)

Aborts ==
  \/ \E w \in Windows, close \in BOOLEAN : AbortWindow(w, close)
  \/ \E w \in Windows : DebugLimit(w)

=============================================================================
