---------------------------- MODULE AbortSignals ----------------------------
(***************************************************************************)
(* AbortSignal and AbortController of src/js/facade/extensions/fetch.js.   *)
(* A listener is a function of the program that aborts another controller, *)
(* the handler of a signal any() made, or the one that takes a listener    *)
(* away when the signal of its options aborts.                             *)
(***************************************************************************)
EXTENDS Naturals, Sequences, SequencesExt, FiniteSetsExt

CONSTANTS MaxSignals,    \* bound on the signals made
          MaxSources,    \* bound on the sources any() is given
          MaxSignalOps   \* bound on the calls on signals

VARIABLE signals         \* abort signals and their listeners

Nothing == "nothing"
TimeoutError == 0   \* the reason of a timeout; a controller's is its own number
SignalsInit == signals = [made |-> <<>>, ops |-> 0]
Signals == DOMAIN signals.made
NewSignal(kind, sources) == [kind |-> kind, aborted |-> FALSE, reason |-> Nothing, listeners |-> <<>>, sources |-> sources]
Chain(j) == [does |-> "abort", signal |-> j, once |-> FALSE]
AnyHandler(n, i) == [does |-> "any", signal |-> n, place |-> i, once |-> FALSE]
OnAbort(k, l) == [does |-> "drop", signal |-> k, listener |-> l, once |-> FALSE]

\* AbortEventTarget: a list of entries is asked whether it includes a function,
\* so a function is listed as often as it is added; remove takes the first.
ListenerAdded(s, k, l) == [s EXCEPT ![k].listeners = Append(@, l)]
Same(l, m) == [l EXCEPT !.once = FALSE] = [m EXCEPT !.once = FALSE]
ListenerRemoved(s, k, l) ==
  LET places == {i \in DOMAIN s[k].listeners : Same(s[k].listeners[i], l)}
  IN IF places = {} THEN s ELSE [s EXCEPT ![k].listeners = RemoveAt(@, Min(places))]
\* any() keeps one handler per source, the last it made for it; a source named
\* twice is told twice to forget that one.
Overwritten(sources, i) == \E j \in i + 1..Len(sources) : sources[j] = sources[i]
LastPlace(sources, k) == SelectLastInSeq(sources, LAMBDA source : source = k)
StopListening(s, n) ==
  FoldLeft(LAMBDA t, k : ListenerRemoved(t, k, AnyHandler(n, LastPlace(s[n].sources, k))), s, s[n].sources)

\* [ABORT_IMPL] and the dispatch it makes: the listeners there were when it
\* began are all called, each within the call of abort.
RECURSIVE AbortImpl(_, _, _)
AbortImpl(s, k, reason) ==
  IF s[k].aborted THEN s
  ELSE LET heard(t, l) ==
             LET rest == IF l.once THEN ListenerRemoved(t, k, l) ELSE t IN
             CASE l.does = "abort" -> AbortImpl(rest, l.signal, l.signal)
               [] l.does = "any" -> AbortImpl(StopListening(rest, l.signal), l.signal, rest[k].reason)
               [] l.does = "drop" -> ListenerRemoved(ListenerRemoved(rest, k, l), l.signal, l.listener)
       IN FoldSeq(LAMBDA l, t : heard(t, l), [s EXCEPT ![k].aborted = TRUE, ![k].reason = reason], Reverse(s[k].listeners))

SignalCall(made) == /\ signals.ops < MaxSignalOps
                    /\ signals' = [made |-> made, ops |-> signals.ops + 1]
MadeSignal(made) == Len(signals.made) < MaxSignals /\ SignalCall(made)
ControllerMade == MadeSignal(Append(signals.made, NewSignal("controller", <<>>)))
\* AbortSignal.abort: born aborted, for a reason of its own.
AbortedMade ==
  LET n == Len(signals.made) + 1
  IN MadeSignal(Append(signals.made, [NewSignal("aborted", <<>>) EXCEPT !.aborted = TRUE, !.reason = n]))
TimeoutMade == MadeSignal(Append(signals.made, NewSignal("timeout", <<>>)))
\* AbortSignal.any: aborted at once by the first source that is; otherwise a
\* handler is added for every place of the list.
AnyMade(sources) ==
  LET n == Len(signals.made) + 1
      gone == {i \in DOMAIN sources : signals.made[sources[i]].aborted}
      made == Append(signals.made, NewSignal("any", sources))
      heard[i \in 0..Len(sources)] == IF i = 0 THEN made ELSE ListenerAdded(heard[i - 1], sources[i], AnyHandler(n, i))
  IN MadeSignal(IF gone = {} THEN heard[Len(sources)]
                ELSE [made EXCEPT ![n].aborted = TRUE, ![n].reason = signals.made[sources[Min(gone)]].reason])
Listens(k, j, once) == SignalCall(ListenerAdded(signals.made, k, [Chain(j) EXCEPT !.once = once]))
\* The signal option: one that is aborted has the function taken back at once,
\* which is the first listing of it, not the one just made.
ListensUnder(k, j, o, once) ==
  LET listed == ListenerAdded(signals.made, k, [Chain(j) EXCEPT !.once = once])
  IN SignalCall(IF signals.made[o].aborted THEN ListenerRemoved(listed, k, Chain(j))
                ELSE ListenerAdded(listed, o, OnAbort(k, Chain(j))))
StopsListening(k, j) == SignalCall(ListenerRemoved(signals.made, k, Chain(j)))
Aborts(k) == signals.made[k].kind = "controller" /\ SignalCall(AbortImpl(signals.made, k, k))
TimesOut(k) == /\ signals.made[k].kind = "timeout" /\ ~signals.made[k].aborted
               /\ signals' = [signals EXCEPT !.made = AbortImpl(@, k, TimeoutError)]

Controllers == {k \in Signals : signals.made[k].kind = "controller"}
\* A call is made with once, or under a signal.
SignalMoves ==
  \/ ControllerMade
  \/ AbortedMade
  \/ TimeoutMade
  \/ \E sources \in SeqOf(Signals, MaxSources) : sources # <<>> /\ AnyMade(sources)
  \/ \E k \in Signals, j \in Controllers, once \in BOOLEAN : Listens(k, j, once)
  \/ \E k, o \in Signals, j \in Controllers : ListensUnder(k, j, o, FALSE)
  \/ \E k \in Signals, j \in Controllers : StopsListening(k, j)
  \/ \E k \in Signals : Aborts(k)
  \/ \E k \in Signals : TimesOut(k)

\* A signal made by any() is aborted exactly when one of its sources is, with
\* the reason of one of them, also when a listener of a source aborts another
\* source in the middle of the dispatch.
AnyFollows ==
  \A n \in Signals :
    LET s == signals.made[n] gone == {k \in ToSet(s.sources) : signals.made[k].aborted} IN
    s.kind = "any" => /\ s.aborted <=> gone # {}
                      /\ s.aborted => s.reason \in {signals.made[k].reason : k \in gone}
\* ... and once it is, a source keeps none of its handlers but the one a source
\* named twice had first: any() forgets that handler and never removes it.
SourcesReleased ==
  \A n \in Signals : signals.made[n].aborted =>
    \A i \in DOMAIN signals.made[n].sources :
      AnyHandler(n, i) \in ToSet(signals.made[signals.made[n].sources[i]].listeners) => Overwritten(signals.made[n].sources, i)
=============================================================================
