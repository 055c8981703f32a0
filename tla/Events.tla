------------------------------- MODULE Events -------------------------------
(***************************************************************************)
(* Listeners and dispatch: src/js/facade/extensions/events.js over the     *)
(* dispatch of src/crates/mad-dom-core/src/dom/events.rs and the callback  *)
(* registry of src/crates/mad-dom-bun/src/extensions/events_api.rs, the    *)
(* on<event> properties of hdunit-nodes.js, and the payloads the event     *)
(* constructors fill in.                                                   *)
(*                                                                         *)
(* A node is its height: node n stands under node n + 1, and TheRoot is    *)
(* the last one.  One more node is alone in a document of its own.  All    *)
(* listeners are for one event type.                                       *)
(***************************************************************************)
EXTENDS Naturals, Sequences, SequencesExt, FiniteSetsExt

CONSTANTS TheRoot,         \* the height of the tree
          TheShadowRoot,   \* the height of the shadow root in it
          Callbacks,       \* functions given to addEventListener
          Handlers,        \* functions assigned to an on<event> property
          ListenerOptions, \* the options given to addEventListener
          Dispatched,      \* event objects
          Composed,        \* those constructed with composed: true
          MaxEventOps,     \* bound on the calls of a behaviour
          MaxDepth         \* bound on nested dispatches

VARIABLES events,        \* the tree's listeners and the dispatches under way
          payload        \* an event that was constructed and may be copied

Elsewhere == TheRoot + 1   \* the node of the other document
Targets == 1..Elsewhere
DocumentOf(n) == IF n = Elsewhere THEN "other" ELSE "tree"
Nobody == "no function"
Compiled == "compiled from the attribute"   \* eventHandlerGetter's own function
Idle == [bubbles |-> TRUE, cancelable |-> TRUE, stop |-> FALSE, stopNow |-> FALSE, prevented |-> FALSE,
         dispatching |-> FALSE, passive |-> FALSE, phase |-> "none", target |-> 0, current |-> 0]
NotRunning == [id |-> 0]

Ids(n) == {events.listeners[n][i].id : i \in DOMAIN events.listeners[n]}
Registered == UNION {Ids(n) : n \in Targets}

-----------------------------------------------------------------------------
(* Listeners *)

Bucket(r, n, capture) == SelectSeq(r.listeners[n], LAMBDA l : l.capture = capture)
Holds(bucket, f) == \E i \in DOMAIN bucket : bucket[i].callback = f
FirstOf(bucket, f) == SelectSeq(bucket, LAMBDA l : l.callback = f)[1].id

\* add_listener_inner: a callback already in the bucket is not added again.
Added(r, n, f, capture, once, passive) ==
  IF Holds(Bucket(r, n, capture), f) THEN r
  ELSE [r EXCEPT !.listeners[n] = Append(@, [id |-> r.nextId, callback |-> f, capture |-> capture, once |-> once, passive |-> passive]),
                 !.held = @ \cup {r.nextId},
                 !.nextId = @ + 1]

\* Nothing is registered yet, or one function at the foot of the tree and
\* elsewhere, under some options.  settled is a history variable: the document
\* whose dispatch was the last one to end with no other under way.
EventsInit ==
  LET unused == [listeners |-> [n \in Targets |-> <<>>], held |-> {}, pending |-> {}, settled |-> "none", hooks |-> <<>>,
                 slot |-> [n \in Targets |-> Nobody], attribute |-> {},
                 state |-> [e \in Dispatched |-> Idle], frames |-> <<>>, nextId |-> 1, ops |-> 0]
  IN \E f \in Callbacks, o \in ListenerOptions, heard \in {<<>>, <<1, Elsewhere>>} :
       events = FoldLeft(LAMBDA r, n : Added(r, n, f, o.capture, o.once, o.passive), unused, heard)

\* drop_listener_callback: while a dispatch runs, in any document, its snapshot
\* may still need the callback.
Drop(r, n, id) ==
  IF r.frames = <<>> THEN [r EXCEPT !.held = @ \ {id}]
  ELSE [r EXCEPT !.pending = @ \cup {[id |-> id, document |-> DocumentOf(n)]}]

Unlisted(r, n, id) == [r EXCEPT !.listeners[n] = SelectSeq(@, LAMBDA l : l.id # id)]

\* remove_listener_inner: the capture flag is ignored, the bubbling listener
\* goes first.
Removed(r, n, f) ==
  LET bucket == CHOOSE b \in {Bucket(r, n, c) : c \in BOOLEAN} :
                  Holds(b, f) /\ (b = Bucket(r, n, FALSE) \/ ~Holds(Bucket(r, n, FALSE), f))
  IN IF \A c \in BOOLEAN : ~Holds(Bucket(r, n, c), f) THEN r
     ELSE Drop(Unlisted(r, n, FirstOf(bucket, f)), n, FirstOf(bucket, f))

\* A callback is running, or the program is between dispatches.
Programming == events.frames # <<>> => Last(events.frames).running # NotRunning
Called(r) == /\ Programming
             /\ events.ops < MaxEventOps
             /\ events' = [r EXCEPT !.ops = @ + 1]

AddEventListener(n, f, capture, once, passive) == Called(Added(events, n, f, capture, once, passive))
AddUnderSignal(n, f, capture) ==
  Called([Added(events, n, f, capture, FALSE, FALSE) EXCEPT !.hooks = Append(@, <<n, f>>)])
RemoveEventListener(n, f) == Called(Removed(events, n, f))

\* The signal has an abort listener for each call made under it, and each
\* removes one listener of its function, whatever call registered that.
SignalAborted ==
  Called([FoldLeft(LAMBDA r, hook : Removed(r, hook[1], hook[2]), events, events.hooks) EXCEPT !.hooks = <<>>])

-----------------------------------------------------------------------------
(* on<event> properties *)

AttributeSet(n) == Called([events EXCEPT !.attribute = @ \cup {n}])

\* eventHandlerGetter compiles the attribute once; it registers nothing.
HandlerRead(n) ==
  /\ events.slot[n] = Nobody
  /\ n \in events.attribute
  /\ Called([events EXCEPT !.slot[n] = Compiled])

\* Mutant: the setter forgets to unregister the handler it replaces.
HandlerSetOnly(n, f) ==
  LET bare == [events EXCEPT !.attribute = @ \ {n}, !.slot[n] = f]
  IN Called(IF f = Nobody THEN bare ELSE Added(bare, n, f, FALSE, FALSE, FALSE))

HandlerSet(n, f) ==
  LET bare == [Removed(events, n, events.slot[n]) EXCEPT !.attribute = @ \ {n}, !.slot[n] = f]
  IN Called(IF f = Nobody THEN bare ELSE Added(bare, n, f, FALSE, FALSE, FALSE))

-----------------------------------------------------------------------------
(* Dispatch *)

\* composed_path: a composed event leaves the shadow tree.
Top(n, e) == IF n = Elsewhere THEN n ELSE IF e \in Composed \/ n > TheShadowRoot THEN TheRoot ELSE TheShadowRoot
Path(n, e) == [i \in 1..(Top(n, e) - n + 1) |-> n + i - 1]

\* The stops of a dispatch along a path of length l: down to the target while
\* capturing, the target, and up again.
PhaseAt(l, stop) == CASE stop <= l -> "capturing" [] stop = l + 1 -> "at target" [] OTHER -> "bubbling"
NodeAt(path, stop) == IF stop <= Len(path) THEN path[Len(path) + 1 - stop] ELSE path[stop - Len(path)]
LastStop(frame, e) ==
  IF e.bubbles \/ frame.stop > Len(frame.path) + 1 THEN 2 * Len(frame.path) ELSE Len(frame.path) + 1

\* refresh_snapshot
Snapshot(r, path, stop) == Bucket(r, NodeAt(path, stop), PhaseAt(Len(path), stop) = "capturing")

\* advance_struct: the next stop with a listener.
StopsAhead(frame) ==
  LET e == events.state[frame.event]
  IN IF e.stop THEN {} ELSE {s \in frame.stop + 1..LastStop(frame, e) : Snapshot(events, frame.path, s) # <<>>}

SetFrame(r, frame) == [r EXCEPT !.frames = Append(Front(@), frame)]

\* begin_dispatch; an event that is being dispatched is refused.
DispatchEvent(n, e) ==
  /\ ~events.state[e].dispatching
  /\ Len(events.frames) < MaxDepth
  /\ Called([events EXCEPT
       !.state[e] = [@ EXCEPT !.dispatching = TRUE, !.phase = "none", !.target = n, !.current = 0,
                              !.stop = FALSE, !.stopNow = FALSE, !.passive = FALSE],
       !.frames = Append(@, [event |-> e, path |-> Path(n, e), stop |-> 1,
                             queue |-> Snapshot(events, Path(n, e), 1), running |-> NotRunning])])

Invoked(frame, stop, queue) ==
  [SetFrame(events, [frame EXCEPT !.stop = stop, !.queue = Tail(queue), !.running = Head(queue)]) EXCEPT
     !.state[frame.event] = [@ EXCEPT !.phase = PhaseAt(Len(frame.path), stop),
                                      !.current = NodeAt(frame.path, stop),
                                      !.passive = Head(queue).passive]]

\* next_invocation
Invoke ==
  LET frame == Last(events.frames)
  IN /\ events.frames # <<>>
     /\ frame.running = NotRunning
     /\ ~events.state[frame.event].stopNow
     /\ \/ /\ frame.queue # <<>>
           /\ events' = Invoked(frame, frame.stop, frame.queue)
        \/ /\ frame.queue = <<>>
           /\ StopsAhead(frame) # {}
           /\ LET stop == Min(StopsAhead(frame)) IN events' = Invoked(frame, stop, Snapshot(events, frame.path, stop))

\* The callback returns, or throws and is contained; complete_invocation.
Return ==
  LET frame == Last(events.frames)
      l == frame.running
      n == events.state[frame.event].current
      after == [SetFrame(events, [frame EXCEPT !.running = NotRunning]) EXCEPT !.state[frame.event].passive = FALSE]
  IN /\ events.frames # <<>>
     /\ l # NotRunning
     /\ events' = IF l.once /\ l.id \in Ids(n) THEN Drop(Unlisted(after, n, l.id), n, l.id) ELSE after

\* finish_dispatch; the outermost one releases what was kept in its document.
Finish ==
  LET frame == Last(events.frames)
      here == DocumentOf(Head(frame.path))
      kept == IF Len(events.frames) = 1 THEN {d \in events.pending : d.document # here} ELSE events.pending
  IN /\ events.frames # <<>>
     /\ frame.running = NotRunning
     /\ \/ events.state[frame.event].stopNow
        \/ frame.queue = <<>> /\ StopsAhead(frame) = {}
     /\ events' = [events EXCEPT
          !.frames = Front(@),
          !.state[frame.event] = [@ EXCEPT !.dispatching = FALSE, !.phase = "none", !.current = 0, !.passive = FALSE],
          !.held = @ \ {d.id : d \in events.pending \ kept},
          !.pending = kept,
          !.settled = IF Len(events.frames) = 1 THEN here ELSE @]

-----------------------------------------------------------------------------
(* The event object *)

PreventDefault(e) == Called([events EXCEPT !.state[e].prevented = @ \/ (events.state[e].cancelable /\ ~events.state[e].passive)])
StopPropagation(e) == Called([events EXCEPT !.state[e].stop = TRUE])
StopImmediatePropagation(e) == Called([events EXCEPT !.state[e].stopNow = TRUE])

\* initEvent clears the flags even in mid-dispatch; initCustomEvent does not.
InitEvent(e, bubbles, cancelable) ==
  Called([events EXCEPT !.state[e] = [@ EXCEPT !.bubbles = bubbles, !.cancelable = cancelable,
                                               !.prevented = FALSE, !.stop = FALSE, !.stopNow = FALSE]])
InitCustomEvent(e, bubbles, cancelable) ==
  Called([events EXCEPT !.state[e] = [@ EXCEPT !.bubbles = bubbles, !.cancelable = cancelable]])

\* What an event object tells of itself.
EventReads(e) ==
  LET s == events.state[e]
  IN [target |-> s.target, currentTarget |-> s.current, eventPhase |-> s.phase, bubbles |-> s.bubbles,
      cancelable |-> s.cancelable, composed |-> e \in Composed, defaultPrevented |-> s.prevented, cancelBubble |-> s.stop]

ListenerCalls ==
  \/ \E n \in Targets, f \in Callbacks :
       \/ \E o \in ListenerOptions :
            \/ AddEventListener(n, f, o.capture, o.once, o.passive)
            \/ AddUnderSignal(n, f, o.capture)
       \/ RemoveEventListener(n, f)
  \/ \E n \in 1..TheRoot :
       \/ AttributeSet(n)
       \/ HandlerRead(n)
       \/ \E f \in Handlers \cup {Nobody} : HandlerSet(n, f)
\* An event is stopped while it is dispatched: begin_dispatch clears the flags.
EventCalls ==
  \/ \E e \in Dispatched :
       \/ \E n \in Targets : DispatchEvent(n, e)
       \/ PreventDefault(e)
       \/ InitEvent(e, FALSE, TRUE) \/ InitCustomEvent(e, TRUE, FALSE)
  \/ \E i \in DOMAIN events.frames :
       \/ StopPropagation(events.frames[i].event)
       \/ StopImmediatePropagation(events.frames[i].event)
EventsMoves == ListenerCalls \/ SignalAborted \/ EventCalls \/ Invoke \/ Return \/ Finish

-----------------------------------------------------------------------------
(* Payloads: the own fields a constructor fills in, each by its default.  A  *)
(* given field is any value but null.                                        *)

Fields(names, default) == [k \in names |-> default]
UIEventFields == Fields({"detail"}, "0") @@ Fields({"view"}, "null")
UIEventFixed == Fields({"layerX", "layerY", "pageX", "pageY"}, "0")
Modifiers == Fields({"altKey", "ctrlKey", "metaKey", "shiftKey"}, "false")
MouseEventFields ==
  UIEventFields @@ Modifiers
  @@ Fields({"button", "buttons", "clientX", "clientY", "movementX", "movementY", "offsetX", "offsetY", "screenX", "screenY"}, "0")
  @@ Fields({"region"}, "") @@ Fields({"relatedTarget"}, "null")
KeyboardEventFields ==
  UIEventFields @@ Modifiers @@ Fields({"code", "key"}, "") @@ Fields({"isComposing", "repeat"}, "false")
  @@ Fields({"location", "keyCode", "which"}, "0")
FocusEventFields == UIEventFields @@ Fields({"relatedTarget"}, "null")
WheelEventFields == UIEventFields @@ Fields({"deltaX", "deltaY", "deltaZ", "deltaMode"}, "0")
InputEventFields == UIEventFields @@ Fields({"data", "inputType"}, "") @@ Fields({"dataTransfer"}, "null") @@ Fields({"isComposing"}, "false")
ClipboardEventFields == Fields({"clipboardData"}, "null")
TouchFields ==
  Fields({"identifier"}, "undefined") @@ Fields({"target"}, "null")
  @@ Fields({"clientX", "clientY", "screenX", "screenY", "pageX", "pageY", "radiusX", "radiusY", "rotationAngle", "force"}, "0")
TouchEventFields == UIEventFields @@ Modifiers @@ Fields({"changedTouches", "targetTouches", "touches"}, "[]")
CustomEventFields == Fields({"detail"}, "null")

Constructors ==
  [UIEvent |-> UIEventFields, MouseEvent |-> MouseEventFields, KeyboardEvent |-> KeyboardEventFields, FocusEvent |-> FocusEventFields,
   WheelEvent |-> WheelEventFields, InputEvent |-> InputEventFields, ClipboardEvent |-> ClipboardEventFields,
   Touch |-> TouchFields, TouchEvent |-> TouchEventFields, CustomEvent |-> CustomEventFields]

\* `which` falls back to the keyCode it was given.
Construct(class, init) ==
  LET fields == Constructors[class]
      given == init @@ fields
  IN [k \in DOMAIN fields |-> IF k = "which" /\ "which" \notin DOMAIN init THEN given["keyCode"] ELSE given[k]]

\* getModifierState: AltGraph reads altKey.
GetModifierState(fields, key) ==
  CASE key \in {"alt", "altgraph"} -> fields["altKey"] = "true"
    [] key = "control" -> fields["ctrlKey"] = "true"
    [] key = "meta" -> fields["metaKey"] = "true"
    [] key = "shift" -> fields["shiftKey"] = "true"
    [] OTHER -> FALSE

\* An event is constructed, and another from what it reads.
PayloadInit ==
  \E class \in DOMAIN Constructors : \E a, b \in DOMAIN Constructors[class] :
    LET init == [k \in {a, b} |-> IF k \in DOMAIN Modifiers THEN "true" ELSE "given"]
    IN payload = [class |-> class, init |-> init, fields |-> Construct(class, init)]
PayloadMoves == payload' = [payload EXCEPT !.fields = Construct(payload.class, @)]

-----------------------------------------------------------------------------
(* Properties *)

\* A copy reads what its original was given, and so do its modifiers.
CopiesReadAlike ==
  /\ payload.fields = Construct(payload.class, payload.init)
  /\ payload.class \in {"MouseEvent", "KeyboardEvent", "TouchEvent"} =>
       \A key \in {"alt", "control", "meta", "shift"} :
         GetModifierState(payload.fields, key) = (\E k \in DOMAIN payload.init : k = (IF key = "control" THEN "ctrl" ELSE key) \o "Key")

\* Every listener a dispatch has in its snapshot can still be called: removing
\* it, or a nested dispatch that ends meanwhile, leaves its callback reachable.
CallbacksReachable ==
  \A i \in DOMAIN events.frames :
    LET f == events.frames[i] IN \A j \in DOMAIN f.queue : f.queue[j].id \in events.held

\* Between dispatches the registry holds the callbacks of the registered
\* listeners, and of those that were taken off in one document while the other
\* one was dispatching: these are kept until their own document has dispatched.
CallbacksReleased ==
  LET kept == {d.id : d \in events.pending} IN
  events.frames = <<>> => /\ events.held = Registered \cup kept
                          /\ Registered \cap kept = {}
                          /\ \A d \in events.pending : d.document # events.settled

\* However often it is added, a function is in a bucket once.
NoTwins ==
  \A n \in Targets : \A i, j \in DOMAIN events.listeners[n] :
    /\ events.listeners[n][i].callback = events.listeners[n][j].callback
    /\ events.listeners[n][i].capture = events.listeners[n][j].capture
    => i = j

\* A function given to an on<event> property is registered exactly while it is
\* the property's value.
HandlerInSlot ==
  \A n \in Targets, f \in Handlers : Holds(Bucket(events, n, FALSE), f) <=> events.slot[n] = f

\* An event outside a dispatch reads as such; one inside is in one dispatch
\* only, and its current target is on its path.
EventInOneDispatch ==
  \A e \in Dispatched :
    LET own == {i \in DOMAIN events.frames : events.frames[i].event = e}
        reads == EventReads(e)
    IN IF events.state[e].dispatching
       THEN \E i \in own : own = {i} /\ reads.currentTarget \in {0} \cup ToSet(events.frames[i].path)
       ELSE own = {} /\ reads.eventPhase = "none" /\ reads.currentTarget = 0
=============================================================================
