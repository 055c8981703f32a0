---------------------------- MODULE FetchBodies ----------------------------
(***************************************************************************)
(* The bodies of requests and responses: src/js/facade/extensions/fetch.js *)
(*                                                                         *)
(* A body is read chunk by chunk, with an await before each; between two   *)
(* reads the program calls anything.  Requests and responses are numbered  *)
(* as they are made, and so are streams.  The text of a body is a value    *)
(* that stands for it, a parsed form is one whose Content-Type is the one  *)
(* its text was written with.                                              *)
(***************************************************************************)
EXTENDS Naturals, Sequences

CONSTANTS MaxMessages,   \* bound on the constructions of requests and responses
          MaxReads       \* bound on the readers taken

VARIABLE body            \* requests, responses, their streams and who reads them

Nothing == "nothing"

-----------------------------------------------------------------------------
(* Bodies *)

BodyInits == {"none", "text", "form", "stream"}
Chunks(init) == CASE init = "none" -> <<>> [] init = "text" -> <<"t">> [] init = "form" -> <<"f">> [] init = "stream" -> <<"a", "b">>
TypeOf(init) == CASE init = "text" -> "text/plain" [] init = "form" -> "multipart" [] OTHER -> Nothing
Methods == {"GET", "POST", "TRACE"}

\* stream 0 is no stream; form is what the reader does with the text.
NoMessage == [kind |-> "request", method |-> "GET", used |-> FALSE, buffer |-> Nothing, stream |-> 0,
              type |-> Nothing, contentType |-> Nothing, whole |-> <<>>]
NewStream(chunks) == [left |-> chunks, locked |-> FALSE]
FetchBodiesInit == body = [messages |-> <<>>, streams |-> <<>>, readers |-> <<>>, made |-> 0]

Messages == DOMAIN body.messages
WithStream(b, chunks) == [b EXCEPT !.streams = Append(@, NewStream(chunks))]
LastStream(b) == Len(b.streams)

\* getBodyStream: everything but a stream is kept whole next to its stream.
GetBodyStream(b, m, init) ==
  IF init = "none" THEN [b |-> b, m |-> m]
  ELSE LET streamed == WithStream(b, Chunks(init)) IN
       [b |-> streamed,
        m |-> [m EXCEPT !.stream = LastStream(streamed), !.whole = Chunks(init), !.contentType = TypeOf(init),
                        !.buffer = IF init = "stream" THEN Nothing ELSE Chunks(init),
                        !.type = IF @ = Nothing THEN TypeOf(init) ELSE @]]

\* ReadableStream.tee: the stream is locked, two others share what it has left.
Tee(b, s) == [b EXCEPT !.streams = [@ EXCEPT ![s].locked = TRUE] \o <<NewStream(b.streams[s].left), NewStream(b.streams[s].left)>>]

\* cloneBodyStream: a buffered body gets a stream of its own, another is split,
\* and the original goes on with the first half.
CanCloneStream(i) == /\ ~body.messages[i].used
                     /\ body.messages[i].stream # 0 /\ body.messages[i].buffer = Nothing => ~body.streams[body.messages[i].stream].locked
CloneBodyStream(i) ==
  LET m == body.messages[i] IN
  CASE m.stream = 0 -> [b |-> body, s |-> 0]
    [] m.stream # 0 /\ m.buffer # Nothing -> [b |-> WithStream(body, m.buffer), s |-> LastStream(body) + 1]
    [] OTHER -> [b |-> [Tee(body, m.stream) EXCEPT !.messages[i].stream = LastStream(body) + 1], s |-> LastStream(body) + 2]

\* validateMethod, validateBody: what the constructor throws last.
ValidateMethod(m) == m.method # "TRACE"
ValidateBody(m) == ~(m.stream # 0 /\ m.method = "GET")
Kept(b, m) ==
  body' = [b EXCEPT !.messages = IF ValidateMethod(m) /\ ValidateBody(m) THEN Append(@, m) ELSE @, !.made = @ + 1]
MayMake == body.made < MaxMessages

NewRequest(init, method) ==
  LET made == GetBodyStream(body, [NoMessage EXCEPT !.method = method], init)
  IN MayMake /\ Kept(made.b, made.m)

\* new Request(request, init): the input's body wins over init.body; a buffer
\* is shared without a look at bodyUsed, a stream is cloned.  Headers given in
\* init replace the input's.
RequestOfRequest(i, method, ownHeaders, init) ==
  LET m == body.messages[i]
      made == [NoMessage EXCEPT !.method = method, !.type = IF ownHeaders THEN Nothing ELSE m.type]
      typed == [made EXCEPT !.contentType = m.contentType]
      cloned == CloneBodyStream(i)
  IN /\ MayMake /\ m.kind = "request"
     /\ CASE m.buffer # Nothing ->
               Kept(WithStream(body, m.buffer), [typed EXCEPT !.stream = LastStream(body) + 1, !.buffer = m.buffer, !.whole = m.buffer])
          [] m.buffer = Nothing /\ m.stream # 0 ->
               CanCloneStream(i) /\ Kept(cloned.b, [typed EXCEPT !.stream = cloned.s, !.whole = m.whole])
          [] OTHER ->
               LET filled == GetBodyStream(body, made, init)
               IN Kept(filled.b, [filled.m EXCEPT !.contentType = IF @ = Nothing THEN m.contentType ELSE @])
RequestClone(i) == RequestOfRequest(i, body.messages[i].method, FALSE, "none")

NewResponse(init) ==
  LET made == GetBodyStream(body, [NoMessage EXCEPT !.kind = "response", !.method = "POST"], init)
  IN MayMake /\ Kept(made.b, [made.m EXCEPT !.contentType = Nothing])

\* new Response(other.body): the two objects share the stream.
ResponseOfBody(i) ==
  /\ MayMake /\ body.messages[i].stream # 0
  /\ Kept(body, [NoMessage EXCEPT !.kind = "response", !.method = "POST", !.stream = body.messages[i].stream,
                                  !.whole = body.streams[body.messages[i].stream].left])

ResponseClone(i) ==
  LET m == body.messages[i] cloned == CloneBodyStream(i) IN
  /\ MayMake /\ m.kind = "response" /\ CanCloneStream(i)
  /\ Kept(cloned.b, [m EXCEPT !.stream = cloned.s])

DeleteContentType(i) == body.messages[i].type # Nothing /\ body' = [body EXCEPT !.messages[i].type = Nothing]

-----------------------------------------------------------------------------
(* Reading *)

NewReader(i, as) == [message |-> i, as |-> as, stream |-> body.messages[i].stream, got |-> <<>>, state |-> "reading"]
Reads(i) == Len(body.readers) < MaxReads /\ i \in Messages
Ends(b, r) == [b EXCEPT !.readers = Append(@, r)]

\* consumeBodyStream: getReader is called in the consumer's own turn, and throws
\* on a stream that has a reader.
ConsumeBodyStream(b, r) ==
  CASE r.stream = 0 -> Ends(b, [r EXCEPT !.state = "read"])
    [] r.stream # 0 /\ b.streams[r.stream].locked -> Ends(b, [r EXCEPT !.state = "threw"])
    [] OTHER -> Ends([b EXCEPT !.streams[r.stream].locked = TRUE], r)
Whole(b, r) == Ends(b, [r EXCEPT !.got = b.messages[r.message].buffer, !.state = "read"])
SetUsed(i) == [body EXCEPT !.messages[i].used = TRUE]

\* arrayBuffer, buffer, text, json, blob of a request: always through its stream.
RequestConsume(i) ==
  /\ Reads(i) /\ body.messages[i].kind = "request" /\ ~body.messages[i].used
  /\ body' = ConsumeBodyStream(SetUsed(i), NewReader(i, "text"))
\* ... and of a response: of its buffer, if it has one.
ResponseConsume(i) ==
  /\ Reads(i) /\ body.messages[i].kind = "response" /\ ~body.messages[i].used
  /\ body' = IF body.messages[i].buffer # Nothing THEN Whole(SetUsed(i), NewReader(i, "text"))
             ELSE ConsumeBodyStream(SetUsed(i), NewReader(i, "text"))

\* parseFormDataBody: the type of the headers or else of the construction says
\* how the text is read.
FormType(m) == IF m.kind = "request" /\ m.type = Nothing THEN m.contentType ELSE m.type
FormData(i) ==
  LET m == body.messages[i] IN
  /\ Reads(i) /\ ~m.used
  /\ body' = CASE FormType(m) # "multipart" \/ m.stream = 0 -> Ends(SetUsed(i), [NewReader(i, "form") EXCEPT !.state = "threw"])
               [] FormType(m) = "multipart" /\ m.stream # 0 /\ m.buffer # Nothing -> Whole(SetUsed(i), NewReader(i, "form"))
               [] OTHER -> ConsumeBodyStream(SetUsed(i), NewReader(i, "form"))

\* The program takes the reader itself: object.body.getReader().
TakeReader(i) ==
  LET s == body.messages[i].stream IN
  /\ s # 0 /\ ~body.streams[s].locked
  /\ body' = [body EXCEPT !.streams[s].locked = TRUE]

\* One reader.read(), whenever its turn comes.
ReadResult(k) ==
  LET r == body.readers[k] left == body.streams[r.stream].left IN
  /\ r.state = "reading"
  /\ body' = IF left = <<>> THEN [body EXCEPT !.readers[k].state = "read"]
             ELSE [body EXCEPT !.readers[k].got = Append(@, Head(left)), !.streams[r.stream].left = Tail(left)]

BodyMoves ==
  \/ \E init \in BodyInits, method \in Methods : NewRequest(init, method)
  \/ \E i \in Messages, method \in Methods, own \in BOOLEAN, init \in {"none", "text"} : RequestOfRequest(i, method, own, init)
  \/ \E i \in Messages : RequestClone(i)
  \/ \E init \in BodyInits : NewResponse(init)
  \/ \E i \in Messages : ResponseOfBody(i)
  \/ \E i \in Messages : ResponseClone(i)
  \/ \E i \in Messages : DeleteContentType(i)
  \/ \E i \in Messages : RequestConsume(i)
  \/ \E i \in Messages : ResponseConsume(i)
  \/ \E i \in Messages : FormData(i)
  \/ \E i \in Messages : TakeReader(i)
  \/ \E k \in DOMAIN body.readers : ReadResult(k)

\* What a consumer resolves to is the whole body the object was made with,
\* whichever of the objects that share or split its stream is read first.
BodiesDelivered ==
  \A k \in DOMAIN body.readers :
    body.readers[k].state = "read" => body.readers[k].got = body.messages[body.readers[k].message].whole
\* Two consumers of one object never both resolve.
ConsumedOnce ==
  \A k, l \in DOMAIN body.readers :
    body.readers[k].message = body.readers[l].message /\ body.readers[k].state # "threw" /\ body.readers[l].state # "threw" => k = l
\* A request that carries a form can be read as one, whatever became of its
\* headers and of those of the request it was made from.
FormsReadable ==
  \A k \in DOMAIN body.readers :
    LET m == body.messages[body.readers[k].message] IN
    body.readers[k].as = "form" /\ m.kind = "request" /\ m.whole = Chunks("form") => body.readers[k].state # "threw"

=============================================================================
