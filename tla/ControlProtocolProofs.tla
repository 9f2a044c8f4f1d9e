------------------------- MODULE ControlProtocolProofs -------------------------
(***************************************************************************)
(* Theorems about ControlProtocol, for every set of outbound and inbound   *)
(* requests and both flavours of scheduler.                                *)
(***************************************************************************)
EXTENDS ControlProtocol, SequenceTheorems, TLAPS

Frame == [kind : Kind, id : Request \union Inbound]

-----------------------------------------------------------------------------
(* The inductive invariant *)

\* The id of a frame is one of the side that gave it out; a request is in the
\* pipe at most once and before its handler; a cancel is behind its request.
WireInv ==
    /\ \A i \in 1..Len(wire) :
        /\ wire[i].kind = "response" => wire[i].id \in Request
        /\ wire[i].kind \in {"request", "cancel"} => wire[i].id \in Inbound
        /\ wire[i].kind = "request" => handler[wire[i].id] = "none"
        /\ wire[i].kind = "cancel" =>
             \/ handler[wire[i].id] # "none"
             \/ \E j \in 1..i - 1 : wire[j].kind = "request" /\ wire[j].id = wire[i].id
    /\ \A i, j \in 1..Len(wire) :
        wire[i].kind = "request" /\ wire[j].kind = "request" /\ wire[i].id = wire[j].id
          => i = j

\* What the reader is in the middle of.
ReaderInv ==
    /\ reader = "routing" =>
        /\ current.kind = "response" /\ current.id \in Request
        /\ current.id \notin pending /\ req[current.id] # "idle"
    /\ reader \in {"spawned", "registered"} =>
        /\ current.kind = "request" /\ current.id \in Inbound
        /\ handler[current.id] \in {"gated", "aborted"}
    /\ reader = "registered" => current.id \in inflight \union killed
    /\ reader \notin {"routing", "spawned", "registered"} => current = None

\* What was asked for was registered before; nobody registers late unnoticed.
WaiterInv ==
    /\ \A r \in Request : req[r] = "idle" =>
        mailbox[r] = "none" /\ r \notin asked /\ r \notin dropped
    /\ \A i \in 1..Len(wire) : wire[i].kind = "response" => req[wire[i].id] # "idle"
    /\ closing \in {"aborting", "flushing", "closed"} => pending \subseteq late

\* On one thread an abort takes effect at once, the gate is never seen shut from
\* outside, and close goes from its first step to the flush in one go.
OneThreadInv == OneThread =>
    /\ \A h \in killed : handler[h] = "aborted"
    /\ \A h \in Inbound : handler[h] = "gated" =>
        reader \in {"spawned", "registered"} /\ current.id = h
    /\ closing # "open" => reader \notin {"spawned", "registered", "routing"}
    /\ closing \in {"failing", "aborting", "flushing", "closed"} =>
        \A h \in Inbound : handler[h] \in {"none", "done", "aborted"}
    /\ \A h \in cancelled : handler[h] \in {"removing", "done", "aborted"}
    /\ reader = "aborted" => closing \in {"flushing", "closed"}

IInv == /\ TypeOK /\ WireInv /\ ReaderInv /\ WaiterInv /\ OneThreadInv
        /\ TablesAgree /\ NoAnswerLost

-----------------------------------------------------------------------------
(* Lemmas about the frames in the pipe *)

LEMMA SentFrames ==
    ASSUME NEW frame \in Frame, TypeOK, wire' = Append(wire, frame)
    PROVE  /\ wire' \in Seq(Frame) /\ Len(wire') = Len(wire) + 1 /\ Len(wire) \in Nat
           /\ \A i \in 1..Len(wire) : wire'[i] = wire[i]
           /\ wire'[Len(wire) + 1] = frame
BY DEF TypeOK, Frame

LEMMA ReadFrames ==
    ASSUME TypeOK, wire # <<>>, wire' = Tail(wire)
    PROVE  /\ wire' \in Seq(Frame) /\ Len(wire') = Len(wire) - 1 /\ Len(wire) \in Nat \ {0}
           /\ \A i \in 1..Len(wire') : wire'[i] = wire[i + 1]
           /\ Head(wire) = wire[1] /\ wire[1] \in Frame
<1>1. wire \in Seq(Frame)
  BY DEF TypeOK, Frame
<1>2. QED
  BY <1>1, HeadTailProperties

LEMMA PipeFrames == TypeOK => \A i \in 1..Len(wire) : wire[i] \in Frame
<1> SUFFICES ASSUME TypeOK, NEW i \in 1..Len(wire) PROVE wire[i] \in Frame
  OBVIOUS
<1>1. wire \in Seq(Frame)
  BY DEF TypeOK, Frame
<1>2. QED
  BY <1>1

\* The initial state.
LEMMA InitIInv == Init => IInv
<1> SUFFICES ASSUME Init PROVE IInv
  OBVIOUS
<1> USE DEF Init
<1>1. TypeOK
  <2>1. wire \in Seq([kind : Kind, id : Request \union Inbound])
    OBVIOUS
  <2>2. QED
    BY <2>1, ControlAssumption DEF TypeOK
<1>2. WireInv /\ ReaderInv /\ WaiterInv /\ OneThreadInv
  BY DEF WireInv, ReaderInv, WaiterInv, OneThreadInv
<1>3. TablesAgree /\ NoAnswerLost
  BY DEF TablesAgree, WaiterTable, HandlerTable, NoAnswerLost
<1>4. QED
  BY <1>1, <1>2, <1>3 DEF IInv

-----------------------------------------------------------------------------
(* Type correctness *)

LEMMA TypeStep == IInv /\ [Next]_vars => TypeOK'
<1> SUFFICES ASSUME IInv, [Next]_vars PROVE TypeOK'
  OBVIOUS
<1> USE DEF waiters, handlers, cli, history
<1>0. TypeOK /\ WireInv /\ ReaderInv /\ TablesAgree
  BY DEF IInv
<1>1. ASSUME NEW r \in Request, Register(r) \/ Abandon(r) \/ WriteRequest(r) \/ WriteReturns(r)
             PROVE TypeOK'
  BY <1>0, <1>1 DEF TypeOK, Register, Abandon, WriteRequest, WriteReturns
<1>2. ASSUME NEW r \in Request, WriteFails(r) \/ Timeout(r) \/ Receive(r) PROVE TypeOK'
  BY <1>0, <1>2 DEF TypeOK, WriteFails, Timeout, Receive, GiveUp
<1>3. ASSUME NEW r \in Request, CliAnswers(r) PROVE TypeOK'
  <2>1. [kind |-> "response", id |-> r] \in Frame
    BY DEF Frame, Kind
  <2>2. wire' \in Seq(Frame)
    BY <1>0, <1>3, <2>1, SentFrames DEF CliAnswers, Send
  <2>3. QED
    BY <1>0, <1>3, <2>2 DEF TypeOK, CliAnswers, Send, Frame
<1>4. ASSUME NEW h \in Inbound, CliRequests(h) \/ CliCancels(h) PROVE TypeOK'
  <2>1. /\ [kind |-> "request", id |-> h] \in Frame
        /\ [kind |-> "cancel", id |-> h] \in Frame
    BY DEF Frame, Kind
  <2>2. wire' \in Seq(Frame)
    BY <1>0, <1>4, <2>1, SentFrames DEF CliRequests, CliCancels, Send
  <2>3. QED
    BY <1>0, <1>4, <2>2 DEF TypeOK, CliRequests, CliCancels, Send, Frame
<1>5. ASSUME NEW h \in Inbound, Handler(h) \/ HandlerDies(h) PROVE TypeOK'
  BY <1>0, <1>5 DEF TypeOK, Handler, CallbackReturns, WriteAnswer, RemoveItself, HandlerDies
<1>6. ASSUME ReadResponse PROVE TypeOK'
  <2>1. wire' \in Seq(Frame) /\ Head(wire) \in Frame /\ Head(wire).id \in Request
    BY <1>0, <1>6, ReadFrames DEF ReadResponse, WireInv
  <2>2. QED
    BY <1>0, <1>6, <2>1 DEF TypeOK, ReadResponse, Frame
<1>7. ASSUME ReadRequest \/ ReadCancel PROVE TypeOK'
  <2>1. wire' \in Seq(Frame) /\ Head(wire) \in Frame /\ Head(wire).id \in Inbound
    BY <1>0, <1>7, ReadFrames DEF ReadRequest, ReadCancel, WireInv
  <2>2. QED
    BY <1>0, <1>7, <2>1 DEF TypeOK, ReadRequest, ReadCancel, Kill, Frame
<1>8. CASE ReadEof \/ RegisterHandler \/ Release \/ ReaderDies
  BY <1>0, <1>8 DEF TypeOK, ReaderInv, ReadEof, RegisterHandler, Release, ReaderDies
<1>9. CASE Route
  BY <1>0, <1>9 DEF TypeOK, ReaderInv, Route
<1>10. CASE ReadError \/ FailWaiters
  BY <1>0, <1>10 DEF TypeOK, ReadError, FailWaiters, FailPending
<1>11. CASE BeginClose \/ CancelHandlers \/ AbortReader \/ CloseTransport \/ CliEnds
  BY <1>0, <1>11 DEF TypeOK, BeginClose, CancelHandlers, AbortReader, CloseTransport,
                     CliEnds, Kill
<1>12. CASE Finished \/ UNCHANGED vars
  BY <1>0, <1>12 DEF TypeOK, Finished, vars
<1>13. QED
  BY <1>1, <1>2, <1>3, <1>4, <1>5, <1>6, <1>7, <1>8, <1>9, <1>10, <1>11, <1>12
     DEF Next, Caller, Reader, Close

-----------------------------------------------------------------------------
(* The frames in the pipe *)

\* Only the reader takes a handler out of "none", and nothing puts it back.
LEMMA HandlerKnown ==
    ASSUME IInv, [Next]_vars, ~ReadRequest
    PROVE  \A h \in Inbound : handler'[h] = "none" <=> handler[h] = "none"
<1> USE DEF waiters, handlers, cli, history
<1>0. TypeOK /\ ReaderInv /\ TablesAgree
  BY DEF IInv
<1>1. ASSUME NEW h \in Inbound, Handler(h) \/ HandlerDies(h)
      PROVE  \A g \in Inbound : handler'[g] = "none" <=> handler[g] = "none"
  BY <1>0, <1>1 DEF TypeOK, Handler, CallbackReturns, WriteAnswer, RemoveItself, HandlerDies
<1>2. CASE Release \/ ReaderDies
  BY <1>0, <1>2 DEF TypeOK, ReaderInv, Release, ReaderDies
<1>3. CASE ReadCancel \/ CancelHandlers
  BY <1>0, <1>3 DEF TypeOK, ReadCancel, CancelHandlers, Kill, TablesAgree, HandlerTable
<1>4. CASE UNCHANGED handler
  BY <1>4
<1>5. QED
  BY <1>1, <1>2, <1>3, <1>4
     DEF Next, vars, Caller, Reader, Close, Register, WriteRequest, WriteReturns,
         WriteFails, Timeout, Receive,
         Abandon, CliAnswers, CliRequests, CliCancels, ReadResponse, ReadEof, Route,
         RegisterHandler, ReadError, BeginClose, FailWaiters, AbortReader, CloseTransport,
         CliEnds, Finished

\* Reading the first frame, and no more than the handler of a request.
LEMMA TailStep ==
    ASSUME TypeOK, WireInv, wire # <<>>, wire' = Tail(wire),
           \A h \in Inbound :
             IF wire[1].kind = "request" /\ wire[1].id = h THEN handler'[h] # "none"
             ELSE handler'[h] = "none" <=> handler[h] = "none"
    PROVE  WireInv'
<1>1. /\ Len(wire') = Len(wire) - 1 /\ Len(wire) \in Nat \ {0}
      /\ \A i \in 1..Len(wire') : wire'[i] = wire[i + 1]
  BY ReadFrames
<1>2. ASSUME NEW i \in 1..Len(wire')
      PROVE  /\ wire'[i].kind = "response" => wire'[i].id \in Request
             /\ wire'[i].kind \in {"request", "cancel"} => wire'[i].id \in Inbound
  BY <1>1, <1>2 DEF WireInv
<1>3. ASSUME NEW i \in 1..Len(wire'), wire'[i].kind = "request"
      PROVE  handler'[wire'[i].id] = "none"
  <2>1. /\ i + 1 \in 1..Len(wire) /\ 1 \in 1..Len(wire) /\ i + 1 # 1
        /\ wire'[i] = wire[i + 1]
    BY <1>1
  <2>2. ~ (wire[1].kind = "request" /\ wire[1].id = wire[i + 1].id)
    BY <1>3, <2>1 DEF WireInv
  <2>3. QED
    BY <1>3, <2>1, <2>2 DEF WireInv
<1>4. ASSUME NEW i \in 1..Len(wire'), wire'[i].kind = "cancel"
      PROVE  \/ handler'[wire'[i].id] # "none"
             \/ \E j \in 1..i - 1 : wire'[j].kind = "request" /\ wire'[j].id = wire'[i].id
  <2>1. i + 1 \in 1..Len(wire) /\ wire'[i] = wire[i + 1] /\ wire[i + 1].id \in Inbound
    BY <1>1, <1>2, <1>4
  <2>2. CASE handler[wire[i + 1].id] # "none"
    BY <2>1, <2>2
  <2>3. ASSUME NEW j \in 1..i, wire[j].kind = "request", wire[j].id = wire[i + 1].id
        PROVE  \/ handler'[wire'[i].id] # "none"
               \/ \E k \in 1..i - 1 : wire'[k].kind = "request" /\ wire'[k].id = wire'[i].id
    <3>1. CASE j = 1
      BY <2>1, <2>3, <3>1
    <3>2. CASE j # 1
      <4>1. j - 1 \in 1..i - 1 /\ j - 1 \in 1..Len(wire') /\ wire'[j - 1] = wire[j]
        BY <1>1, <2>3, <3>2
      <4>2. QED
        BY <2>1, <2>3, <4>1
    <3>3. QED
      BY <3>1, <3>2
  <2>4. QED
    BY <1>4, <2>1, <2>2, <2>3 DEF WireInv
<1>5. ASSUME NEW i \in 1..Len(wire'), NEW j \in 1..Len(wire'),
             wire'[i].kind = "request", wire'[j].kind = "request", wire'[i].id = wire'[j].id
      PROVE  i = j
  <2>1. /\ i + 1 \in 1..Len(wire) /\ wire'[i] = wire[i + 1]
        /\ j + 1 \in 1..Len(wire) /\ wire'[j] = wire[j + 1]
    BY <1>1
  <2>2. i + 1 = j + 1
    BY <1>5, <2>1 DEF WireInv
  <2>3. QED
    BY <2>2
<1>6. QED
  BY <1>2, <1>3, <1>4, <1>5 DEF WireInv

LEMMA WireStep == IInv /\ [Next]_vars => WireInv'
<1> SUFFICES ASSUME IInv, [Next]_vars PROVE WireInv'
  OBVIOUS
<1> USE DEF waiters, handlers, cli, history
<1>0. TypeOK /\ WireInv
  BY DEF IInv
<1>1. ASSUME NEW r \in Request, CliAnswers(r) PROVE WireInv'
  <2> DEFINE f == [kind |-> "response", id |-> r]
  <2>1. f \in Frame /\ f.kind = "response" /\ f.id = r
    BY DEF Frame, Kind
  <2>2. wire' = Append(wire, f) /\ UNCHANGED handler
    BY <1>1 DEF CliAnswers, Send
  <2> HIDE DEF f
  <2>3. QED
    BY <1>0, <2>1, <2>2, SentFrames DEF WireInv
<1>2. ASSUME NEW h \in Inbound, CliRequests(h) PROVE WireInv'
  <2> DEFINE f == [kind |-> "request", id |-> h]
  <2>1. f \in Frame /\ f.kind = "request" /\ f.id = h
    BY DEF Frame, Kind
  <2>2. /\ wire' = Append(wire, f) /\ UNCHANGED handler
        /\ handler[h] = "none" /\ \A i \in 1..Len(wire) : wire[i].id # h
    BY <1>2 DEF CliRequests, Send
  <2> HIDE DEF f
  <2>3. QED
    BY <1>0, <2>1, <2>2, SentFrames DEF WireInv
<1>3. ASSUME NEW h \in Inbound, CliCancels(h) PROVE WireInv'
  <2> DEFINE f == [kind |-> "cancel", id |-> h]
  <2>1. f \in Frame /\ f.kind = "cancel" /\ f.id = h
    BY DEF Frame, Kind
  <2>2. /\ wire' = Append(wire, f) /\ UNCHANGED handler
        /\ handler[h] # "none" \/ \E i \in 1..Len(wire) : wire[i].id = h
        /\ \A i \in 1..Len(wire) : wire[i] # f
    BY <1>3 DEF CliCancels, Send
  <2>3. handler[h] # "none" \/ \E i \in 1..Len(wire) : wire[i].kind = "request" /\ wire[i].id = h
    <3>1. ASSUME NEW i \in 1..Len(wire), wire[i].id = h, handler[h] = "none"
          PROVE  wire[i].kind = "request"
      <4>1. wire[i] \in Frame
        BY <1>0, PipeFrames
      <4>2. wire[i].kind # "response"
        BY <1>0, <3>1, ControlAssumption DEF WireInv
      <4>3. wire[i].kind # "cancel"
        BY <4>1, <3>1, <2>2 DEF Frame
      <4>4. QED
        BY <4>1, <4>2, <4>3 DEF Frame, Kind
    <3>2. QED
      BY <3>1, <2>2
  <2> HIDE DEF f
  <2>4. QED
    BY <1>0, <2>1, <2>2, <2>3, SentFrames DEF WireInv
<1>4. CASE ReadResponse \/ ReadCancel
  <2>1. wire # <<>> /\ wire' = Tail(wire) /\ wire[1].kind # "request"
    BY <1>0, <1>4, ReadFrames DEF ReadResponse, ReadCancel
  <2>2. \A h \in Inbound : handler'[h] = "none" <=> handler[h] = "none"
    BY <1>4, <1>0, HandlerKnown DEF ReadResponse, ReadCancel, ReadRequest
  <2>3. QED
    BY <1>0, <2>1, <2>2, TailStep
<1>5. CASE ReadRequest
  <2> DEFINE h == wire[1].id
  <2>1. /\ wire # <<>> /\ wire' = Tail(wire) /\ wire[1].kind = "request"
        /\ handler' = [handler EXCEPT ![h] = "gated"]
    <3>1. wire # <<>> /\ wire' = Tail(wire)
      BY <1>5 DEF ReadRequest
    <3>2. Head(wire) = wire[1]
      BY <1>0, <3>1, ReadFrames
    <3>3. QED
      BY <1>5, <3>1, <3>2 DEF ReadRequest
  <2>2. h \in Inbound /\ 1 \in 1..Len(wire)
    BY <1>0, <2>1, ReadFrames DEF WireInv
  <2>3. handler'[h] # "none" /\ \A g \in Inbound \ {h} : handler'[g] = handler[g]
    BY <1>0, <2>1, <2>2 DEF TypeOK
  <2>4. QED
    BY <1>0, <2>1, <2>3, TailStep
<1>6. ASSUME UNCHANGED wire PROVE WireInv'
  <2>1. ~ReadRequest
    BY <1>0, <1>6, ReadFrames DEF ReadRequest
  <2>2. \A h \in Inbound : handler'[h] = "none" <=> handler[h] = "none"
    BY <2>1, HandlerKnown
  <2>3. QED
    BY <1>0, <1>6, <2>2 DEF WireInv
<1>7. QED
  BY <1>1, <1>2, <1>3, <1>4, <1>5, <1>6
     DEF Next, vars, Caller, Reader, Close, Register, WriteRequest, WriteReturns,
         WriteFails, Timeout, Receive,
         Abandon, Handler, CallbackReturns, WriteAnswer, RemoveItself, HandlerDies, ReadEof,
         Route, RegisterHandler, Release, ReadError, ReaderDies, BeginClose, CancelHandlers,
         FailWaiters, AbortReader, CloseTransport, CliEnds, Finished

-----------------------------------------------------------------------------
(* The reader *)

LEMMA ReaderStep == IInv /\ [Next]_vars => ReaderInv'
<1> SUFFICES ASSUME IInv, [Next]_vars PROVE ReaderInv'
  OBVIOUS
<1> USE DEF waiters, handlers, cli, history
<1>0. TypeOK /\ WireInv /\ ReaderInv /\ TablesAgree /\ WaiterInv
  BY DEF IInv
<1>1. ASSUME NEW r \in Request, Register(r) \/ Caller(r) \/ Abandon(r) PROVE ReaderInv'
  BY <1>0, <1>1 DEF TypeOK, ReaderInv, Register, Caller, WriteRequest, WriteReturns,
                    WriteFails, Timeout,
                    Receive, GiveUp, Abandon
<1>2. ASSUME NEW h \in Inbound, Handler(h) \/ HandlerDies(h) PROVE ReaderInv'
  BY <1>0, <1>2 DEF TypeOK, ReaderInv, Handler, CallbackReturns, WriteAnswer, RemoveItself,
                    HandlerDies
<1>3. CASE ReadResponse
  <2>1. Head(wire) = wire[1] /\ 1 \in 1..Len(wire)
    BY <1>0, <1>3, ReadFrames DEF ReadResponse
  <2>2. QED
    BY <1>0, <1>3, <2>1 DEF TypeOK, ReaderInv, ReadResponse, WireInv, WaiterInv
<1>4. CASE ReadRequest
  <2>1. Head(wire) = wire[1] /\ 1 \in 1..Len(wire)
    BY <1>0, <1>4, ReadFrames DEF ReadRequest
  <2>2. QED
    BY <1>0, <1>4, <2>1 DEF TypeOK, ReaderInv, ReadRequest, WireInv
<1>5. CASE ReadCancel \/ CancelHandlers
  BY <1>0, <1>5 DEF TypeOK, ReaderInv, ReadCancel, CancelHandlers, Kill
<1>6. CASE Route \/ RegisterHandler \/ Release \/ ReadEof
  BY <1>0, <1>6 DEF TypeOK, ReaderInv, Route, RegisterHandler, Release, ReadEof
<1>7. CASE ReadError \/ ReaderDies \/ FailWaiters
  BY <1>0, <1>7 DEF TypeOK, ReaderInv, ReadError, ReaderDies, FailWaiters, FailPending
<1>8. CASE UNCHANGED <<waiters, handlers, reader, current>>
  BY <1>0, <1>8 DEF ReaderInv
<1>9. QED
  BY <1>1, <1>2, <1>3, <1>4, <1>5, <1>6, <1>7, <1>8
     DEF Next, vars, Reader, Close, CliAnswers, CliRequests, CliCancels, BeginClose,
         AbortReader, CloseTransport, CliEnds, Finished

-----------------------------------------------------------------------------
(* The waiters *)

LEMMA WaiterStep == IInv /\ [Next]_vars => WaiterInv'
<1> SUFFICES ASSUME IInv, [Next]_vars PROVE WaiterInv'
  OBVIOUS
<1> USE DEF waiters, handlers, cli, history
<1>0. TypeOK /\ WireInv /\ ReaderInv /\ TablesAgree /\ WaiterInv
  BY DEF IInv
<1>1. ASSUME NEW r \in Request, Register(r) \/ Caller(r) \/ Abandon(r) PROVE WaiterInv'
  BY <1>0, <1>1 DEF TypeOK, WireInv, WaiterInv, Register, Caller, WriteRequest, WriteReturns,
                    WriteFails,
                    Timeout, Receive, GiveUp, Abandon
<1>2. ASSUME NEW r \in Request, CliAnswers(r) PROVE WaiterInv'
  <2> DEFINE f == [kind |-> "response", id |-> r]
  <2>1. f \in Frame /\ f.id = r
    BY DEF Frame, Kind
  <2>2. wire' = Append(wire, f) /\ req[r] # "idle"
    BY <1>0, <1>2 DEF CliAnswers, Send, WaiterInv
  <2> HIDE DEF f
  <2>3. QED
    BY <1>0, <1>2, <2>1, <2>2, SentFrames DEF WaiterInv, CliAnswers
<1>3. ASSUME NEW h \in Inbound, CliRequests(h) \/ CliCancels(h) PROVE WaiterInv'
  <2>1. PICK k \in {"request", "cancel"} : wire' = Append(wire, [kind |-> k, id |-> h])
    BY <1>3 DEF CliRequests, CliCancels, Send
  <2> DEFINE f == [kind |-> k, id |-> h]
  <2>2. f \in Frame /\ f.kind # "response" /\ wire' = Append(wire, f)
    BY <2>1 DEF Frame, Kind
  <2> HIDE DEF f
  <2>3. QED
    BY <1>0, <1>3, <2>2, SentFrames DEF WaiterInv, CliRequests, CliCancels
<1>4. CASE ReadResponse
  BY <1>0, <1>4, ReadFrames DEF ReadResponse, WaiterInv, WireInv
<1>5. CASE ReadRequest \/ ReadCancel
  BY <1>0, <1>5, ReadFrames DEF ReadRequest, ReadCancel, WaiterInv
<1>6. CASE Route
  BY <1>0, <1>6 DEF TypeOK, ReaderInv, WaiterInv, Route, WireInv
<1>7. CASE ReadError \/ FailWaiters
  BY <1>0, <1>7 DEF TypeOK, TablesAgree, WaiterTable, WaiterInv, WireInv, ReadError,
                    FailWaiters, FailPending
<1>8. CASE BeginClose \/ CancelHandlers \/ AbortReader \/ CloseTransport
  BY <1>0, <1>8 DEF TypeOK, WaiterInv, BeginClose, CancelHandlers, AbortReader, CloseTransport
<1>9. CASE UNCHANGED <<waiters, wire, asked, dropped, closing>>
  BY <1>0, <1>9 DEF WaiterInv
<1>10. QED
  BY <1>1, <1>2, <1>3, <1>4, <1>5, <1>6, <1>7, <1>8, <1>9
     DEF Next, vars, Reader, Close, Handler, CallbackReturns, WriteAnswer, RemoveItself,
         HandlerDies, ReadEof, RegisterHandler, Release, ReaderDies, CliEnds, Finished

LEMMA TableStep == IInv /\ [Next]_vars => WaiterTable' /\ NoAnswerLost'
<1> SUFFICES ASSUME IInv, [Next]_vars PROVE WaiterTable' /\ NoAnswerLost'
  OBVIOUS
<1> USE DEF waiters, handlers, cli, history
<1>0. TypeOK /\ ReaderInv /\ WaiterInv /\ WaiterTable /\ NoAnswerLost
  BY DEF IInv, TablesAgree
<1>1. ASSUME NEW r \in Request, Register(r) \/ Caller(r) \/ Abandon(r)
      PROVE  WaiterTable' /\ NoAnswerLost'
  BY <1>0, <1>1 DEF TypeOK, ReaderInv, WaiterInv, WaiterTable, NoAnswerLost, None, Register,
                    Caller, WriteRequest, WriteReturns,
                    WriteFails, Timeout, Receive, GiveUp, Abandon
<1>2. CASE ReadResponse
  <2>1. /\ wire # <<>> /\ Head(wire) = wire[1] /\ wire[1] \in Frame /\ 1 \in 1..Len(wire)
        /\ wire[1].kind = "response"
    BY <1>0, <1>2, ReadFrames DEF ReadResponse
  <2> DEFINE r == wire[1].id
  <2>2. r \in Request /\ req[r] # "idle" /\ Head(wire) = [kind |-> "response", id |-> r]
    BY <1>0, <2>1 DEF IInv, WireInv, WaiterInv, Frame
  <2>3. current = None
    BY <1>0, <1>2 DEF ReadResponse, ReaderInv
  <2> HIDE DEF r
  <2>4. Head(wire).id = r
    BY <2>2
  <2>5. CASE r \in pending
    BY <1>0, <1>2, <2>2, <2>3, <2>4, <2>5
       DEF TypeOK, WaiterTable, NoAnswerLost, None, ReadResponse
  <2>6. CASE r \notin pending
    <3>1. current # [kind |-> "response", id |-> r]
      BY <2>3 DEF None
    <3>2. req[r] \in {"done", "abandoned"} \/ mailbox[r] # "none"
      BY <1>0, <2>2, <2>6, <3>1 DEF TypeOK, WaiterTable
    <3>3. UNCHANGED <<waiters, current>> /\ dropped' = dropped \union {r}
      BY <1>2, <2>4, <2>6 DEF ReadResponse
    <3>4. QED
      BY <1>0, <3>2, <3>3 DEF WaiterTable, NoAnswerLost
  <2>7. QED
    BY <2>5, <2>6
<1>3. CASE Route
  BY <1>0, <1>3 DEF TypeOK, ReaderInv, WaiterTable, NoAnswerLost, Route
<1>4. CASE ReadError \/ FailWaiters
  BY <1>0, <1>4 DEF TypeOK, ReaderInv, WaiterTable, NoAnswerLost, ReadError, FailWaiters,
                    FailPending
<1>5. CASE ReadRequest \/ RegisterHandler \/ Release \/ ReadCancel \/ ReadEof \/ ReaderDies
  BY <1>0, <1>5 DEF TypeOK, ReaderInv, WaiterTable, NoAnswerLost, None, ReadRequest,
                    RegisterHandler, Release, ReadCancel, ReadEof, ReaderDies
<1>6. CASE UNCHANGED <<waiters, current, dropped>>
  BY <1>0, <1>6 DEF WaiterTable, NoAnswerLost
<1>7. QED
  BY <1>1, <1>2, <1>3, <1>4, <1>5, <1>6
     DEF Next, vars, Reader, Close, CliAnswers, CliRequests, CliCancels, Handler,
         CallbackReturns, WriteAnswer, RemoveItself, HandlerDies, BeginClose, CancelHandlers,
         AbortReader, CloseTransport, CliEnds, Finished

-----------------------------------------------------------------------------
(* The handlers *)

LEMMA HandlerStep == IInv /\ [Next]_vars => HandlerTable'
<1> SUFFICES ASSUME IInv, [Next]_vars PROVE HandlerTable'
  OBVIOUS
<1> USE DEF waiters, handlers, cli, history
<1>0. TypeOK /\ WireInv /\ ReaderInv /\ HandlerTable
  BY DEF IInv, TablesAgree
<1>1. ASSUME NEW h \in Inbound, Handler(h) \/ HandlerDies(h) PROVE HandlerTable'
  BY <1>0, <1>1 DEF TypeOK, HandlerTable, Handler, CallbackReturns, WriteAnswer,
                    RemoveItself, HandlerDies
<1>2. CASE ReadRequest
  <2>1. Head(wire).id \in Inbound
    BY <1>0, <1>2, ReadFrames DEF ReadRequest, WireInv
  <2>2. QED
    BY <1>0, <1>2, <2>1 DEF TypeOK, HandlerTable, ReadRequest
<1>3. CASE RegisterHandler \/ Release \/ ReaderDies
  BY <1>0, <1>3 DEF TypeOK, ReaderInv, HandlerTable, RegisterHandler, Release, ReaderDies
<1>4. CASE ReadCancel \/ CancelHandlers
  BY <1>0, <1>4 DEF TypeOK, HandlerTable, ReadCancel, CancelHandlers, Kill
<1>5. CASE ReadResponse \/ Route \/ ReadEof \/ ReadError
  BY <1>0, <1>5 DEF TypeOK, HandlerTable, ReadResponse, Route, ReadEof, ReadError
<1>6. CASE UNCHANGED <<handlers, reader>>
  BY <1>0, <1>6 DEF HandlerTable
<1>7. QED
  BY <1>1, <1>2, <1>3, <1>4, <1>5, <1>6
     DEF Next, vars, Reader, Close, Register, Caller, WriteRequest, WriteReturns,
         WriteFails, Timeout, Receive,
         Abandon, CliAnswers, CliRequests, CliCancels, BeginClose, FailWaiters, AbortReader,
         CloseTransport, CliEnds, Finished

-----------------------------------------------------------------------------
(* One thread *)

\* Past its gate a handler is aborted, or a cancel finds it.
LEMMA CancelFinds ==
    ASSUME IInv, OneThread, NEW h \in Inbound, reader \notin {"aborted", "spawned", "registered"}
    PROVE  handler[h] \in {"none", "done", "aborted"} \/ h \in inflight
BY DEF IInv, TypeOK, TablesAgree, HandlerTable, OneThreadInv

LEMMA OneThreadStep == IInv /\ [Next]_vars => OneThreadInv'
<1> SUFFICES ASSUME IInv, [Next]_vars, OneThread PROVE OneThreadInv'
  BY DEF OneThreadInv, OneThread, Next, vars, Caller, Reader, Close, Handler, Register,
         WriteRequest, WriteReturns,
                    WriteFails, Timeout, Receive, Abandon, CliAnswers, CliRequests,
         CliCancels, CallbackReturns, WriteAnswer, RemoveItself, HandlerDies, ReadResponse,
         ReadRequest, ReadCancel, ReadEof, Route, RegisterHandler, Release, ReadError,
         ReaderDies, BeginClose, CancelHandlers, FailWaiters, AbortReader, CloseTransport,
         CliEnds, Finished
<1> USE DEF waiters, handlers, cli, history
<1>0. TypeOK /\ WireInv /\ ReaderInv /\ HandlerTable /\ OneThreadInv
  BY DEF IInv, TablesAgree
<1>1. ASSUME NEW h \in Inbound, Handler(h) PROVE OneThreadInv'
  <2>1. reader \notin {"spawned", "registered", "routing"} /\ closing \notin {"failing", "aborting"}
    BY <1>1 DEF Handler, CallbackReturns, WriteAnswer, RemoveItself, Runs, MidPoll
  <2>2. QED
    BY <1>0, <1>1, <2>1 DEF TypeOK, OneThreadInv, OneThread, Handler, CallbackReturns,
                            WriteAnswer, RemoveItself, HandlerAlive
<1>2. ASSUME NEW h \in Inbound, HandlerDies(h) PROVE OneThreadInv'
  BY <1>0, <1>2 DEF TypeOK, OneThreadInv, OneThread, HandlerDies
<1>3. CASE ReadRequest
  <2>1. /\ Head(wire) = wire[1] /\ wire[1].id \in Inbound /\ handler[wire[1].id] = "none"
    BY <1>0, <1>3, ReadFrames DEF ReadRequest, WireInv
  <2>2. closing = "open"
    BY <1>0, <1>3 DEF ReadRequest, ReaderAlive, Runs, MidPoll, TypeOK
  <2>3. QED
    BY <1>0, <1>3, <2>1, <2>2 DEF TypeOK, OneThreadInv, OneThread, ReadRequest
<1>4. CASE ReadCancel
  <2> DEFINE h == wire[1].id
  <2>1. /\ Head(wire) = wire[1] /\ h \in Inbound /\ handler[h] # "none"
    BY <1>0, <1>4, ReadFrames DEF ReadCancel, WireInv
  <2>2. handler[h] \in {"done", "aborted"} \/ h \in inflight
    BY <1>4, <2>1, CancelFinds DEF ReadCancel
  <2> HIDE DEF h
  <2>3. /\ killed' = killed \union (inflight \intersect {h})
        /\ handler' = [g \in Inbound |-> IF g \in inflight \intersect {h} THEN "aborted"
                                         ELSE handler[g]]
        /\ cancelled' = cancelled \union {h} /\ UNCHANGED <<reader, current, closing, scheduler>>
    BY <1>4, <2>1 DEF ReadCancel, Kill, h
  <2>4. QED
    BY <1>0, <2>1, <2>2, <2>3 DEF TypeOK, OneThreadInv, OneThread
<1>5. CASE RegisterHandler \/ Release \/ Route
  BY <1>0, <1>5 DEF TypeOK, ReaderInv, OneThreadInv, OneThread, RegisterHandler, Release, Route
<1>6. CASE ReadResponse
  <2>1. closing \notin {"failing", "aborting", "cancelling", "flushing", "closed"}
    BY <1>0, <1>6 DEF ReadResponse, ReaderAlive, Runs, MidPoll
  <2>2. QED
    BY <1>0, <1>6, <2>1 DEF TypeOK, OneThreadInv, OneThread, ReadResponse
<1>7. CASE ReadEof \/ ReadError \/ ReaderDies
  BY <1>0, <1>7 DEF TypeOK, OneThreadInv, OneThread, ReadEof, ReadError, ReaderDies
<1>8. CASE BeginClose
  <2>1. reader \notin {"spawned", "registered", "routing"}
    BY <1>8 DEF BeginClose, Runs, MidPoll
  <2>2. QED
    BY <1>0, <1>8, <2>1 DEF TypeOK, OneThreadInv, OneThread, BeginClose
<1>9. CASE CancelHandlers
  <2>1. reader \notin {"spawned", "registered", "routing", "aborted"}
    BY <1>0, <1>9 DEF CancelHandlers, OneThreadInv
  <2>2. \A h \in Inbound : handler[h] \in {"none", "done", "aborted"} \/ h \in inflight
    BY <2>1, CancelFinds
  <2>3. /\ killed' = killed \union inflight
        /\ handler' = [h \in Inbound |-> IF h \in inflight THEN "aborted" ELSE handler[h]]
        /\ closing' = "failing" /\ UNCHANGED <<reader, current, cancelled, scheduler>>
    BY <1>9 DEF CancelHandlers, Kill
  <2>4. QED
    BY <1>0, <2>1, <2>2, <2>3 DEF TypeOK, OneThreadInv, OneThread
<1>10. CASE FailWaiters \/ AbortReader \/ CloseTransport
  BY <1>0, <1>10 DEF TypeOK, OneThreadInv, OneThread, FailWaiters, AbortReader, CloseTransport
<1>11. CASE UNCHANGED <<scheduler, handler, killed, reader, current, closing, cancelled>>
  BY <1>0, <1>11 DEF OneThreadInv, OneThread
<1>12. QED
  BY <1>1, <1>2, <1>3, <1>4, <1>5, <1>6, <1>7, <1>8, <1>9, <1>10, <1>11
     DEF Next, vars, Reader, Close, Register, Caller, WriteRequest, WriteReturns,
         WriteFails, Timeout, Receive,
         Abandon, CliAnswers, CliRequests, CliCancels, CliEnds, Finished

-----------------------------------------------------------------------------
(* Theorems *)

LEMMA Invariance == Spec => []IInv
<1>1. IInv /\ [Next]_vars => IInv'
  BY TypeStep, WireStep, ReaderStep, WaiterStep, TableStep, HandlerStep, OneThreadStep
     DEF IInv, TablesAgree
<1>2. QED
  BY InitIInv, <1>1, PTL DEF Spec

\* Both tables of ControlState are exact in every state: whoever answers, fails or
\* cancels finds everybody who is there, and nobody who has gone
\* (send_control_request, spawn_control_handler).
THEOREM TablesExact == Spec => []TablesAgree
<1>1. IInv => TablesAgree
  BY DEF IInv
<1>2. QED
  BY <1>1, Invariance, PTL

\* The reader throws a response away only if nobody waits for it any more
\* (route_control_response).
THEOREM AnswersArrive == Spec => []NoAnswerLost
<1>1. IInv => NoAnswerLost
  BY DEF IInv
<1>2. QED
  BY <1>1, Invariance, PTL

\* Behind Runtime::close no caller that came before it waits, and on one thread no
\* handler is left.
THEOREM NobodyLeftBehind == Spec => []CloseSettles
<1>1. IInv => CloseFailsWaiters
  BY DEF IInv, WaiterInv, TablesAgree, WaiterTable, CloseFailsWaiters
<1>2. IInv => CloseStopsHandlers
  BY DEF IInv, OneThreadInv, CloseStopsHandlers
<1>3. IInv => CloseSettles
  BY <1>1, <1>2 DEF CloseSettles
<1>4. QED
  BY <1>3, Invariance, PTL

\* On one thread no answer follows a cancel the reader has read
\* (control_cancel_request).
THEOREM SilentAfterCancel == Spec => CancelSilences
<1>1. ASSUME IInv, [Next]_vars, NEW h \in Inbound, OneThread, h \in cancelled, h \notin answered
      PROVE  h \notin answered'
  <2>1. handler[h] # "writing"
    BY <1>1 DEF IInv, OneThreadInv
  <2>2. QED
    BY <1>1, <2>1
       DEF Next, vars, waiters, handlers, cli, history, Caller, Reader, Close, Handler,
           Register, WriteRequest, WriteReturns,
                    WriteFails, Timeout, Receive, Abandon, CliAnswers,
           CliRequests, CliCancels, CallbackReturns, WriteAnswer, RemoveItself, HandlerDies,
           ReadResponse, ReadRequest, ReadCancel, ReadEof, Route, RegisterHandler, Release,
           ReadError, ReaderDies, BeginClose, CancelHandlers, FailWaiters, AbortReader,
           CloseTransport, CliEnds, Finished
<1>2. IInv /\ [Next]_vars
        => [\A h \in Inbound : OneThread /\ h \in cancelled /\ h \notin answered
              => h \notin answered']_vars
  BY <1>1
<1>3. QED
  BY <1>2, Invariance, PTL DEF Spec, CancelSilences
=============================================================================
