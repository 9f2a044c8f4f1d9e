--------------------------- MODULE ControlProtocol ---------------------------
(***************************************************************************)
(* The control protocol of a session (agent_runtime.rs).                   *)
(*                                                                         *)
(* Outbound: a caller registers a waiter, writes its request, and waits    *)
(* for the reader to route the response, with a timeout.  Inbound: the     *)
(* reader spawns a handler task for each request of the CLI, registers it  *)
(* so that a cancel finds it, and lets it go on; the handler calls back    *)
(* into the application, writes its answer and removes itself.             *)
(* Runtime::close cancels the handlers, fails the waiters, aborts the      *)
(* reader and closes the transport.                                        *)
(*                                                                         *)
(* Every step here ends at an await or releases a lock.  On a              *)
(* current-thread runtime a task whose next lock is free goes on: nobody   *)
(* steps in between (MidPoll).  The transport and the CLI are external.    *)
(***************************************************************************)
EXTENDS Naturals, Sequences, FiniteSets

CONSTANTS
    Request,       \* the ids of outbound control requests
    Inbound,       \* the ids of the CLI's control requests, each used once
    MaxWire,       \* bound on the frames the CLI wrote that are not read: its pipe is full
    Schedulers     \* the flavours of Tokio runtime considered

ASSUME ControlAssumption ==
    /\ MaxWire \in Nat \ {0}
    /\ Request \intersect Inbound = {}
    /\ Schedulers \subseteq {"current_thread", "multi_thread"}

VARIABLES
    scheduler,
    req,           \* where the caller of an outbound request is
    pending,       \* ControlState.pending
    mailbox,       \* what the oneshot of a request holds
    outcome,       \* what send_control_request returned
    reader,        \* the reader task
    current,       \* the frame it is in the middle of
    handler,       \* the handler tasks
    inflight,      \* ControlState.inflight
    killed,        \* the handlers aborted
    closing,       \* Runtime::close
    wire,          \* frames the CLI sent and the reader has not read
    asked,         \* requests the CLI got and has not answered
    eof,           \* the CLI's output has ended
    answered,      \* the inbound requests answered
    cancelled,     \* history: inbound requests whose cancel the reader read
    dropped,       \* history: responses that found no waiter
    late           \* history: requests registered after close failed the waiters

waiters == <<req, pending, mailbox, outcome, late>>
handlers == <<handler, inflight, killed>>
cli == <<wire, asked, eof>>
history == <<answered, cancelled, dropped>>
vars == <<scheduler, waiters, reader, current, handlers, closing, cli, history>>

Kind == {"response", "request", "cancel"}
None == [kind |-> "none", id |-> "none"]

Init ==
    /\ scheduler \in Schedulers
    /\ req = [r \in Request |-> "idle"]
    /\ pending = {}
    /\ mailbox = [r \in Request |-> "none"]
    /\ outcome = [r \in Request |-> "none"]
    /\ reader = "reading" /\ current = None
    /\ handler = [h \in Inbound |-> "none"]
    /\ inflight = {} /\ killed = {}
    /\ closing = "open"
    /\ wire = <<>> /\ asked = {} /\ eof = FALSE
    /\ answered = {} /\ cancelled = {} /\ dropped = {} /\ late = {}

-----------------------------------------------------------------------------
(* Helpers *)

OneThread == scheduler = "current_thread"

\* The task in the middle of a poll on a current-thread runtime.
MidPoll ==
    IF reader \in {"spawned", "registered", "routing"} THEN "reader"
    ELSE IF closing \in {"cancelling", "failing", "aborting"} THEN "close"
    ELSE "none"
Runs(task) == OneThread => MidPoll \in {"none", task}

\* An aborted task of another thread goes on until it suspends.
ReaderAlive == closing \in {"flushing", "closed"} => ~OneThread
HandlerAlive(h) == h \in killed => ~OneThread

TransportOpen == closing # "closed"

-----------------------------------------------------------------------------
(* Outbound requests: send_control_request *)

\* MUTANT: the waiter is registered when the request is out.
RegisterNothing(r) ==
    /\ req[r] = "idle" /\ Runs("caller")
    /\ req' = [req EXCEPT ![r] = "registered"]
    /\ UNCHANGED <<scheduler, pending, mailbox, outcome, late, reader, current, handlers,
                   closing, cli, history>>

Register(r) ==
    /\ req[r] = "idle" /\ Runs("caller")
    /\ req' = [req EXCEPT ![r] = "registered"]
    /\ pending' = pending \union {r}
    /\ late' = IF closing \in {"aborting", "flushing", "closed"} THEN late \union {r} ELSE late
    /\ UNCHANGED <<scheduler, mailbox, outcome, reader, current, handlers, closing, cli,
                   history>>

\* The CLI has the frame, and may answer before the write returns.
WriteRequest(r) ==
    /\ req[r] = "registered" /\ TransportOpen /\ Runs("caller")
    /\ req' = [req EXCEPT ![r] = "written"]
    /\ asked' = asked \union {r}
    /\ UNCHANGED <<scheduler, pending, mailbox, outcome, late, reader, current, handlers,
                   closing, wire, eof, history>>

WriteReturns(r) ==
    /\ req[r] = "written" /\ Runs("caller")
    /\ req' = [req EXCEPT ![r] = "waiting"]
    /\ UNCHANGED <<scheduler, pending, mailbox, outcome, late, reader, current, handlers,
                   closing, cli, history>>

\* The caller returns, and takes its waiter back unless it was answered.
GiveUp(r, o) ==
    /\ req' = [req EXCEPT ![r] = "done"]
    /\ outcome' = [outcome EXCEPT ![r] = o]
    /\ pending' = pending \ {r}

\* The write fails, perhaps after the CLI got the frame.
WriteFails(r) ==
    /\ req[r] \in {"registered", "written"} /\ Runs("caller")
    /\ GiveUp(r, "write_error")
    /\ UNCHANGED <<scheduler, mailbox, late, reader, current, handlers, closing, cli, history>>

\* MUTANT: the waiter of a request that timed out stays in the table.
TimeoutLeaks(r) ==
    /\ req[r] = "waiting" /\ mailbox[r] = "none" /\ Runs("caller")
    /\ req' = [req EXCEPT ![r] = "done"]
    /\ outcome' = [outcome EXCEPT ![r] = "timeout"]
    /\ UNCHANGED <<scheduler, pending, mailbox, late, reader, current, handlers, closing, cli,
                   history>>

\* The timeout; a response that is there already wins.
Timeout(r) ==
    /\ req[r] = "waiting" /\ mailbox[r] = "none" /\ Runs("caller")
    /\ GiveUp(r, "timeout")
    /\ UNCHANGED <<scheduler, mailbox, late, reader, current, handlers, closing, cli, history>>

Receive(r) ==
    /\ req[r] = "waiting" /\ mailbox[r] # "none" /\ Runs("caller")
    /\ GiveUp(r, mailbox[r])
    /\ UNCHANGED <<scheduler, mailbox, late, reader, current, handlers, closing, cli, history>>

\* The application drops the future of the call: its waiter stays.
Abandon(r) ==
    /\ req[r] \in {"registered", "written", "waiting"} /\ Runs("caller")
    /\ req' = [req EXCEPT ![r] = "abandoned"]
    /\ UNCHANGED <<scheduler, pending, mailbox, outcome, late, reader, current, handlers,
                   closing, cli, history>>

\* Everybody in the table gets an error.
FailPending(e) ==
    /\ mailbox' = [r \in Request |-> IF r \in pending THEN e ELSE mailbox[r]]
    /\ pending' = {}

-----------------------------------------------------------------------------
(* The reader task, as far as control frames go *)

ReadResponse ==
    /\ reader = "reading" /\ wire # <<>> /\ Head(wire).kind = "response"
    /\ ReaderAlive /\ Runs("reader")
    /\ LET r == Head(wire).id
       IN  IF r \in pending
             THEN /\ pending' = pending \ {r}
                  /\ reader' = "routing" /\ current' = Head(wire)
                  /\ UNCHANGED dropped
             ELSE /\ dropped' = dropped \union {r}
                  /\ UNCHANGED <<pending, reader, current>>
    /\ wire' = Tail(wire)
    /\ UNCHANGED <<scheduler, req, mailbox, outcome, late, handlers, closing, asked, eof,
                   answered, cancelled>>

\* route_control_response: the waiter is out of the table; resolve it.
Route ==
    /\ reader = "routing"
    /\ mailbox' = [mailbox EXCEPT ![current.id] = "ok"]
    /\ reader' = "reading" /\ current' = None
    /\ UNCHANGED <<scheduler, req, pending, outcome, late, handlers, closing, cli, history>>

\* spawn_control_handler: spawn, register, release.
ReadRequest ==
    /\ reader = "reading" /\ wire # <<>> /\ Head(wire).kind = "request"
    /\ ReaderAlive /\ Runs("reader")
    /\ reader' = "spawned" /\ current' = Head(wire)
    /\ handler' = [handler EXCEPT ![Head(wire).id] = "gated"]
    /\ wire' = Tail(wire)
    /\ UNCHANGED <<scheduler, waiters, inflight, killed, closing, asked, eof, history>>

RegisterHandler ==
    /\ reader = "spawned" /\ ReaderAlive
    /\ inflight' = inflight \union {current.id}
    /\ reader' = "registered"
    /\ UNCHANGED <<scheduler, waiters, current, handler, killed, closing, cli, history>>

\* MUTANT: the gate stays shut.
ReleaseNothing ==
    /\ reader = "registered"
    /\ reader' = "reading" /\ current' = None
    /\ UNCHANGED <<scheduler, waiters, handlers, closing, cli, history>>

\* No await since the registration: an abort does not come in between.
Release ==
    /\ reader = "registered"
    /\ handler' = [handler EXCEPT ![current.id] = IF @ = "gated" THEN "running" ELSE @]
    /\ reader' = "reading" /\ current' = None
    /\ UNCHANGED <<scheduler, waiters, inflight, killed, closing, cli, history>>

\* An aborted handler is never polled again, unless another thread polls it.
Kill(hs) ==
    /\ killed' = killed \union hs
    /\ handler' = [h \in Inbound |->
                     IF h \in hs /\ OneThread THEN "aborted" ELSE handler[h]]

\* MUTANT: a cancel forgets the handler and lets it run.
ReadCancelForgets ==
    /\ reader = "reading" /\ wire # <<>> /\ Head(wire).kind = "cancel"
    /\ ReaderAlive /\ Runs("reader")
    /\ inflight' = inflight \ {Head(wire).id}
    /\ cancelled' = cancelled \union {Head(wire).id}
    /\ wire' = Tail(wire)
    /\ UNCHANGED <<scheduler, waiters, reader, current, handler, killed, closing, asked, eof,
                   answered, dropped>>

\* control_cancel_request: abort the handler, if it is there.
ReadCancel ==
    /\ reader = "reading" /\ wire # <<>> /\ Head(wire).kind = "cancel"
    /\ ReaderAlive /\ Runs("reader")
    /\ inflight' = inflight \ {Head(wire).id}
    /\ Kill(inflight \intersect {Head(wire).id})
    /\ cancelled' = cancelled \union {Head(wire).id}
    /\ wire' = Tail(wire)
    /\ UNCHANGED <<scheduler, waiters, reader, current, closing, asked, eof, answered, dropped>>

\* The end of the stream: the reader fails nobody.
ReadEof ==
    /\ reader = "reading" /\ eof /\ wire = <<>>
    /\ ReaderAlive /\ Runs("reader")
    /\ reader' = "ended"
    /\ UNCHANGED <<scheduler, waiters, current, handlers, closing, cli, history>>

\* fail_read_error: the transport fails.
ReadError ==
    /\ reader = "reading" /\ ReaderAlive /\ Runs("reader")
    /\ FailPending("failed")
    /\ reader' = "ended"
    /\ UNCHANGED <<scheduler, req, outcome, late, current, handlers, closing, cli, history>>

\* The aborted reader is dropped, and with it a gate it has not released: the
\* handler behind it goes on.
ReaderDies ==
    /\ closing \in {"flushing", "closed"}
    /\ reader \notin {"ended", "aborted", "routing", "registered"}
    /\ reader' = "aborted" /\ current' = None
    /\ handler' = [h \in Inbound |-> IF handler[h] = "gated" THEN "running" ELSE handler[h]]
    /\ UNCHANGED <<scheduler, waiters, inflight, killed, closing, cli, history>>

-----------------------------------------------------------------------------
(* A handler task *)

\* The callback returns.
CallbackReturns(h) ==
    /\ handler[h] = "running" /\ HandlerAlive(h) /\ Runs("handler")
    /\ handler' = [handler EXCEPT ![h] = "writing"]
    /\ UNCHANGED <<scheduler, waiters, reader, current, inflight, killed, closing, cli, history>>

\* The answer is written, or the transport refuses it.
WriteAnswer(h) ==
    /\ handler[h] = "writing" /\ HandlerAlive(h) /\ Runs("handler")
    /\ handler' = [handler EXCEPT ![h] = "removing"]
    /\ answered' = IF TransportOpen THEN answered \union {h} ELSE answered
    /\ UNCHANGED <<scheduler, waiters, reader, current, inflight, killed, closing, cli,
                   cancelled, dropped>>

RemoveItself(h) ==
    /\ handler[h] = "removing" /\ HandlerAlive(h) /\ Runs("handler")
    /\ handler' = [handler EXCEPT ![h] = "done"]
    /\ inflight' = inflight \ {h}
    /\ UNCHANGED <<scheduler, waiters, reader, current, killed, closing, cli, history>>

HandlerDies(h) ==
    /\ h \in killed /\ handler[h] \in {"gated", "running", "writing", "removing"}
    /\ handler' = [handler EXCEPT ![h] = "aborted"]
    /\ UNCHANGED <<scheduler, waiters, reader, current, inflight, killed, closing, cli, history>>

-----------------------------------------------------------------------------
(* Runtime::close *)

BeginClose ==
    /\ closing = "open" /\ Runs("close")
    /\ closing' = "cancelling"
    /\ UNCHANGED <<scheduler, waiters, reader, current, handlers, cli, history>>

CancelHandlers ==
    /\ closing = "cancelling"
    /\ closing' = "failing"
    /\ inflight' = {}
    /\ Kill(inflight)
    /\ UNCHANGED <<scheduler, waiters, reader, current, cli, history>>

\* MUTANT: close leaves the waiters to their timeouts.
FailNobody ==
    /\ closing = "failing"
    /\ closing' = "aborting"
    /\ UNCHANGED <<scheduler, waiters, reader, current, handlers, cli, history>>

FailWaiters ==
    /\ closing = "failing"
    /\ closing' = "aborting"
    /\ FailPending("closed")
    /\ UNCHANGED <<scheduler, req, outcome, late, reader, current, handlers, cli, history>>

\* The abort of the reader, then the final flush of the mirror, which suspends.
AbortReader ==
    /\ closing = "aborting"
    /\ closing' = "flushing"
    /\ UNCHANGED <<scheduler, waiters, reader, current, handlers, cli, history>>

CloseTransport ==
    /\ closing = "flushing" /\ Runs("close")
    /\ closing' = "closed"
    /\ UNCHANGED <<scheduler, waiters, reader, current, handlers, cli, history>>

-----------------------------------------------------------------------------
(* The CLI *)

Send(frame) ==
    /\ ~eof /\ TransportOpen /\ Runs("cli") /\ Len(wire) < MaxWire
    /\ wire' = Append(wire, frame)

CliAnswers(r) ==
    /\ r \in asked
    /\ Send([kind |-> "response", id |-> r])
    /\ asked' = asked \ {r}
    /\ UNCHANGED <<scheduler, waiters, reader, current, handlers, closing, eof, history>>

CliRequests(h) ==
    /\ handler[h] = "none" /\ \A i \in 1..Len(wire) : wire[i].id # h
    /\ Send([kind |-> "request", id |-> h])
    /\ UNCHANGED <<scheduler, waiters, reader, current, handlers, closing, asked, eof, history>>

\* Once per request, and perhaps when the answer is already on its way.
CliCancels(h) ==
    /\ \/ handler[h] # "none"
       \/ \E i \in 1..Len(wire) : wire[i].id = h
    /\ h \notin cancelled
    /\ \A i \in 1..Len(wire) : wire[i] # [kind |-> "cancel", id |-> h]
    /\ Send([kind |-> "cancel", id |-> h])
    /\ UNCHANGED <<scheduler, waiters, reader, current, handlers, closing, asked, eof, history>>

CliEnds ==
    /\ ~eof
    /\ eof' = TRUE
    /\ UNCHANGED <<scheduler, waiters, reader, current, handlers, closing, wire, asked, history>>

-----------------------------------------------------------------------------
(* Specification *)

Caller(r) == WriteRequest(r) \/ WriteReturns(r) \/ WriteFails(r) \/ Timeout(r) \/ Receive(r)
Handler(h) == CallbackReturns(h) \/ WriteAnswer(h) \/ RemoveItself(h)
Close == CancelHandlers \/ FailWaiters \/ AbortReader \/ CloseTransport
Reader == ReadResponse \/ ReadRequest \/ ReadCancel \/ ReadEof

\* Everything is over.
Finished ==
    /\ closing = "closed" /\ reader \in {"ended", "aborted"}
    /\ \A h \in Inbound : handler[h] \in {"none", "done", "aborted"}
    /\ \A r \in Request : req[r] \in {"done", "abandoned"}
    /\ UNCHANGED vars

Next ==
    \/ \E r \in Request : Register(r) \/ Caller(r) \/ Abandon(r) \/ CliAnswers(r)
    \/ \E h \in Inbound : Handler(h) \/ HandlerDies(h) \/ CliRequests(h) \/ CliCancels(h)
    \/ Reader \/ Route \/ RegisterHandler \/ Release \/ ReadError \/ ReaderDies
    \/ BeginClose \/ Close \/ CliEnds
    \/ Finished

\* Tasks that can go on do, callbacks return, and timeouts elapse.  The reader
\* may be held up for ever by a consumer that does not receive, but finishes
\* what it does without waiting.
Fairness ==
    /\ \A r \in Request : WF_vars(Caller(r))
    /\ \A h \in Inbound : WF_vars(Handler(h)) /\ WF_vars(HandlerDies(h))
    /\ WF_vars(Route) /\ WF_vars(RegisterHandler) /\ WF_vars(Release)
    /\ WF_vars(ReaderDies) /\ WF_vars(Close)

Spec == Init /\ [][Next]_vars /\ Fairness

-----------------------------------------------------------------------------
(* Properties *)

TypeOK ==
    /\ scheduler \in Schedulers
    /\ req \in [Request -> {"idle", "registered", "written", "waiting", "done", "abandoned"}]
    /\ pending \subseteq Request
    /\ mailbox \in [Request -> {"none", "ok", "closed", "failed"}]
    /\ outcome \in [Request -> {"none", "ok", "closed", "failed", "timeout", "write_error"}]
    /\ \A r \in Request : req[r] = "done" => outcome[r] # "none"
    /\ reader \in {"reading", "routing", "spawned", "registered", "ended", "aborted"}
    /\ current \in [kind : Kind, id : Request \union Inbound] \union {None}
    /\ handler \in [Inbound -> {"none", "gated", "running", "writing", "removing", "done",
                                "aborted"}]
    /\ inflight \subseteq Inbound /\ killed \subseteq Inbound
    /\ closing \in {"open", "cancelling", "failing", "aborting", "flushing", "closed"}
    /\ wire \in Seq([kind : Kind, id : Request \union Inbound])
    /\ asked \subseteq Request /\ eof \in BOOLEAN
    /\ answered \subseteq Inbound /\ cancelled \subseteq Inbound
    /\ dropped \subseteq Request /\ late \subseteq Request

\* The table of waiters is exact: a caller that still waits for an answer is in
\* it, or in the hands of the reader, so whoever answers or fails the waiters
\* finds it; and one that returned has left it.
WaiterTable ==
    \A r \in Request :
        /\ req[r] \in {"registered", "written", "waiting"} /\ mailbox[r] = "none"
             => r \in pending \/ current = [kind |-> "response", id |-> r]
        /\ r \in pending => req[r] \in {"registered", "written", "waiting", "abandoned"}
                              /\ mailbox[r] = "none"

\* A response is thrown away only when its caller gave up before, or was failed.
NoAnswerLost == \A r \in dropped : req[r] \in {"done", "abandoned"} \/ mailbox[r] # "none"

\* A caller that registered before Runtime::close failed the waiters does not
\* sit out its timeout.
CloseFailsWaiters ==
    \A r \in Request :
        closing \in {"flushing", "closed"} /\ req[r] \in {"registered", "written", "waiting"}
          /\ r \notin late
          => mailbox[r] # "none" \/ current = [kind |-> "response", id |-> r]

\* Handlers and their handles agree: past the gate a handler that was not
\* aborted can be cancelled, and no handle outlives its handler.
HandlerTable ==
    \A h \in Inbound :
        /\ handler[h] \in {"running", "writing", "removing"} /\ reader # "aborted"
             => h \in inflight \union killed
        /\ h \in inflight => handler[h] \notin {"none", "done"}

\* On a current-thread runtime the CLI gets no answer to a request after its
\* cancel was read: it has abandoned it and expects none.
CancelSilences ==
    [][\A h \in Inbound : OneThread /\ h \in cancelled /\ h \notin answered
         => h \notin answered']_vars

\* On a current-thread runtime no handler is left when Runtime::close is done.
CloseStopsHandlers ==
    OneThread /\ closing = "closed"
      => \A h \in Inbound : handler[h] \in {"none", "done", "aborted"}

\* Every handler that was spawned answers, unless it was cancelled or the
\* session is closed: registration and release never wedge it.
HandlersAnswer ==
    \A h \in Inbound :
        handler[h] = "gated" ~> (h \in answered \/ h \in killed \/ closing # "open")

\* Both tables of ControlState tell who is there, at any time.
TablesAgree == WaiterTable /\ HandlerTable

\* Runtime::close leaves nobody behind: no caller that waits, no handler that runs.
CloseSettles == CloseFailsWaiters /\ CloseStopsHandlers
=============================================================================
