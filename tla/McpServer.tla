------------------------------ MODULE McpServer ------------------------------
(***************************************************************************)
(* An in-process MCP server (agent.rs SdkMcpServer::handle).               *)
(*                                                                         *)
(* Every inbound message is handled in a task of its own, which the CLI    *)
(* may also abort with a control-level cancel.  Calls of tools that run    *)
(* are registered under their JSON-RPC id, with a generation that tells    *)
(* two calls of one id apart, and a trigger that cancels.  The number of   *)
(* its message serves as the generation of a call.                         *)
(***************************************************************************)
EXTENDS Naturals, Sequences, SequencesExt

CONSTANTS
    Ids,            \* JSON-RPC ids
    Tools,          \* names of the server's tools
    Message,        \* what may come in
    Outcome,        \* what a tool may return: a sequence of Content, or "error"
    MaxMessages     \* bound on the number of messages

NoId == "no id"
NoTool == "no tool"
Methods == {"initialize", "notifications/initialized", "notifications/cancelled", "ping",
            "tools/list", "tools/call", "unknown"}

ASSUME McpAssumption ==
    /\ Message \subseteq [method : Methods, id : Ids \cup {NoId}, name : STRING]
    /\ NoId \notin Ids /\ NoTool \notin Tools /\ MaxMessages \in Nat

Calls == 1..MaxMessages
None == 0

VARIABLES
    received,       \* the messages, in the order in which they came
    pc,             \* the handler of a message
    reply,          \* what it answers
    cancelled,      \* the trigger of a call was used, or dropped
    inflight        \* SdkMcpServer.inflight: the call registered under an id
vars == <<received, pc, reply, cancelled, inflight>>

\* The id of a call; of a cancellation, the id it names.
Id(t) == received[t].id

Init ==
    /\ received = <<>> /\ reply = <<>>
    /\ pc = [t \in Calls |-> "none"]
    /\ cancelled = [t \in Calls |-> FALSE]
    /\ inflight = [i \in Ids \cup {NoId} |-> None]

-----------------------------------------------------------------------------
(* Wire forms *)

Error(code) == <<"error", code>>
Result(r) == <<"result", r>>

\* Links and text resources become text; a binary resource has no wire form.
WireForm(c) == IF c = "image" THEN "image" ELSE "text"
ToMcpResult(content) ==
    LET shown == SelectSeq(content, LAMBDA c : c # "blob")
    IN  [k \in DOMAIN shown |-> WireForm(shown[k])]

\* An error of the tool is a result, whose text is the error.
Answer(outcome) ==
    IF outcome = "error" THEN Result(<<"tool error", <<"text">>>>)
    ELSE Result(<<"ok", ToMcpResult(outcome)>>)

-----------------------------------------------------------------------------
Receive(m) ==
    /\ Len(received) < MaxMessages
    /\ received' = Append(received, m)
    /\ reply' = Append(reply, <<>>)
    /\ pc' = [pc EXCEPT ![Len(received) + 1] = "spawned"]
    /\ UNCHANGED <<cancelled, inflight>>

Replies(t, r) == pc' = [pc EXCEPT ![t] = "done"] /\ reply' = [reply EXCEPT ![t] = r]

\* Messages answered without a look at the calls.
HandlePlain(t) ==
    /\ pc[t] = "spawned"
    /\ received[t].method \notin {"tools/call", "notifications/cancelled"}
    /\ Replies(t, IF received[t].method = "unknown" THEN Error(-32601)
                  ELSE Result(received[t].method))
    /\ UNCHANGED <<received, cancelled, inflight>>

\* MUTANT of HandleCancel: the call is forgotten, and not told.
HandleCancelSilently(t) ==
    /\ pc[t] = "spawned" /\ received[t].method = "notifications/cancelled"
    /\ inflight' = [inflight EXCEPT ![Id(t)] = None]
    /\ Replies(t, Result("cancelled"))
    /\ UNCHANGED <<received, cancelled>>

\* A call that has not registered yet, or is done, is not found.
HandleCancel(t) ==
    /\ pc[t] = "spawned" /\ received[t].method = "notifications/cancelled"
    /\ inflight' = [inflight EXCEPT ![Id(t)] = None]
    /\ cancelled' = [c \in Calls |-> cancelled[c] \/ c = inflight[Id(t)]]
    /\ Replies(t, Result("cancelled"))
    /\ UNCHANGED received

Refusal(t) ==
    IF received[t].name = NoTool THEN -32602
    ELSE IF received[t].name \notin Tools THEN -32601
    ELSE IF inflight[Id(t)] # None THEN -32600 ELSE None

RefuseCall(t) ==
    /\ pc[t] = "spawned" /\ received[t].method = "tools/call"
    /\ Refusal(t) # None
    /\ Replies(t, Error(Refusal(t)))
    /\ UNCHANGED <<received, cancelled, inflight>>

\* Registering drops the trigger of a call that it would replace.
RunCall(t) ==
    /\ pc[t] = "spawned" /\ received[t].method = "tools/call"
    /\ Refusal(t) = None
    /\ inflight' = [inflight EXCEPT ![Id(t)] = t]
    /\ cancelled' = [c \in Calls |-> cancelled[c] \/ c = inflight[Id(t)]]
    /\ pc' = [pc EXCEPT ![t] = "running"]
    /\ UNCHANGED <<received, reply>>

\* select! takes either branch when both are ready.
Settle(t, r) ==
    /\ pc' = [pc EXCEPT ![t] = "leaving"] /\ reply' = [reply EXCEPT ![t] = r]
    /\ UNCHANGED <<received, cancelled, inflight>>

ToolReturns(t) ==
    /\ pc[t] = "running"
    /\ \E o \in Outcome : Settle(t, Answer(o))

SeeCancel(t) ==
    /\ pc[t] = "running" /\ cancelled[t]
    /\ Settle(t, Error(-32800))

\* The handler's task is aborted: its future is dropped, and with it the guard.
Abort(t) ==
    \/ pc[t] = "running" /\ Settle(t, <<>>)
    \/ /\ pc[t] = "spawned"
       /\ Replies(t, <<>>)
       /\ UNCHANGED <<received, cancelled, inflight>>

\* MUTANT of Leave: whoever is registered under the id is removed.
LeaveAnyhow(t) ==
    /\ pc[t] = "leaving"
    /\ inflight' = [inflight EXCEPT ![Id(t)] = None]
    /\ pc' = [pc EXCEPT ![t] = "done"]
    /\ UNCHANGED <<received, reply, cancelled>>

\* InflightGuard's Drop: a newer call of the id stays registered.
Leave(t) ==
    /\ pc[t] = "leaving"
    /\ inflight' = [inflight EXCEPT ![Id(t)] = IF @ = t THEN None ELSE @]
    /\ pc' = [pc EXCEPT ![t] = "done"]
    /\ UNCHANGED <<received, reply, cancelled>>

Next ==
    \/ \E m \in Message : Receive(m)
    \/ \E t \in DOMAIN received :
        \/ HandlePlain(t) \/ HandleCancel(t) \/ RefuseCall(t) \/ RunCall(t)
        \/ ToolReturns(t) \/ SeeCancel(t) \/ Abort(t) \/ Leave(t)

\* A task that is woken is polled; a tool may run for ever.
Spec == Init /\ [][Next]_vars
             /\ \A t \in Calls : WF_vars(t \in DOMAIN received /\ (SeeCancel(t) \/ Leave(t)))

-----------------------------------------------------------------------------
(* Properties *)

\* The table is exact: what it holds runs, or is about to leave, and was not told
\* to stop; a call that runs and was not told to stop is in it, so that a
\* cancellation finds it; and a call is told to stop only by a cancellation of its
\* id, never by another call that uses the id or by a late guard of one.
InFlightExact ==
    /\ \A i \in DOMAIN inflight : LET t == inflight[i] IN
        t # None => Id(t) = i /\ pc[t] \in {"running", "leaving"} /\ ~cancelled[t]
    /\ \A t \in DOMAIN received :
        /\ pc[t] = "running" /\ ~cancelled[t] => inflight[Id(t)] = t
        /\ cancelled[t] => \E c \in DOMAIN received :
            /\ received[c].method = "notifications/cancelled" /\ Id(c) = Id(t)
            /\ pc[c] = "done"

\* A call that was taken out of the table while it runs is told, and comes to an
\* end even if its tool never returns: the id is free again and nobody waits for it.
CancelSettles ==
    \A t \in Calls :
        pc[t] = "running" /\ inflight[Id(t)] # t ~> pc[t] = "done"
=============================================================================
