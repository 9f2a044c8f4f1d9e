--------------------------- MODULE ClientLifecycle ---------------------------
(***************************************************************************)
(* The life of a client: connect, close, drop, and connect again, over one *)
(* transport that all its sessions share (agent.rs ClaudeAgentClient,      *)
(* agent_runtime.rs Runtime::connect and Runtime::close, resume.rs).       *)
(*                                                                         *)
(* A session that is resumed from a store has a temporary tree, a copy of  *)
(* transcript and credentials, which must not outlive the session and must *)
(* not be removed under the child process that reads it.  connect takes    *)
(* the client exclusively; close does not, and its teardown runs in a task *)
(* of its own.  The application may drop the future of either call at any  *)
(* await.  The transport, with its child process, is external.             *)
(***************************************************************************)
EXTENDS Naturals, FiniteSets

CONSTANTS
    MaxSessions,    \* bound on the number of connects that get past the checks
    Retries,        \* retries of rmtree_with_retry before its last attempt (4)
    Servers,        \* SDK MCP servers the application may register
    Wanted          \* the servers among them that the options name

ASSUME LifecycleAssumption == MaxSessions \in Nat /\ Retries \in Nat /\ Wanted \subseteq Servers

Sessions == 1..MaxSessions
None == 0

VARIABLES
    alive,          \* the client was not dropped
    servers,        \* ClaudeAgentClient.mcp_servers
    slot,           \* ClaudeAgentClient.runtime
    begun,          \* number of connects that got past the checks
    call,           \* the connect in progress: its session and where it stands
    s,              \* the sessions
    waiting,        \* sessions whose close is awaited by its caller
    abandoned,      \* history: sessions whose close was given up by its caller
    child,          \* the session whose process the transport runs
    tried,          \* history: close was called on the transport since it ran
    answered        \* the answer to initialize is there to be read
vars == <<alive, servers, slot, begun, call, s, waiting, abandoned, child, tried, answered>>

Stage == {"idle", "load", "write", "rmtree", "spawn", "unwind_close", "unwind_tree",
          "handshake", "rollback"}
Teardown == {"none", "handlers", "reader", "flush", "input", "transport", "tree",
             "done", "dropped"}
Session == [
    tree : {"none", "there", "removed", "stuck"},   \* stuck: its removal was given up
    made : BOOLEAN,                                 \* it left materialize_resume_session
    tries : 0..Retries,
    reader : {"none", "reading", "busy", "ended"},
    pc : Teardown,                                  \* Runtime::close
    by : {"nobody", "task", "call"}]                \* who runs it

TypeOK ==
    /\ alive \in BOOLEAN /\ tried \in BOOLEAN /\ answered \in BOOLEAN
    /\ servers \subseteq Servers
    /\ slot \in Sessions \cup {None} /\ child \in Sessions \cup {None}
    /\ begun \in 0..MaxSessions
    /\ call \in [g : Sessions \cup {None}, at : Stage]
    /\ s \in [Sessions -> Session]
    /\ waiting \subseteq Sessions /\ abandoned \subseteq Sessions

NewSession == [tree |-> "none", made |-> FALSE, tries |-> 0, reader |-> "none",
               pc |-> "none", by |-> "nobody"]
Idle == [g |-> None, at |-> "idle"]

Init ==
    /\ alive = TRUE /\ servers = {} /\ slot = None /\ begun = 0 /\ call = Idle
    /\ s = [g \in Sessions |-> NewSession]
    /\ waiting = {} /\ abandoned = {} /\ child = None /\ tried = FALSE /\ answered = FALSE

\* Nobody holds a borrow of the client: it may be taken exclusively.
Free == alive /\ call = Idle /\ waiting = {}

\* The receiver of g's stream is held, and its closed flag is not set.
Live(g) == slot = g \/ call = [g |-> g, at |-> "handshake"]

Tearing(g) == s[g].by = "task" \/ call = [g |-> g, at |-> "rollback"]

-----------------------------------------------------------------------------
(* The temporary tree *)

\* One attempt of rmtree_with_retry: it succeeds, fails for a transient reason
\* and is tried again, or fails for good.
Attempts(r) ==
    {[r EXCEPT !.tree = "removed"], [r EXCEPT !.tree = "stuck"]}
      \cup (IF r.tries < Retries THEN {[r EXCEPT !.tries = @ + 1]} ELSE {})

\* The guard's Drop: one attempt, best-effort.
GuardDrops(r) == {[r EXCEPT !.tree = "removed"], [r EXCEPT !.tree = "stuck"]}

-----------------------------------------------------------------------------
(* connect *)

Moves(at) == call' = [call EXCEPT !.at = at]

AddServer(m) ==
    /\ Free /\ slot = None /\ m \notin servers
    /\ servers' = servers \cup {m}
    /\ UNCHANGED <<alive, slot, begun, call, s, waiting, abandoned, child, tried, answered>>

\* A client whose transport is ready stays as it is.  A stale runtime is let go,
\* also when the options then turn out to be invalid.
Connect(valid, resume) ==
    /\ Free /\ (slot = None \/ child = None)
    /\ slot' = None
    /\ IF valid /\ Wanted \subseteq servers
         THEN /\ begun < MaxSessions
              /\ begun' = begun + 1
              /\ call' = [g |-> begun + 1, at |-> IF resume THEN "load" ELSE "spawn"]
         ELSE UNCHANGED <<begun, call>>
    /\ UNCHANGED <<alive, servers, s, waiting, abandoned, child, tried, answered>>

\* The store has the session, has none (the CLI gets the options unchanged), or fails.
LoadCandidate(outcome) ==
    /\ call.at = "load"
    /\ \/ outcome = "found" /\ Moves("write") /\ s' = [s EXCEPT ![call.g].tree = "there"]
       \/ outcome = "none" /\ Moves("spawn") /\ UNCHANGED s
       \/ outcome = "error" /\ call' = Idle /\ UNCHANGED s
    /\ UNCHANGED <<alive, servers, slot, begun, waiting, abandoned, child, tried, answered>>

WriteTree(ok) ==
    /\ call.at = "write"
    /\ IF ok THEN Moves("spawn") /\ s' = [s EXCEPT ![call.g].made = TRUE]
             ELSE Moves("rmtree") /\ UNCHANGED s
    /\ UNCHANGED <<alive, servers, slot, begun, waiting, abandoned, child, tried, answered>>

\* The error path of the materialization, and the one behind a request that
\* cannot be built.
RemoveTree ==
    /\ call.at \in {"rmtree", "unwind_tree"}
    /\ \E r \in Attempts(s[call.g]) :
        /\ s' = [s EXCEPT ![call.g] = r]
        /\ call' = IF r.tree = "there" THEN call ELSE Idle
    /\ UNCHANGED <<alive, servers, slot, begun, waiting, abandoned, child, tried, answered>>

\* transport.connect.  Its error goes straight to the caller.
Spawn(outcome) ==
    /\ call.at = "spawn"
    /\ IF outcome = "error" THEN call' = Idle /\ UNCHANGED <<child, tried, answered>>
       ELSE /\ child' = call.g /\ tried' = FALSE /\ answered' = FALSE
            /\ Moves(IF outcome = "built" THEN "handshake" ELSE "unwind_close")
    /\ s' = IF outcome = "built" THEN [s EXCEPT ![call.g].reader = "reading"] ELSE s
    /\ UNCHANGED <<alive, servers, slot, begun, waiting, abandoned>>

\* AgentTransport::close ends the child, or fails and does not.
TransportClose == tried' = TRUE /\ child' \in {None, child}

UnwindClose ==
    /\ call.at = "unwind_close"
    /\ TransportClose
    /\ call' = IF s[call.g].tree = "there" THEN [call EXCEPT !.at = "unwind_tree"] ELSE Idle
    /\ UNCHANGED <<alive, servers, slot, begun, s, waiting, abandoned, answered>>

\* A reader takes the answer to initialize; it counts if it is the session's own.
TakeAnswer(g) ==
    /\ s[g].reader = "reading" /\ answered
    /\ answered' = FALSE
    /\ IF call = [g |-> g, at |-> "handshake"]
         THEN slot' = g /\ call' = Idle
         ELSE UNCHANGED <<slot, call>>
    /\ UNCHANGED <<alive, servers, begun, s, waiting, abandoned, child, tried>>

HandshakeFails ==
    /\ call.at = "handshake"
    /\ Moves("rollback")
    /\ s' = [s EXCEPT ![call.g].pc = "handlers", ![call.g].by = "call"]
    /\ UNCHANGED <<alive, servers, slot, begun, waiting, abandoned, child, tried, answered>>

RolledBack ==
    /\ call.at = "rollback" /\ s[call.g].pc = "done"
    /\ call' = Idle
    /\ UNCHANGED <<alive, servers, slot, begun, s, waiting, abandoned, child, tried, answered>>

\* The application drops the future of connect.  The guard removes the tree;
\* a MaterializedResume has no Drop; a runtime that goes detaches its reader.
CancelConnect ==
    /\ call # Idle
    /\ call' = Idle
    /\ \E r \in IF call.at \in {"write", "rmtree"} THEN GuardDrops(s[call.g])
                ELSE IF call.at = "rollback" THEN {[s[call.g] EXCEPT !.pc = "dropped"]}
                ELSE {s[call.g]} :
        s' = [s EXCEPT ![call.g] = r]
    /\ UNCHANGED <<alive, servers, slot, begun, waiting, abandoned, child, tried, answered>>

-----------------------------------------------------------------------------
(* close and drop *)

\* MUTANT of Close: the teardown is not awaited.
CloseForgets ==
    /\ alive /\ call = Idle /\ slot # None
    /\ slot' = None
    /\ s' = [s EXCEPT ![slot].pc = "handlers", ![slot].by = "task"]
    /\ UNCHANGED <<alive, servers, begun, call, waiting, abandoned, child, tried, answered>>

\* close takes the runtime and spawns its teardown.
Close ==
    /\ alive /\ call = Idle /\ slot # None
    /\ slot' = None
    /\ s' = [s EXCEPT ![slot].pc = "handlers", ![slot].by = "task"]
    /\ waiting' = waiting \cup {slot}
    /\ UNCHANGED <<alive, servers, begun, call, abandoned, child, tried, answered>>

CloseReturns(g) ==
    /\ g \in waiting /\ s[g].pc = "done"
    /\ waiting' = waiting \ {g}
    /\ UNCHANGED <<alive, servers, slot, begun, call, s, abandoned, child, tried, answered>>

\* MUTANT of AbandonClose: the teardown runs in the caller's future.
AbandonCloseInCaller(g) ==
    /\ g \in waiting
    /\ waiting' = waiting \ {g} /\ abandoned' = abandoned \cup {g}
    /\ s' = IF s[g].pc = "done" THEN s ELSE [s EXCEPT ![g].pc = "dropped"]
    /\ UNCHANGED <<alive, servers, slot, begun, call, child, tried, answered>>

AbandonClose(g) ==
    /\ g \in waiting
    /\ waiting' = waiting \ {g} /\ abandoned' = abandoned \cup {g}
    /\ UNCHANGED <<alive, servers, slot, begun, call, s, child, tried, answered>>

\* abort_reader, and no more: Drop cannot await.
DropClient ==
    /\ Free
    /\ alive' = FALSE /\ slot' = None
    /\ s' = IF slot = None THEN s ELSE [s EXCEPT ![slot].reader = "ended"]
    /\ UNCHANGED <<servers, begun, call, waiting, abandoned, child, tried, answered>>

Step(g, from, to) == s[g].pc = from /\ Tearing(g) /\ s' = [s EXCEPT ![g].pc = to]
TeardownOnly == UNCHANGED <<alive, servers, slot, begun, call, waiting, abandoned, answered>>

\* The handlers' tasks and the waiters are those of ControlProtocol.
CancelHandlers(g) == Step(g, "handlers", "reader") /\ TeardownOnly /\ UNCHANGED <<child, tried>>

AbortReader(g) ==
    /\ s[g].pc = "reader" /\ Tearing(g)
    /\ s' = [s EXCEPT ![g].pc = "flush", ![g].reader = "ended"]
    /\ TeardownOnly /\ UNCHANGED <<child, tried>>

FinalFlush(g) == Step(g, "flush", "input") /\ TeardownOnly /\ UNCHANGED <<child, tried>>

\* MUTANT of EndInput: the tree goes before the transport is closed.
EndInputAndTree(g) ==
    /\ s[g].pc = "input" /\ Tearing(g)
    /\ s' = [s EXCEPT ![g].pc = "transport",
                      ![g].tree = IF @ = "there" THEN "removed" ELSE @]
    /\ TeardownOnly /\ UNCHANGED <<child, tried>>

EndInput(g) == Step(g, "input", "transport") /\ TeardownOnly /\ UNCHANGED <<child, tried>>

CloseTransport(g) ==
    /\ Step(g, "transport", IF s[g].tree = "there" THEN "tree" ELSE "done")
    /\ TransportClose
    /\ TeardownOnly

Cleanup(g) ==
    /\ s[g].pc = "tree" /\ Tearing(g)
    /\ \E r \in Attempts(s[g]) :
        s' = [s EXCEPT ![g] = IF r.tree = "there" THEN r ELSE [r EXCEPT !.pc = "done"]]
    /\ TeardownOnly /\ UNCHANGED <<child, tried>>

TeardownStep(g) ==
    \/ CancelHandlers(g) \/ AbortReader(g) \/ FinalFlush(g) \/ EndInput(g)
    \/ CloseTransport(g) \/ Cleanup(g)

-----------------------------------------------------------------------------
(* The readers, and the child *)

\* A regular frame of whatever child the transport runs.
ReadFrame(g) ==
    /\ s[g].reader = "reading" /\ child # None
    /\ s' = [s EXCEPT ![g].reader = "busy"]
    /\ UNCHANGED <<alive, servers, slot, begun, call, waiting, abandoned, child, tried, answered>>

\* It is delivered; if nobody can receive it, or close was begun, the reader ends.
Deliver(g) ==
    /\ s[g].reader = "busy"
    /\ s' = [s EXCEPT ![g].reader = IF Live(g) THEN "reading" ELSE "ended"]
    /\ UNCHANGED <<alive, servers, slot, begun, call, waiting, abandoned, child, tried, answered>>

ReadEnd(g) ==
    /\ s[g].reader = "reading" /\ child = None
    /\ s' = [s EXCEPT ![g].reader = "ended"]
    /\ UNCHANGED <<alive, servers, slot, begun, call, waiting, abandoned, child, tried, answered>>

ChildAnswers ==
    /\ child # None /\ call = [g |-> child, at |-> "handshake"] /\ ~answered
    /\ answered' = TRUE
    /\ UNCHANGED <<alive, servers, slot, begun, call, s, waiting, abandoned, child, tried>>

\* The process ends by itself, or with the last handle of its transport.
ChildExits ==
    /\ child # None
    /\ child' = None
    /\ UNCHANGED <<alive, servers, slot, begun, call, s, waiting, abandoned, tried, answered>>

-----------------------------------------------------------------------------
Next ==
    \/ \E m \in Servers : AddServer(m)
    \/ \E valid, resume \in BOOLEAN : Connect(valid, resume)
    \/ \E outcome \in {"found", "none", "error"} : LoadCandidate(outcome)
    \/ \E ok \in BOOLEAN : WriteTree(ok)
    \/ RemoveTree \/ UnwindClose \/ HandshakeFails \/ RolledBack \/ CancelConnect
    \/ \E outcome \in {"error", "built", "unbuilt"} : Spawn(outcome)
    \/ Close \/ DropClient \/ ChildAnswers \/ ChildExits
    \/ \E g \in Sessions :
        \/ TakeAnswer(g) \/ CloseReturns(g) \/ AbandonClose(g) \/ TeardownStep(g)
        \/ ReadFrame(g) \/ Deliver(g) \/ ReadEnd(g)

\* A task that was spawned is polled, and the calls it makes return: the flush
\* (MirrorBatcher) and the transport's.  Nothing else is assumed to go on.
Fairness ==
    \A g \in Sessions : WF_vars(s[g].by = "task" /\ TeardownStep(g))

Spec == Init /\ [][Next]_vars /\ Fairness

-----------------------------------------------------------------------------
(* Properties *)

\* "Never before, or the child could read a deleted dir": while the child that was
\* started on a temporary tree may run, the tree is touched only after close was
\* called on the transport, on every path: teardown, rollback, a failed build.
TreeOutlivesChild ==
    \A g \in Sessions : s[g].tree \in {"removed", "stuck"} /\ child = g => tried

\* Whatever ends a materialization early (a failed or hanging store, a write that
\* fails, the caller that drops its future, also during the removal itself), the
\* tree does not stay behind: until the materialization hands it over, the connect
\* that runs is the one that owns it (TempTreeGuard).
TreeIsGuarded ==
    \A g \in Sessions : s[g].tree = "there" /\ ~s[g].made =>
        call.g = g /\ call.at \in {"write", "rmtree"}

\* The two together.  They do not say that a tree that was handed over is removed:
\* a transport.connect that fails, a connect that is dropped during it or during the
\* handshake, a stale runtime that is replaced and a client that is dropped leave it
\* behind without an owner.
TreeIsKept == TreeOutlivesChild /\ TreeIsGuarded

\* All sessions share one transport.  A teardown closes the child of another
\* session only if the caller of its close gave up and connected again.
NoForeignClose ==
    [][\A g \in Sessions :
        s[g].pc = "transport" /\ s'[g].pc \in {"tree", "done"} /\ child \notin {None, g}
            => g \in abandoned]_vars

\* A teardown that close began comes to its end, also when the caller of close
\* gave up, and behind it the session's reader has stopped and its tree is gone
\* (or could not be removed).
CloseFinishes ==
    \A g \in Sessions :
        s[g].pc = "handlers" /\ s[g].by = "task" ~>
            s[g].pc = "done" /\ s[g].reader = "ended" /\ s[g].tree # "there"
=============================================================================
