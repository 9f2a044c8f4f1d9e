----------------------------- MODULE AgentFrames -----------------------------
(***************************************************************************)
(* What goes over the output of the CLI and what becomes of it: messages,  *)
(* the requests of the control protocol with the callbacks that answer     *)
(* them, and the end of the process (agent_runtime.rs, agent.rs).          *)
(*                                                                         *)
(* The interleaving of the control protocol's tasks is in ControlProtocol, *)
(* the ends of runs in RunBoundary, mirroring in MirrorBatcher; this       *)
(* module has the contents.  A frame is read as the CLI sends it: nothing  *)
(* here depends on how long it takes.  Mirror frames that are well formed  *)
(* and answers to requests of the SDK change nothing here.                 *)
(***************************************************************************)
EXTENDS AgentForms, Integers

CONSTANTS
    Frames,        \* frames of the CLI, each [frame, message, typed]: the message it stands
                   \* for, Skip if a consumer is not to see it, Bad if it is malformed; and
                   \* what init_data makes of it
    HookEvents,    \* the sequence of the hook events with hooks, in the order of HookEvent
    Hooks,         \* for each, the sequence of its matchers, each a sequence of callbacks
    Permissions,   \* contents of can_use_tool requests, each [content, offers]: with the
                   \* updates among its suggestions that are well formed
    HookInputs,    \* inputs of hooks, each [input, kind]: the event it is a whole input of
    HookSays,      \* for each of these events, what a hook has to say of it
    SdkServers,    \* names of SDK MCP servers
    McpMessages,   \* contents of mcp_message requests
    Id,            \* ids of control requests, each used once
    MaxFrames,     \* bound on the frames the CLI sends
    MaxTraffic,    \* bound on all it sends, a request counted twice
    None

\* What the CLI says has one meaning, and a hook has all its event is to be told.
ASSUME FramesAssumption ==
    /\ \A f, g \in Frames : f.frame = g.frame => f = g
    /\ \A p, q \in Permissions : p.content = q.content => p = q
    /\ \A h, k \in HookInputs : h.input = k.input => h = k
    /\ \A m, n \in McpMessages : n = m => DOMAIN n \subseteq {"server_name", "message"}
    /\ \A e \in DOMAIN HookSays : Read(HookSpecificOutput[e], HookSays[e]) = HookSays[e]
    /\ MaxFrames \in Nat /\ MaxTraffic \in Nat

VARIABLES
    prompt,        \* the effective permission_prompt_tool_name
    callback,      \* whether there is a can_use_tool callback
    lastError,     \* last_error_result
    stream,        \* the frames sent to the consumer and not received
    end,           \* how the reader ended
    request,       \* the requests of the handlers
    called,        \* what the callback of a handler was given
    answer,        \* the answers written
    sent,          \* history: the regular frames of the CLI
    received,      \* history: what the consumer got
    decided        \* history: what the callback of a handler returned

options == <<prompt, callback>>
reader == <<lastError, end, sent>>
handlers == <<request, called, answer, decided>>
vars == <<options, reader, stream, handlers, received>>

-----------------------------------------------------------------------------
(* Options *)

\* AgentOptions::resolve_permission_options
Resolved(has, given) == IF has THEN "stdio" ELSE given
Refused(has, given) == has /\ given # "none"

\* build_hooks: callbacks are numbered through all events and matchers.
HookList == FlattenSeq([e \in DOMAIN HookEvents |->
    FlattenSeq([m \in DOMAIN Hooks[HookEvents[e]] |->
        [h \in DOMAIN Hooks[HookEvents[e]][m] |-> <<HookEvents[e], m, h>>]])])
CallbackAt(at) == Hooks[at[1]][at[2]][at[3]]
\* MUTANT: the counter starts again for each matcher.
IdPerMatcher(at) == at[3]
CallbackId(at) == CHOOSE id \in DOMAIN HookList : HookList[id] = at
\* hook_callbacks: an id used twice is that of the last callback that got it.
Registered(id) == CallbackAt(HookList[SelectLastInSeq(HookList, LAMBDA at : CallbackId(at) = id)])

\* (The name of a tool is as good as none: the CLI asks that tool, not the SDK.)
Init ==
    /\ \E has \in BOOLEAN, given \in {"none", "stdio"} :
        ~Refused(has, given) /\ callback = has /\ prompt = Resolved(has, given)
    /\ lastError = None /\ stream = <<>> /\ end = None
    /\ request = [i \in Id |-> None] /\ called = [i \in Id |-> None]
    /\ answer = [i \in Id |-> None] /\ decided = [i \in Id |-> None]
    /\ sent = <<>> /\ received = <<>>

-----------------------------------------------------------------------------
(* The reader *)

Reading == end = None
Traffic == Len(sent) + 2 * Cardinality({i \in Id : request[i] # None})

IsMarker(f) == f[1] = "object" /\ "subtype" \in DOMAIN f[2] /\ "type" \in DOMAIN f[2] /\
    f[2].type = Atom("system") /\ f[2].subtype = Atom("session_state_changed")
IsHostOnly(f) == IsMarker(f) /\ "sdk_host_only" \in DOMAIN f[2] /\ f[2].sdk_host_only = Atom("true")
IsResult(f) == f[1] = "object" /\ "type" \in DOMAIN f[2] /\ f[2].type = Atom("result")
IsErrorResult(f) == IsResult(f) /\ "is_error" \in DOMAIN f[2] /\ f[2].is_error = Atom("true")

\* track_error_result
\* MUTANT: only a result takes back an error result.
TrackResults(f) ==
    IF IsErrorResult(f) THEN f ELSE IF IsResult(f) THEN None ELSE lastError
Track(f) == IF IsErrorResult(f) THEN f ELSE IF IsMarker(f) THEN lastError ELSE None

ReadFrame(f) ==
    /\ Reading /\ Len(sent) < MaxFrames /\ Traffic < MaxTraffic
    /\ lastError' = Track(f.frame)
    /\ stream' = IF IsHostOnly(f.frame) THEN stream ELSE Append(stream, f.frame)
    /\ sent' = Append(sent, f)
    /\ UNCHANGED <<options, end, handlers, received>>

\* fail_read_error: the reader ends with an error, for the consumer and for the callers that wait.
FailRead(error) ==
    end' = IF error = "process" /\ lastError # None
           THEN <<"result_error", lastError, Explanation(lastError[2])>> ELSE <<error>>

\* The output ends, the process failed, or a line or a mirror frame is malformed.
ReadEnd(how) ==
    /\ Reading
    /\ IF how = "eof" THEN end' = <<"eof">> ELSE FailRead(how)
    /\ UNCHANGED <<options, lastError, sent, stream, handlers, received>>

\* A request of the CLI, and the task that handles it.
ReadRequest(i, r) ==
    /\ Reading /\ Traffic + 2 <= MaxTraffic
    /\ request[i] = None /\ \A j \in Id : j < i => request[j] # None
    /\ r[1] = "can_use_tool" => prompt = "stdio"
    /\ request' = [request EXCEPT ![i] = r]
    /\ UNCHANGED <<options, reader, stream, called, answer, decided, received>>

-----------------------------------------------------------------------------
(* Control request handlers *)

Waits(i) == request[i] # None /\ called[i] = None /\ answer[i] = None
Write(i, data) == answer' = [answer EXCEPT ![i] = data]
Failure(why) == <<"error", why>>
Success(data) == <<"success", data>>
\* What the request carries, Null if it does not.
Given(r, f) == IF f \in DOMAIN r[2] THEN r[2][f] ELSE Null
ContextFields == {"tool_use_id", "agent_id", "blocked_path", "decision_reason", "title",
                  "display_name", "description"}
Suggestions(r) ==
    IF ~Has(r[2], "permission_suggestions", ManyOf(Json)) THEN <<>>
    ELSE LET all == r[2].permission_suggestions[2]
         IN  SelectSeq([k \in DOMAIN all |-> ReadUpdate(all[k])], LAMBDA u : u # Bad)

CallPermission(i) ==
    /\ Waits(i) /\ request[i][1] = "can_use_tool"
    /\ IF ~callback THEN Write(i, Failure("not provided")) /\ UNCHANGED called
       ELSE /\ called' = [called EXCEPT ![i] =
                 [callback |-> "can_use_tool", tool_name |-> Given(request[i], "tool_name"),
                  input |-> Given(request[i], "input"), suggestions |-> Suggestions(request[i]),
                  context |-> Pick(NoFields, Texts(ContextFields), request[i][2])]]
            /\ UNCHANGED answer
    /\ UNCHANGED <<options, reader, stream, request, decided, received>>

CallHook(i) ==
    /\ Waits(i) /\ request[i][1] = "hook_callback"
    /\ IF request[i][2].callback_id \notin {CallbackId(HookList[k]) : k \in DOMAIN HookList}
       THEN Write(i, Failure("no callback")) /\ UNCHANGED called
       ELSE /\ called' = [called EXCEPT ![i] =
                 [callback |-> Registered(request[i][2].callback_id),
                  input |-> HookInput(Given(request[i], "input")),
                  tool_use_id |-> Given(request[i], "tool_use_id")]]
            /\ UNCHANGED answer
    /\ UNCHANGED <<options, reader, stream, request, decided, received>>

\* PermissionResult::to_wire
Optional(f, v) == IF v = None THEN NoFields ELSE [x \in {f} |-> v]
WireDecision(d, original) ==
    IF d.behavior = "allow"
    THEN [behavior |-> "allow",
          updatedInput |-> IF d.input = None THEN original ELSE d.input] @@
         Optional("updatedPermissions", IF d.updates = None THEN None
                                        ELSE [k \in DOMAIN d.updates |-> WireUpdate(d.updates[k])])
    ELSE [behavior |-> "deny", message |-> d.message] @@
         Optional("interrupt", IF d.interrupt THEN TRUE ELSE None)

Decide(i, d) ==
    /\ called[i] # None /\ answer[i] = None /\ called[i].callback = "can_use_tool"
    /\ Write(i, IF d.behavior = "error" THEN Failure("callback")
                ELSE Success(WireDecision(d, called[i].input)))
    /\ decided' = [decided EXCEPT ![i] = d]
    /\ UNCHANGED <<options, reader, stream, request, called, received>>

\* HookJSONOutput::to_wire
WireName == [continue_ |-> "continue", suppress_output |-> "suppressOutput",
    stop_reason |-> "stopReason", decision |-> "decision", system_message |-> "systemMessage",
    reason |-> "reason", hook_specific_output |-> "hookSpecificOutput",
    async_timeout |-> "asyncTimeout"]
WireOutput(o) ==
    LET named == [w \in {WireName[f] : f \in DOMAIN o.fields} |->
                    o.fields[CHOOSE f \in DOMAIN o.fields : WireName[f] = w]]
    IN  IF o.kind = "async" THEN [async |-> "true"] @@ named ELSE named

ReturnHook(i, o) ==
    /\ called[i] # None /\ answer[i] = None /\ called[i].callback # "can_use_tool"
    /\ Write(i, IF o.kind = "error" THEN Failure("callback") ELSE Success(WireOutput(o)))
    /\ decided' = [decided EXCEPT ![i] = o]
    /\ UNCHANGED <<options, reader, stream, request, called, received>>

\* handle_mcp_message, and a subtype the SDK does not know
AnswerMcp(i) ==
    /\ Waits(i) /\ request[i][1] = "mcp_message"
    /\ LET server == Given(request[i], "server_name")
           message == Given(request[i], "message")
       IN  Write(i, IF server \in {Null, Atom("")} \/ ~Fits(AnyObject, message)
                    THEN Failure("missing server_name or message")
                    ELSE Success(IF server[2] \in SdkServers
                                 THEN [server |-> server[2], of |-> message]
                                 ELSE [error |-> "not found", id |-> Given(message, "id")]))
    /\ UNCHANGED <<options, reader, stream, request, called, decided, received>>

RefuseSubtype(i) ==
    /\ Waits(i) /\ request[i][1] \notin {"can_use_tool", "hook_callback", "mcp_message"}
    /\ Write(i, Failure("unsupported"))
    /\ UNCHANGED <<options, reader, stream, request, called, decided, received>>

-----------------------------------------------------------------------------
(* The consumer: receive *)

Receive ==
    /\ stream # <<>>
    /\ stream' = Tail(stream)
    /\ LET message == ParseFrame(Head(stream))
       IN  received' = IF message = Skip THEN received ELSE Append(received, message)
    /\ UNCHANGED <<options, reader, handlers>>

-----------------------------------------------------------------------------
(* The CLI and the application *)

\* The last part of a request is what the CLI means by it: the suggestions it offers, the
\* callback it calls and the event it tells of.  The SDK does not see it.
HookRequests ==
    {<<"hook_callback", [callback_id |-> CallbackId(at), input |-> h.input,
                         tool_use_id |-> Atom("t")], [at |-> at, kind |-> h.kind]>> :
        at \in ToSet(HookList), h \in HookInputs}
    \cup {<<"hook_callback", [callback_id |-> 0], [at |-> None]>>}
Requests ==
    {<<"can_use_tool", p.content, p.offers>> : p \in Permissions} \cup HookRequests \cup
    {<<"mcp_message", m, None>> : m \in McpMessages} \cup {<<"elicitation", NoFields, None>>}

\* A permission callback may take over the suggestions and change the input.
Decisions(call) ==
    [behavior : {"allow"}, input : {None, Atom("changed")}, updates : {None, call.suggestions}]
    \cup [behavior : {"deny"}, message : {"m"}, interrupt : BOOLEAN]
    \cup [behavior : {"error"}]
\* A hook that knows its event may answer in the form of that event.
Specific(event) ==
    IF event \notin DOMAIN HookSays THEN NoFields
    ELSE [hook_specific_output |-> Read(HookSpecificOutput[event], HookSays[event])]
HookOutputs(call) ==
    {[kind |-> "error"], [kind |-> "async", fields |-> [async_timeout |-> "1"]],
     [kind |-> "sync", fields |-> NoFields],
     [kind |-> "sync", fields |-> [continue_ |-> "false", stop_reason |-> "s", reason |-> "r"] @@
                                  Specific(call.input.event[1])]}

Next ==
    \/ \E f \in Frames : ReadFrame(f)
    \/ \E how \in {"eof", "process", "malformed"} : ReadEnd(how)
    \/ \E i \in Id :
        \/ \E r \in Requests : ReadRequest(i, r)
        \/ CallPermission(i) \/ CallHook(i) \/ AnswerMcp(i) \/ RefuseSubtype(i)
        \/ called[i] # None /\ called[i].callback = "can_use_tool" /\
            \E d \in Decisions(called[i]) : Decide(i, d)
        \/ called[i] # None /\ called[i].callback # "can_use_tool" /\
            \E o \in HookOutputs(called[i]) : ReturnHook(i, o)
    \/ Receive

Spec == Init /\ [][Next]_vars

-----------------------------------------------------------------------------
(* Properties *)

\* The consumer gets a message for each frame it is to see, once and in the order of the CLI:
\* a malformed frame is an error in its place and does not take the frames after it along, an
\* unknown one, or one the CLI sent for the transport only, is left out, and a message keeps
\* what the CLI said in it even next to a block it does not know.  An init message reaches the
\* consumer whatever it lacks, and reads typed if it is complete, also from a later CLI.
\* (agent_runtime.rs:285, agent.rs:1589, agent.rs:1071, agent.rs:1187)
FramesSurface ==
    LET told == SelectSeq(sent, LAMBDA f : f.message # Skip)
        messages == [k \in DOMAIN told |-> told[k].message]
    IN  /\ IsPrefix(received, messages) /\ (stream = <<>> => received = messages)
        /\ \A k \in DOMAIN received :
            received[k] # Bad => InitData(received[k]) = told[k].typed

\* A failed process is explained by an error result exactly if that was the last the CLI had
\* to say: a message after it, or a good result, makes the failure a fresh one, and frames
\* about the session's state do not.  The explanation is empty only if the result is.
\* (agent_runtime.rs:643, agent_runtime.rs:668)
ExitExplained ==
    end # None =>
        LET said == SelectSeq(sent, LAMBDA f : ~IsMarker(f.frame))
            explains == said # <<>> /\ IsErrorResult(Last(said).frame)
        IN  /\ end[1] = "process" => ~explains
            /\ end[1] = "result_error" =>
                /\ explains /\ end[2] = Last(said).frame
                /\ end[3] = {Atom("unknown error")} =>
                    DOMAIN end[2][2] \cap {"errors", "result", "api_error_status"} = {}

\* A request of the CLI is answered by the callback the CLI means, from what that request
\* says: a hook by the callback that was announced under its id, with its whole input and, if
\* it is complete, typed, and what the hook says of that event is what the CLI gets; a
\* permission by the application, whenever it has a callback, with the suggestions that are
\* well formed.  An allowed call keeps the input of its own request unless the callback changed
\* it, and suggestions taken over come back as the CLI made them.
\* (agent_runtime.rs:1173, agent_runtime.rs:815, extensions.rs:1093)
AnswersMatch ==
    \A i \in Id : answer[i] # None =>
        LET content == request[i][2]
            meant == request[i][3]
            d == decided[i]
        IN  /\ request[i][1] = "hook_callback" /\ meant.at # None =>
                /\ called[i].callback = CallbackAt(meant.at)
                /\ called[i].input.raw = content.input /\ called[i].input.event[1] = meant.kind
                /\ (answer[i][1] = "success") = (d.kind # "error")
                /\ d.kind = "sync" /\ "reason" \in DOMAIN d.fields /\ meant.kind \in DOMAIN HookSays =>
                    answer[i][2].hookSpecificOutput = HookSays[meant.kind]
            /\ request[i][1] = "can_use_tool" /\ callback =>
                /\ called[i].suggestions = meant
                /\ (answer[i][1] = "success") = (d.behavior # "error")
                /\ d.behavior = "allow" =>
                    /\ answer[i][2].updatedInput = IF d.input = None THEN content.input ELSE d.input
                    /\ d.updates # None => answer[i][2].updatedPermissions = meant
=============================================================================
