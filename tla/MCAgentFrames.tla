---------------------------- MODULE MCAgentFrames ----------------------------
EXTENDS AgentFrames
Names(fields) == [f \in fields |-> Atom(f)]
Text == Tagged("text", [text |-> Atom("t")])
Use == Tagged("server_tool_use", [id |-> Atom("i"), name |-> Atom("n"), input |-> Null])
Later == Tagged("a later block", [x |-> Atom("x")])
Result == Tagged("tool_result", [tool_use_id |-> Atom("i"), content |-> List(<<Later>>),
                                 is_error |-> Atom("true")])
Assistant(blocks) == Tagged("assistant", [uuid |-> Atom("u"), error |-> Atom("e"),
    message |-> Object([content |-> List(blocks), model |-> Atom("m"), stop_reason |-> Atom("s")])])
Replied(blocks) == Object([content |-> List(blocks), uuid |-> Atom("u"), error |-> Atom("e"),
                           model |-> Atom("m"), stop_reason |-> Atom("s")])
User == Tagged("user", [message |-> Object([content |-> List(<<Result, Later>>)]),
                        origin |-> Object([kind |-> Atom("human"), x |-> Atom("x")])])
Done(more) == [duration_ms |-> Atom("1"), duration_api_ms |-> Atom("1"), num_turns |-> Atom("1"),
               session_id |-> Atom("s")] @@ more
Good == Done([subtype |-> Atom("success"), is_error |-> Atom("false"), result |-> Atom("r"),
              deferred_tool_use |-> Object(NoFields)])
Failed == Done([subtype |-> Atom("success"), is_error |-> Atom("true"), result |-> Atom(" "),
                api_error_status |-> Atom("500")])
Errored == [is_error |-> Atom("true"), errors |-> List(<<Atom(""), Atom("e")>>)]
Marker == [subtype |-> Atom("session_state_changed"), state |-> Atom("idle")]
Status == Names({"uuid", "session_id", "task_id", "status", "output_file", "summary"}) @@
          [subtype |-> Atom("task_notification")]
System(fields) == Tagged("system", fields)
Frame(frame, message) == [frame |-> frame, message |-> message, typed |-> Skip]
\* A later CLI, with a state of fast mode and a field that are not known yet.
Init0 == Names({"uuid", "session_id", "type", "subtype", "apiKeySource", "claude_code_version", "cwd",
                "model", "output_style"}) @@
    [f \in {"tools", "slash_commands", "skills"} |-> List(<<Atom(f)>>)] @@
    [mcp_servers |-> List(<<Object(Names({"name", "status"}))>>), permissionMode |-> Atom("plan"),
     plugins |-> List(<<>>), capabilities |-> List(<<Atom("c")>>),
     fast_mode_state |-> Atom("later")]
Started == [type |-> Atom("system"), subtype |-> Atom("init")] @@ Init0
InitFrame(fields, typed) == [frame |-> System(fields), message |-> System(fields), typed |-> typed]
MCFrames == {
    Frame(Assistant(<<Text, Later, Use>>), Replied(<<Text, Use>>)),
    Frame(Assistant(<<Text, Tagged("thinking", [thinking |-> Atom("t")])>>), Bad),
    Frame(User, Object([content |-> List(<<Result>>),
                        origin |-> Object([kind |-> Atom("human"), x |-> Atom("x")])])),
    Frame(Tagged("result", Good), Object([f \in DOMAIN Good \ {"deferred_tool_use"} |-> Good[f]])),
    Frame(Tagged("result", Failed), Object(Failed)),
    Frame(Tagged("result", Errored), Bad),
    Frame(System(Marker), System(Marker)),
    Frame(System([sdk_host_only |-> Atom("true")] @@ Marker), Skip),
    Frame(System(Status), System(Status)),
    Frame(Tagged("stream_event", Names({"uuid", "session_id"})), Bad),
    Frame(Tagged("a later frame", NoFields), Skip),
    Frame(Tagged("rate_limit_event", Names({"uuid", "session_id"}) @@
                 [rate_limit_info |-> Object([status |-> Atom("s")])]),
          Object(Names({"uuid", "session_id"}) @@ [rate_limit_info |-> Object([status |-> Atom("s")])])),
    InitFrame([later |-> Atom("x")] @@ Started, Object(Started)),
    InitFrame([f \in DOMAIN Started \ {"skills"} |-> Started[f]], Bad)}
MCHookEvents == <<"PreToolUse", "Stop", "SubagentStop">>
MCHooks == [PreToolUse |-> <<<<"a", "b">>, <<"c">>>>, Stop |-> <<>>, SubagentStop |-> <<<<"d">>>>]
Base == Names({"session_id", "transcript_path", "cwd"})
Event(e, fields) == Object([hook_event_name |-> Atom(e)] @@ Base @@ fields)
Task == Object(Names({"id", "type", "status", "description"}))
MCHookInputs == {
    [input |-> Event("PreToolUse", Names({"tool_name", "tool_input", "tool_use_id"})),
     kind |-> "PreToolUse"],
    [input |-> Event("SubagentStop", Names({"agent_id", "agent_type", "agent_transcript_path"}) @@
        [stop_hook_active |-> Atom("true"), background_tasks |-> List(<<Task>>)]),
     kind |-> "SubagentStop"],
    [input |-> Object([hook_event_name |-> Atom("SubagentStop")]), kind |-> "Unknown"]}
MCHookSays == [
    PreToolUse |-> Object(Names({"additionalContext", "permissionDecision", "updatedInput"}) @@
                          [hookEventName |-> Atom("PreToolUse")]),
    SubagentStop |-> Object([hookEventName |-> Atom("SubagentStop"), additionalContext |-> Atom("c")])]
Update(type, fields) == Tagged(type, [destination |-> Atom("session")] @@ fields)
Rules == Update("addRules", [behavior |-> Atom("allow"), rules |-> List(<<
    Object([toolName |-> Atom("n"), ruleContent |-> Atom("c")])>>)])
Mode == Update("setMode", [mode |-> Atom("plan")])
Directories == Update("removeDirectories", [directories |-> List(<<Atom("d")>>)])
Ask(suggestions) == [tool_name |-> Atom("n"), input |-> Atom("given"), agent_id |-> Atom("a"),
                     permission_suggestions |-> List(suggestions)]
NoText == Object(NoFields)
ToolRule == Object([toolName |-> Atom("n")])
RulesOf(rules) == Update("addRules", [rules |-> List(rules)])
MCPermissions == {
    [content |-> Ask(<<Rules, Update("a later type", NoFields), Mode>>), offers |-> <<Rules, Mode>>],
    [content |-> Ask(<<Update("removeDirectories", [directories |-> List(<<NoText, Atom("d")>>)]),
                       Update("setMode", [mode |-> Atom("a later mode")]),
                       RulesOf(<<ToolRule, NoText>>),
                       RulesOf(<<Object([toolName |-> Atom("n"), ruleContent |-> NoText])>>)>>),
     offers |-> <<Directories, RulesOf(<<ToolRule>>)>>],
    [content |-> [tool_name |-> Atom("n"), input |-> Atom("other")], offers |-> <<>>]}
Call == Object([id |-> Atom("i"), method |-> Atom("m")])
MCMcpMessages == {[server_name |-> Atom("s"), message |-> Call], [server_name |-> Atom("x"), message |-> Call],
                  [server_name |-> Atom("s")]}
=============================================================================
