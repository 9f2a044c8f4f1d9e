------------------------------ MODULE AgentForms ------------------------------
(***************************************************************************)
(* The JSON forms the agent SDK exchanges with the Claude Code CLI: the    *)
(* frames of its output (agent.rs), the inputs of hooks and the            *)
(* permission updates of the control protocol (extensions.rs).             *)
(*                                                                         *)
(* Frames and updates are read field by field, not by serde: a field that  *)
(* is required has to be there with its type, another is taken if it has   *)
(* its type.  Hook inputs are read by serde (WireTypes).                   *)
(***************************************************************************)
EXTENDS WireTypes, SequencesExt

Skip == <<"skip">>                    \* unknown, left out for later versions of the CLI
Null == Atom("null")
Bool == Word({"true", "false"})
Num == Word({"0", "1", "500"})
AnyObject == This(Struct(NoFields, NoFields))
Texts(names) == [n \in names |-> Str]

Has(fields, f, holds) ==
    f \in DOMAIN fields /\ Fits(holds, fields[f]) /\ (fields[f] = Null => holds = Json)
Pick(must, may, fields) ==
    IF \E f \in DOMAIN must : ~Has(fields, f, must[f]) THEN Bad
    ELSE LET known == must @@ may
         IN  Object([f \in {g \in DOMAIN known : Has(fields, g, known[g])} |-> fields[f]])
\* Two readings of one frame, bad if either is.
Both(one, other) == IF Bad \in {one, other} THEN Bad ELSE Object(one[2] @@ other[2])

-----------------------------------------------------------------------------
(* Frames *)

ToolCall == [id |-> Str, name |-> Str, input |-> Json]
BlockMust == [text |-> Texts({"text"}), thinking |-> Texts({"thinking", "signature"}),
              tool_use |-> ToolCall, server_tool_use |-> ToolCall,
              tool_result |-> Texts({"tool_use_id"}),
              advisor_tool_result |-> [tool_use_id |-> Str, content |-> Json]]
BlockMay(tag) == IF tag = "tool_result" THEN [content |-> Json, is_error |-> Bool] ELSE NoFields
\* MUTANT: a block of an unknown type counts as malformed.
ReadBlockStrictly(v) ==
    IF v[1] # "object" \/ "type" \notin DOMAIN v[2] \/
       v[2].type \notin {Atom(tag) : tag \in DOMAIN BlockMust} THEN Bad
    ELSE LET tag == v[2].type[2]
         IN  Pick(BlockMust[tag] @@ [type |-> Str], BlockMay(tag), v[2])
ReadBlock(v) ==
    IF v[1] # "object" \/ "type" \notin DOMAIN v[2] THEN Bad
    ELSE IF v[2].type \notin {Atom(tag) : tag \in DOMAIN BlockMust} THEN Skip
    ELSE LET tag == v[2].type[2]
         IN  Pick(BlockMust[tag] @@ [type |-> Str], BlockMay(tag), v[2])
ReadBlocks(blocks) ==
    LET read == [k \in DOMAIN blocks |-> ReadBlock(blocks[k])]
    IN  IF Bad \in ToSet(read) THEN Bad
        ELSE Object([content |-> List(SelectSeq(read, LAMBDA b : b # Skip))])

Origin == This(Struct([kind |-> Str], NoFields))
Ids == Texts({"uuid", "session_id"})
UserAgentMessage == Texts({"uuid", "parent_tool_use_id"}) @@ [tool_use_result |-> Json, origin |-> Origin]
ParseUser(fields) ==
    LET rest == Pick(NoFields, UserAgentMessage, fields)
    IN  IF ~(Has(fields, "message", AnyObject) /\ "content" \in DOMAIN fields.message[2]) THEN Bad
        ELSE LET content == fields.message[2].content
             IN  IF content[1] = "list" THEN Both(ReadBlocks(content[2]), rest)
                 ELSE Both(Object([content |-> content]), rest)
AssistantAgentMessage == Ids @@ Texts({"parent_tool_use_id", "error"})
ParseAssistant(fields) ==
    LET rest == Pick(NoFields, AssistantAgentMessage, fields)
    IN  IF ~(Has(fields, "message", AnyObject) /\ Has(fields.message[2], "content", ManyOf(Json)))
        THEN Bad
        ELSE LET message == fields.message[2]
             IN  Both(ReadBlocks(message.content[2]),
                      Both(Pick(Texts({"model"}), Texts({"id", "stop_reason"}) @@ [usage |-> Json],
                                message), rest))
TaskMessage == Ids @@ Texts({"task_id"})
SystemMust == [task_started |-> TaskMessage @@ Texts({"description"}),
               task_progress |-> TaskMessage @@ Texts({"description"}) @@ [usage |-> Json],
               task_notification |-> TaskMessage @@ Texts({"status", "output_file", "summary"})]
\* Every system message keeps its frame whole besides the fields it names.
ParseSystem(fields) ==
    IF ~Has(fields, "subtype", Str) THEN Bad
    ELSE IF fields.subtype[2] \in DOMAIN SystemMust
    THEN Both(Pick(SystemMust[fields.subtype[2]], NoFields, fields), Object(fields))
    ELSE Object(fields)
ResultMust == [subtype |-> Str, duration_ms |-> Num, duration_api_ms |-> Num, is_error |-> Bool,
               num_turns |-> Num, session_id |-> Str]
ResultAgentMessage == Texts({"stop_reason", "result", "uuid", "terminal_reason"}) @@
    Fields({"usage", "structured_output", "modelUsage", "permission_denials"}) @@
    [total_cost_usd |-> Num, api_error_status |-> Num, errors |-> ManyOf(Json), origin |-> Origin]
\* An empty deferred_tool_use is none.
ParseResult(fields) ==
    LET deferred == "deferred_tool_use" \in DOMAIN fields /\ fields.deferred_tool_use # Object(NoFields)
                    /\ Fits(AnyObject, fields.deferred_tool_use)
        call == IF deferred THEN Pick(ToolCall, NoFields, fields.deferred_tool_use[2]) ELSE Skip
        message == Pick(ResultMust, ResultAgentMessage, fields)
    IN  IF call = Skip THEN message ELSE Both(message, IF call = Bad THEN Bad
                                                       ELSE Object([deferred_tool_use |-> call]))
ParseRateLimit(fields) ==
    IF ~Has(fields, "rate_limit_info", This(Struct([status |-> Str], NoFields))) THEN Bad
    ELSE Both(Pick(Ids, NoFields, fields),
              Pick(NoFields, [rate_limit_info |-> Json], fields))     \* with its raw object
StreamAgentMessage == Ids @@ [event |-> Json]
ConversationResetAgentMessage == Ids @@ Texts({"new_conversation_id"})

\* AgentMessage::from_value
ParseFrame(v) ==
    IF v[1] # "object" \/ ~Has(v[2], "type", Str) \/ v[2].type = Atom("") THEN Bad
    ELSE LET fields == v[2]
         IN  CASE fields.type = Atom("user") -> ParseUser(fields)
               [] fields.type = Atom("assistant") -> ParseAssistant(fields)
               [] fields.type = Atom("system") -> ParseSystem(fields)
               [] fields.type = Atom("result") -> ParseResult(fields)
               [] fields.type = Atom("stream_event") ->
                    Pick(StreamAgentMessage, Texts({"parent_tool_use_id"}), fields)
               [] fields.type = Atom("rate_limit_event") -> ParseRateLimit(fields)
               [] fields.type = Atom("conversation_reset") ->
                    Pick(ConversationResetAgentMessage, NoFields, fields)
               [] OTHER -> Skip

\* SystemAgentMessage::init_data: what the CLI says of itself, read by serde.  A state of fast
\* mode, or a reason for it, that is not known is read as another one.
PermissionMode ==
    Word({"default", "acceptEdits", "plan", "bypassPermissions", "dontAsk", "auto"})
SystemInitMcpServer == This(Struct(Texts({"name", "status"}), Texts({"source"})))
SystemInitPlugin == This(Struct(Texts({"name", "path"}), Texts({"version"})))
SystemInitPluginError == This(Struct(Texts({"plugin", "type", "message"}), Texts({"path"})))
SystemInitData == This(Struct(
    Ids @@ Texts({"type", "subtype", "apiKeySource", "claude_code_version", "cwd", "model",
                  "output_style"}) @@
    [f \in {"tools", "slash_commands", "skills"} |-> ManyOf(Str)] @@
    [mcp_servers |-> ManyOf(SystemInitMcpServer), plugins |-> ManyOf(SystemInitPlugin),
     permissionMode |-> PermissionMode],
    [f \in {"agents", "betas", "terminal_slash_commands", "capabilities"} |-> ManyOf(Str)] @@
    [plugin_errors |-> ManyOf(SystemInitPluginError)] @@
    Texts({"fast_mode_state", "fast_mode_disabled_reason"})))
InitData(message) ==
    IF "subtype" \notin DOMAIN message[2] \/ message[2].subtype # Atom("init") THEN Skip
    ELSE Read(SystemInitData, message)

\* ResultErrorDetails::from_result_frame: what the error of an error result says.
IsBlank(v) == v \in {Atom(""), Atom(" ")}
Errors(fields) ==
    IF "errors" \notin DOMAIN fields THEN {}
    ELSE LET raw == IF fields.errors[1] = "list" THEN ToSet(fields.errors[2]) ELSE {fields.errors}
         IN  {e \in raw : e[1] = "atom" /\ ~IsBlank(e)}
Explanation(fields) ==
    IF Errors(fields) # {} THEN Errors(fields)
    ELSE IF Has(fields, "result", Str) /\ ~IsBlank(fields.result) THEN {fields.result}
    ELSE IF Has(fields, "subtype", Str) /\ fields.subtype \notin {Atom(""), Atom("success")}
    THEN {fields.subtype}
    ELSE IF "api_error_status" \in DOMAIN fields /\ fields.api_error_status # Null
    THEN {fields.api_error_status}
    ELSE {Atom("unknown error")}

-----------------------------------------------------------------------------
(* Hooks and permissions *)

Agent == Texts({"agent_id", "agent_type"})
ToolUse == [tool_name |-> Str, tool_input |-> Json]
BackgroundTaskSummary == This(Struct(Texts({"id", "type", "status", "description"}),
    Texts({"command", "agent_type", "server", "tool", "name"})))
SessionCronSummary == This(Struct(Texts({"id", "schedule", "prompt"}) @@ [recurring |-> Bool], NoFields))
AtStop == [last_assistant_message |-> Str, background_tasks |-> ManyOf(BackgroundTaskSummary),
           session_crons |-> ManyOf(SessionCronSummary)]
BaseHookInput == This(Struct(Texts({"session_id", "transcript_path", "cwd"}),
    Texts({"permission_mode", "prompt_id"}) @@ [effort |-> This(Struct(Texts({"level"}), NoFields))]))
PreToolUseHookInput == Struct(ToolUse @@ Texts({"tool_use_id"}), Agent)
PostToolUseHookInput == Struct(ToolUse @@ [tool_response |-> Json, tool_use_id |-> Str],
                               Agent @@ [duration_ms |-> Num])
PostToolUseFailureHookInput == Struct(ToolUse @@ Texts({"tool_use_id", "error"}),
                                      Agent @@ [is_interrupt |-> Bool, duration_ms |-> Num])
StopHookInput == Struct([stop_hook_active |-> Bool], AtStop)
SubagentStopHookInput ==
    Struct([stop_hook_active |-> Bool] @@ Agent @@ Texts({"agent_transcript_path"}), AtStop)
PreCompactHookInput == Struct([trigger |-> Word({"manual", "auto"})], Texts({"custom_instructions"}))
NotificationHookInput == Struct(Texts({"message", "notification_type"}), Texts({"title"}))
PermissionRequestHookInput == Struct(ToolUse, Agent @@ [permission_suggestions |-> ManyOf(Json)])
HookInputKind == [
    PreToolUse |-> PreToolUseHookInput, PostToolUse |-> PostToolUseHookInput,
    PostToolUseFailure |-> PostToolUseFailureHookInput,
    UserPromptSubmit |-> Struct(Texts({"prompt"}), NoFields),
    Stop |-> StopHookInput, SubagentStop |-> SubagentStopHookInput,
    PreCompact |-> PreCompactHookInput, Notification |-> NotificationHookInput,
    SubagentStart |-> Struct(Agent, NoFields), PermissionRequest |-> PermissionRequestHookInput]
\* HookInput::from_value: typed as far as it can be, and whole in any case.
HookInput(v) ==
    LET name == IF v[1] = "object" /\ Has(v[2], "hook_event_name", Str)
                THEN v[2].hook_event_name[2] ELSE ""
        event == IF name \in DOMAIN HookInputKind THEN Read(This(HookInputKind[name]), v) ELSE Bad
    IN  [base |-> Read(BaseHookInput, v),
         event |-> IF event = Bad THEN <<"Unknown", name>> ELSE <<name, event>>,
         raw |-> v]

\* What a hook may say of its event besides the fields all hooks have.
Says(may) == This(Struct(Texts({"hookEventName"}), may))
Context == Texts({"additionalContext"})
PreToolUseHookSpecificOutput == Says(Context @@ [updatedInput |-> Json] @@
    Texts({"permissionDecision", "permissionDecisionReason"}))
PostToolUseHookSpecificOutput ==
    Says(Context @@ Fields({"updatedToolOutput", "updatedMCPToolOutput"}))
PostToolUseFailureHookSpecificOutput == Says(Context)
UserPromptSubmitHookSpecificOutput ==
    Says(Context @@ [sessionTitle |-> Str, suppressOriginalPrompt |-> Bool])
NotificationHookSpecificOutput == Says(Context)
SubagentStartHookSpecificOutput == Says(Context)
PermissionRequestHookSpecificOutput ==
    This(Struct([hookEventName |-> Str, decision |-> Json], NoFields))
StopHookSpecificOutput == Says(Context)
SubagentStopHookSpecificOutput == Says(Context)
HookSpecificOutput == [
    PreToolUse |-> PreToolUseHookSpecificOutput, PostToolUse |-> PostToolUseHookSpecificOutput,
    PostToolUseFailure |-> PostToolUseFailureHookSpecificOutput,
    UserPromptSubmit |-> UserPromptSubmitHookSpecificOutput,
    Notification |-> NotificationHookSpecificOutput,
    SubagentStart |-> SubagentStartHookSpecificOutput,
    PermissionRequest |-> PermissionRequestHookSpecificOutput,
    Stop |-> StopHookSpecificOutput, SubagentStop |-> SubagentStopHookSpecificOutput]

ForRules == {"addRules", "replaceRules", "removeRules"}
ForDirectories == {"addDirectories", "removeDirectories"}
UpdateType == Word(ForRules \cup ForDirectories \cup {"setMode"})
UpdateField == [
    behavior |-> Word({"allow", "deny", "ask"}),
    mode |-> PermissionMode,
    destination |-> Word({"userSettings", "projectSettings", "localSettings", "session"})]
\* A rule needs its tool; a ruleContent that is no text is none.  Of a list of directories the
\* texts are taken.
ReadRule(v) == IF v[1] = "object" THEN Pick(Texts({"toolName"}), Texts({"ruleContent"}), v[2]) ELSE Bad
ReadList(fields, f) ==
    IF ~Has(fields, f, ManyOf(Json)) THEN Skip
    ELSE LET all == fields[f][2]
         IN  IF f = "rules" THEN List([k \in DOMAIN all |-> ReadRule(all[k])])
             ELSE List(SelectSeq(all, LAMBDA v : v # Null /\ Fits(Str, v)))
\* PermissionUpdate::from_wire
ReadUpdate(v) ==
    LET lists == [f \in {"rules", "directories"} |-> ReadList(v[2], f)]
        read == {f \in DOMAIN lists : lists[f] # Skip}
    IN  IF \/ v[1] # "object" \/ ~Has(v[2], "type", UpdateType)
           \/ \E f \in DOMAIN UpdateField \cap DOMAIN v[2] :
                v[2][f] # Null /\ ~Fits(UpdateField[f], v[2][f])
           \/ "rules" \in read /\ Contains(lists.rules[2], Bad)
        THEN Bad
        ELSE Both(Pick([type |-> UpdateType], UpdateField, v[2]),
                  Object([f \in read |-> lists[f]]))
\* PermissionUpdate::to_wire: what belongs to the type of the update.  (A rule without a
\* ruleContent gets a null one, which reads back as none.)
WireUpdate(u) ==
    LET belongs == CASE u[2].type[2] \in ForRules -> {"rules", "behavior"}
                     [] u[2].type[2] \in ForDirectories -> {"directories"}
                     [] OTHER -> {"mode"}
    IN  Object([f \in DOMAIN u[2] \cap (belongs \cup {"type", "destination"}) |-> u[2][f]])
=============================================================================
