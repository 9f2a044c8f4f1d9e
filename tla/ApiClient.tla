------------------------------ MODULE ApiClient ------------------------------
(***************************************************************************)
(* The client of the Messages API: the request builder (client/builder.rs),*)
(* the calls of ClaudeClient (client/mod.rs) and BatchClient (batch/mod.rs)*)
(* over HTTP or a custom transport (transport.rs), and the loop that polls *)
(* a batch, next to a server that works on the batch and to others that    *)
(* cancel it.                                                              *)
(***************************************************************************)
EXTENDS SseStream, FiniteSetsExt

CONSTANTS
    Given,          \* Given[s]: the values an application gives the setter s
    Drafts,         \* calls of setters that come first, each a sequence
    MaxSetters,     \* bound on the setters called after them
    Replies,        \* what the server answers a message with
    ResultLines,    \* the lines of the results of a batch
    Clients,        \* how the client is configured: records of the five fields below
    Overridden,     \* the operations a custom transport implements
    Day,            \* 24 hours, in units of time
    Intervals,      \* the intervals between two polls, in the same units
    MaxCalls        \* bound on the calls

ASSUME ApiAssumption ==
    /\ Clients \subseteq [custom : BOOLEAN, beta : BOOLEAN, workspace : BOOLEAN,
                          profile : BOOLEAN, extra : SUBSET STRING]
    /\ Day \in Nat \ {0} /\ Intervals \subseteq Nat /\ MaxSetters \in Nat /\ MaxCalls \in Nat

VARIABLES
    draft,          \* MessageBuilder
    given,          \* history: what its setters were called with, <<setter, value>> in order
    client,         \* ClaudeClient
    pc,             \* "idle", "sent", "answered", "sleeping"
    op,             \* the call that is under way, or the last
    request,        \* what is on the wire
    answer,         \* the response: [status, body]
    interval, polls, waited,    \* of poll_until_complete
    outcome,        \* what the last call returned
    calls,
    job             \* the batch at the server
vars == <<draft, given, client, pc, op, request, answer, interval, polls, waited, outcome,
          calls, job, streamVars>>
callVars == <<pc, op, request, answer, interval, polls, waited, outcome, calls>>

NoRequest == [op |-> "none", headers |-> NoFields, body |-> Bad]
NoAnswer == [status |-> 0, body |-> Bad]        \* also: the connection failed
NoDraft == NoFields

-----------------------------------------------------------------------------
(* MessageBuilder: a setter sets a field, or adds to a list *)

Field(d, f) == IF f \in DOMAIN d THEN d[f] ELSE Nothing
Put(d, f, v) == [x \in {f} |-> v] @@ d
Push(d, f, v) == Put(d, f, IF f \in DOMAIN d THEN List(Append(d[f][2], v)) ELSE List(<<v>>))
\* MUTANT of Merge: the object is made anew.
MergeAnew(d, f, fields) == Put(d, f, Object(fields))
Merge(d, f, fields) == Put(d, f, Object(fields @@ (IF f \in DOMAIN d THEN d[f][2] ELSE NoFields)))

\* The setters that replace a field: model, max_tokens, system, tools, thinking and others.
Replacing == {"model", "max_tokens", "system", "stop_sequences", "stream", "tools", "tool_choice",
              "thinking", "metadata", "cache_control", "service_tier", "speed", "diagnostics"}
\* The name of the list that a setter adds to: user, assistant, message; tool, server_tool, toolset.
ListOf == [message |-> "messages", tool |-> "tools"]

\* A block for the prompt cache joins other blocks, and replaces a prompt of plain text.
SystemWithCache(d, block) ==
    IF Field(d, "system")[1] = "list" THEN Push(d, "system", block)
    ELSE Put(d, "system", List(<<block>>))

SetTo(d, s, v) ==
    CASE s \in Replacing -> Put(d, s, v)
      [] s \in DOMAIN ListOf -> Push(d, ListOf[s], v)
      [] s = "system_with_cache" -> SystemWithCache(d, v)
      [] s = "effort" -> Merge(d, "output_config", [effort |-> v])
      [] s = "json_schema" ->
            Merge(d, "output_config", [format |-> Tagged("json_schema", [schema |-> v])])

SetAll(calls_) == FoldLeft(LAMBDA d, c : SetTo(d, c[1], c[2]), NoDraft, calls_)

\* What a setter takes, by the types of the request.
Takes(s) ==
    CASE s = "message" -> One("Message")
      [] s = "tool" -> One("ToolDefinition")
      [] s = "system" -> Str
      [] s = "system_with_cache" -> One("ContentBlock")
      [] s = "effort" -> OutputConfig[3].effort
      [] s = "json_schema" -> Json
      [] OTHER -> (CreateMessageRequest[2] @@ CreateMessageRequest[3])[s]
ASSUME GivenAssumption ==
    /\ DOMAIN Given \subseteq Replacing \cup DOMAIN ListOf
                              \cup {"system_with_cache", "effort", "json_schema"}
    /\ \A s \in DOMAIN Given : \A v \in Given[s] : Read(Takes(s), v) = v

\* An application that comes back to a batch builds nothing.
Setter ==
    /\ calls = 0 /\ job = "none"
    /\ \E first \in Drafts : IsPrefix(first, given) /\ Len(given) < Len(first) + MaxSetters
    /\ \E s \in DOMAIN Given : \E v \in Given[s] :
            draft' = SetTo(draft, s, v) /\ given' = Append(given, <<s, v>>)
    /\ UNCHANGED <<client, callVars, job, streamVars>>

\* build: a model, max_tokens and a message are required.
CanBuild(d) == {"model", "max_tokens", "messages"} \subseteq DOMAIN d

-----------------------------------------------------------------------------
(* What goes over the wire *)

MessageOps == {"create_message", "create_message_stream", "count_tokens", "create_message_raw",
               "create_message_stream_raw"}
Streaming == {"create_message_stream", "create_message_stream_raw"}
Raw == {"create_message_raw", "create_message_stream_raw"}
BatchOps == {"create_batch", "retrieve_batch", "list_batches", "batch_results", "cancel_batch",
             "poll"}
Attributed == MessageOps \cup {"create_batch"}

\* build_headers and build_attributed_headers: a name and who set it; the client's own win.
Headers(o) ==
    LET own == {"content-type", "anthropic-version", "authorization"}
               \cup (IF client.beta THEN {"anthropic-beta"} ELSE {})
               \cup (IF client.workspace THEN {"anthropic-workspace-id"} ELSE {})
               \cup (IF client.profile /\ o \in Attributed THEN {"anthropic-user-profile-id"} ELSE {})
    IN  [h \in own \cup client.extra |-> IF h \in own THEN "client" ELSE "extra"]

\* The bodies an operation may be called with; streaming is forced over HTTP.  A raw body is
\* any JSON.
MessageBody(o) ==
    Object(IF o \in Streaming /\ ~client.custom THEN Put(draft, "stream", Atom("true")) ELSE draft)
BodiesOf(o) ==
    CASE o \in Raw -> {MessageBody(o), List(<<>>)}
      [] o = "count_tokens" ->
            {Object([f \in DOMAIN draft \cap
                           DOMAIN (CountTokensRequest[2] @@ CountTokensRequest[3]) |-> draft[f]])}
      [] o = "create_batch" ->
            {Object([requests |->
                List(<<Object([custom_id |-> Atom("r"), params |-> Object(draft)])>>)])}
      [] o \in MessageOps \ Raw -> {MessageBody(o)}
      [] OTHER -> {Object(NoFields)}

ResponseType(o) ==
    CASE o = "create_message" -> One("CreateMessageResponse")
      [] o = "count_tokens" -> One("CountTokensResponse")
      [] o = "list_batches" -> One("ListBatchesResponse")
      [] o = "create_message_raw" -> Json
      [] OTHER -> One("BatchResponse")

\* A custom transport gets the request itself, without headers.
Send(o, b) ==
    /\ pc' = "sent"
    /\ request' = [op |-> o, headers |-> IF client.custom THEN NoFields ELSE Headers(o), body |-> b]
    /\ UNCHANGED <<outcome, answer>>
Retrieve == Send("retrieve_batch", Object(NoFields))

-----------------------------------------------------------------------------
(* Calls *)

Return(result) ==
    /\ outcome' = result /\ pc' = "idle"
    /\ request' = NoRequest /\ answer' = NoAnswer

\* poll_until_complete makes this many polls at most.
MaxIterations(i) == Day \div Max({i, 1})

\* The next round of the loop, or its end.
PollAgain(i, made) ==
    IF made < MaxIterations(i) THEN Retrieve
    ELSE Return(<<"error", "batch timeout">>)

\* Raw calls do not go through a custom transport; others are Unsupported unless it has them.
Supported(o) == ~client.custom \/ o \in Overridden
\* The default poll of a transport goes on over its retrieve_batch.
Refused(o) ==
    IF o = "poll" THEN ~Supported("retrieve_batch") /\ MaxIterations(interval') > 0
    ELSE ~Supported(o) \/ (client.custom /\ o \in Raw)

NeedsDraft == MessageOps \cup {"create_batch"}

Call(o) ==
    /\ pc = "idle" /\ calls < MaxCalls /\ stream = "closed"
    /\ o \in NeedsDraft <=> draft # NoDraft
    /\ o = "count_tokens" => {"model", "messages"} \subseteq DOMAIN draft
    /\ calls' = calls + 1 /\ op' = o /\ polls' = 0 /\ waited' = 0
    /\ interval' \in (IF o = "poll" THEN Intervals ELSE {0})
    /\ draft' = NoDraft /\ given' = <<>>
    /\ \E b \in BodiesOf(o) :
        CASE o \in NeedsDraft \ (Raw \cup {"count_tokens"}) /\ ~CanBuild(draft) ->
                Return(<<"error", "invalid config">>)
          [] Refused(o) -> Return(<<"error", "unsupported">>)
          [] o = "create_message_stream_raw" /\ b[1] # "object" ->
                Return(<<"error", "invalid config">>)
          [] o = "poll" -> PollAgain(interval', 0)
          [] o = "batch_results" /\ ~client.custom -> Retrieve
          [] OTHER -> Send(o, b)
    /\ UNCHANGED <<client, job, streamVars>>

\* A 2xx answer is read as JSON, another as an ApiErrorBody if it is one; a download of
\* results has an error of its own.
Success == answer.status \in 200..299
ErrorOf == IF answer.status = 0 THEN "network"
           ELSE IF request.op = "batch_results" /\ ~client.custom THEN "api, batch results"
           ELSE IF Fits(One("ApiErrorBody"), answer.body) THEN "api" ELSE "api, unknown"
Decoded(holds) ==
    IF Fits(holds, answer.body) THEN <<"ok", Read(holds, answer.body)>>
    ELSE <<"error", "serialization">>

ReadFailure ==
    /\ pc = "answered" /\ ~Success
    /\ Return(<<"error", ErrorOf>>)
    /\ UNCHANGED <<op, interval, polls, waited, calls, draft, given, client, job, streamVars>>

ReadAnswer ==
    /\ pc = "answered" /\ Success
    /\ op \notin Streaming \cup {"poll", "batch_results"}
    /\ Return(Decoded(ResponseType(op)))
    /\ UNCHANGED <<op, interval, polls, waited, calls, draft, given, client, job, streamVars>>

StartStream ==
    /\ pc = "answered" /\ Success /\ op \in Streaming
    /\ IF client.custom THEN \E items \in Sources : OpenStream("custom", items)
       ELSE \E bytes \in Bodies : OpenStream(IF op \in Raw THEN "raw" ELSE "typed", bytes)
    /\ Return(<<"ok", op>>)
    /\ UNCHANGED <<op, interval, polls, waited, calls, draft, given, client, job>>

\* The status in a batch the server answered with.
Status(batch) == batch[2].processing_status[2]

\* A loop that takes the request to cancel for its end.
ReadPollCanceling ==
    /\ pc = "answered" /\ Success /\ op = "poll"
    /\ polls' = polls + 1
    /\ LET read == Decoded(One("BatchResponse"))
       IN  IF read[1] = "error" \/ Status(read[2]) # "in_progress" THEN Return(read)
           ELSE pc' = "sleeping" /\ UNCHANGED <<outcome, request, answer>>
    /\ UNCHANGED <<op, interval, waited, calls, draft, given, client, job, streamVars>>
ReadPoll ==
    /\ pc = "answered" /\ Success /\ op = "poll"
    /\ polls' = polls + 1
    /\ LET read == Decoded(One("BatchResponse"))
       IN  IF read[1] = "error" \/ Status(read[2]) = "ended" THEN Return(read)
           ELSE pc' = "sleeping" /\ UNCHANGED <<outcome, request, answer>>
    /\ UNCHANGED <<op, interval, waited, calls, draft, given, client, job, streamVars>>

Wake ==
    /\ pc = "sleeping"
    /\ waited' = waited + interval
    /\ PollAgain(interval, polls)
    /\ UNCHANGED <<op, interval, polls, calls, draft, given, client, job, streamVars>>

\* results: the batch names the address of its results, lines that do not read are skipped.
ReadResults ==
    /\ pc = "answered" /\ Success /\ op = "batch_results"
    /\ LET batch == Decoded(One("BatchResponse"))
           read(line) == Read(One("BatchResult"), line)
       IN  IF request.op = "retrieve_batch" THEN
               IF batch[1] = "error" THEN Return(batch)
               ELSE IF "results_url" \notin DOMAIN batch[2][2]
                    THEN Return(<<"error", "invalid config">>)
               ELSE Send("batch_results", Object(NoFields))
           ELSE Return(<<"ok", List(SelectSeq([k \in DOMAIN answer.body[2] |->
                                                  read(answer.body[2][k])],
                                              LAMBDA result : result # Bad))>>)
    /\ UNCHANGED <<op, interval, polls, waited, calls, draft, given, client, job, streamVars>>

-----------------------------------------------------------------------------
(* The server, and others who use the batch *)

JobForm ==
    Object([id |-> Atom("b"), processing_status |-> Atom(job), request_counts |-> Atom("counts"),
            created_at |-> Atom("t"), expires_at |-> Atom("t")] @@
           (IF job = "ended" THEN [results_url |-> Atom("url")] ELSE NoFields))

Answers(o) ==
    CASE o \in {"create_message", "create_message_raw"} ->
            IF request.body[1] # "object" THEN {}
            ELSE IF Field(request.body[2], "stream") = Atom("true") THEN {Bad} ELSE Replies
      [] o = "count_tokens" -> {Object([input_tokens |-> Atom("n")])}
      [] o \in Streaming -> {Bad}
      [] o = "list_batches" -> 
            {Object([data |-> List(IF job = "none" THEN <<>> ELSE <<JobForm>>),
                     has_more |-> Atom("false")])}
      [] o = "batch_results" -> {List(lines_) : lines_ \in ResultLines}
      [] OTHER -> {JobForm'}
Failures == {NoAnswer, [status |-> 529, body |-> Bad],
             [status |-> 400, body |-> Object([type |-> Atom("error"), error |->
                 Object([type |-> Atom("t"), message |-> Atom("m")])])]}

Serve ==
    /\ pc = "sent"
    /\ pc' = "answered"
    /\ LET o == request.op
       IN  \/ /\ job' = CASE o = "create_batch" /\ job = "none" -> "in_progress"
                          [] o = "cancel_batch" /\ job = "in_progress" -> "canceling"
                          [] OTHER -> job
              /\ o \in BatchOps \ {"list_batches"} => job' # "none"
              /\ answer' \in {[status |-> 200, body |-> b] : b \in Answers(o)}
           \/ answer' \in Failures /\ UNCHANGED job
    /\ UNCHANGED <<op, request, interval, polls, waited, outcome, calls, draft, given, client,
                   streamVars>>

JobMoves ==
    /\ \/ job = "in_progress" /\ job' \in {"canceling", "ended"}
       \/ job = "canceling" /\ job' = "ended"
    /\ UNCHANGED <<draft, given, client, callVars, streamVars>>

-----------------------------------------------------------------------------
Init ==
    /\ client \in Clients
    /\ pc = "idle" /\ op = "none" /\ request = NoRequest /\ answer = NoAnswer
    /\ interval = 0 /\ polls = 0 /\ waited = 0 /\ outcome = <<"none">> /\ calls = 0
    \* An application builds a message, or comes back to a batch.
    /\ \/ given \in Drafts /\ job = "none"
       \/ given = <<>> /\ job = "in_progress"
    /\ draft = SetAll(given)
    /\ StreamInit

ReadStep == ReadFailure \/ ReadAnswer \/ StartStream \/ ReadPoll \/ ReadResults \/ Wake

Next ==
    \/ Setter
    \/ \E o \in MessageOps \cup BatchOps : Call(o)
    \/ ReadStep \/ Serve \/ JobMoves
    \/ StreamStep /\ UNCHANGED <<draft, given, client, callVars, job>>

\* The server answers, the client goes on with a call it began, and the application goes on
\* polling a stream it opened.
Spec ==
    /\ Init /\ [][Next]_vars
    /\ WF_vars(ReadStep) /\ WF_vars(Serve)
    /\ WF_vars(StreamStep /\ UNCHANGED <<draft, given, client, callVars, job>>)

-----------------------------------------------------------------------------
(* Properties *)

\* Whatever chunks the network makes of a response, and whenever the application drops a poll
\* and polls again, the stream yields every item once and in order, reports a connection that
\* fails once, and ends.
DeliversEvents == Events!Spec

\* The calls of some setters, what the last of a setter was given, and those after it.
CallsOf(g, names) == SelectSeq(g, LAMBDA c : c[1] \in names)
LastOf(g, s) == LET c == CallsOf(g, {s}) IN IF c = <<>> THEN Nothing ELSE Last(c)[2]
Behind(g, s) == SubSeq(g, Max({0} \cup {k \in DOMAIN g : g[k][1] = s}) + 1, Len(g))
ValuesOf(g) == [k \in DOMAIN g |-> g[k][2]]
ListIfAny(values) == IF values = <<>> THEN Nothing ELSE List(values)

\* A body has everything the setters were given and nothing else: each field the last value
\* given for it; all messages in their order; of the tools the last list and those added
\* behind it; the last effort next to the last format; as the prompt the blocks given since
\* the last plain one, or that one if there are none.
HasAllGiven(fields, g) ==
    LET has(f) == Field(fields, f)
        tools == LastOf(g, "tools")
        blocks == ValuesOf(CallsOf(Behind(g, "system"), {"system_with_cache"}))
        effort == LastOf(g, "effort")
        schema == LastOf(g, "json_schema")
        config == (IF effort = Nothing THEN NoFields ELSE [effort |-> effort]) @@
                  (IF schema = Nothing THEN NoFields
                   ELSE [format |-> Tagged("json_schema", [schema |-> schema])])
    IN  /\ DOMAIN fields \subseteq Replacing \cup {"messages", "output_config"}
        /\ \A f \in Replacing \ {"system", "tools"} : has(f) = LastOf(g, f)
        /\ has("messages") = ListIfAny(ValuesOf(CallsOf(g, {"message"})))
        /\ has("tools") =
             IF tools = Nothing THEN ListIfAny(ValuesOf(CallsOf(g, {"tool"})))
             ELSE List(tools[2] \o ValuesOf(CallsOf(Behind(g, "tools"), {"tool"})))
        /\ has("system") = IF blocks = <<>> THEN LastOf(g, "system") ELSE List(blocks)
        /\ has("output_config") = IF config = NoFields THEN Nothing ELSE Object(config)

\* In whatever order the setters were called, and however often, the message that goes on the
\* wire, alone or in a batch, has all they were given: the builder loses nothing of it, except
\* for a plain prompt that a cached block follows, whose place the block takes
\* (MessageBuilder::system_with_cache).  A call that streams over HTTP asks for a stream besides.
RequestArrives ==
    [][pc = "idle" /\ pc' = "sent" =>
        LET fields == request'.body[2]
            streamed == IF client.custom THEN given ELSE Append(given, <<"stream", Atom("true")>>)
        IN  CASE request'.op = "create_message" -> HasAllGiven(fields, given)
              [] request'.op = "create_message_stream" -> HasAllGiven(fields, streamed)
              [] request'.op = "create_batch" ->
                    HasAllGiven(fields.requests[2][1][2].params[2], given)
              [] OTHER -> TRUE]_vars

\* A poll returns, whatever the batch does meanwhile: with a batch that has ended at the server,
\* or because no poll saw it ended while a day less one interval went by, or because a single
\* request failed.
PollEnds ==
    /\ [](op = "poll" /\ pc = "idle" =>
            \/ outcome[1] = "ok" /\ Status(outcome[2]) = "ended" /\ job = "ended"
            \/ outcome = <<"error", "batch timeout">> /\ (polls + 1) * Max({interval, 1}) > Day
            \/ outcome[1] = "error" /\ outcome # <<"error", "batch timeout">>)
    /\ (pc # "idle" ~> pc = "idle")

=============================================================================
