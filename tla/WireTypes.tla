------------------------------ MODULE WireTypes ------------------------------
(***************************************************************************)
(* The JSON forms of the Messages API (types/mod.rs, types/batch.rs).      *)
(*                                                                         *)
(* A JSON value is an atom, an object or a list.  A type is described by   *)
(* its Shape, a table of what serde requires and keeps, and Read gives     *)
(* what is left of a value once it went through a type: Bad if it does not *)
(* deserialize, otherwise the value without the fields the type drops.     *)
(***************************************************************************)
EXTENDS Sequences, TLC

Atom(a) == <<"atom", a>>
Object(fields) == <<"object", fields>>
List(values) == <<"list", values>>
Bad == <<"bad">>
Tagged(tag, fields) == Object([type |-> Atom(tag)] @@ fields)
NoFields == <<>>

\* What a field may hold.
Json == <<"any">>
Str == <<"str">>
One(type) == <<"one", type>>
Many(type) == <<"many", One(type)>>
Word(words) == <<"word", words>>

\* What a type is: the fields it requires, and those it knows besides.
Struct(must, may) == <<"struct", must, may>>
Flattened(must, may) == <<"flattened", must, may>>      \* keeps unknown fields
Enum(variants) == <<"enum", variants>>                  \* by the field "type"
Either(holds) == <<"either", holds>>                    \* the first that reads
This(struct) == <<"this", struct>>                       \* a type without a name
ManyOf(holds) == <<"many", holds>>
Cached == [cache_control |-> One("CacheControl")]
Fields(names) == [n \in names |-> Json]

-----------------------------------------------------------------------------
(* Requests *)

Role == Word({"user", "assistant", "system"})
EffortLevel == Word({"low", "medium", "high", "xhigh", "max"})
CacheControl == Struct([type |-> Str], [ttl |-> Str])
ImageSource == Enum(
    [base64 |-> Struct([media_type |-> Str, data |-> Str], NoFields),
     url |-> Struct([url |-> Str], NoFields),
     file |-> Struct([file_id |-> Str], NoFields)])
ImageTransformations == Struct(NoFields, [oversized_image |-> Str])
DocumentSource == Enum(
    [base64 |-> Struct([media_type |-> Str, data |-> Str], NoFields),
     text |-> Struct([media_type |-> Str, data |-> Str], NoFields),
     url |-> Struct([url |-> Str], NoFields),
     content |-> Struct([content |-> One("Content")], NoFields),
     file |-> Struct([file_id |-> Str], NoFields)])
\* DocumentContentData, ToolResultContent, MessageContent and SystemPrompt
Content == Either(<<Str, Many("ContentBlock")>>)
ContentBlock == Enum(
    [text |-> Struct([text |-> Str], Cached),
     image |-> Struct([source |-> One("ImageSource")],
                      Cached @@ [transformations |-> One("ImageTransformations")]),
     document |-> Struct([source |-> One("DocumentSource")],
                         Cached @@ Fields({"citations", "context", "title"})),
     tool_use |-> Struct([id |-> Str, name |-> Str, input |-> Json], [toolset_name |-> Str]),
     tool_result |-> Struct([tool_use_id |-> Str, content |-> One("Content")],
                            Cached @@ Fields({"is_error", "toolset_name"})),
     thinking |-> Struct([thinking |-> Str, signature |-> Str], NoFields),
     redacted_thinking |-> Struct([data |-> Str], NoFields),
     browser_state |-> Struct([tabs |-> Many("BrowserTab")],
                              Cached @@ [state_changes |-> Many("BrowserStateChange")])])
BrowserTab == Struct([tab_id |-> Str, title |-> Str, url |-> Str], [active |-> Json])
BrowserStateChange == Enum(
    [tab_opened |-> Struct([tab_id |-> Str], NoFields),
     download_started |-> Struct([download_id |-> Str, url |-> Str], NoFields),
     download_completed |-> Struct([download_id |-> Str, url |-> Str],
                                   Fields({"path", "size_bytes"})),
     download_failed |-> Struct([download_id |-> Str, url |-> Str], [error |-> Str])])
Message == Struct([role |-> Role, content |-> One("Content")], NoFields)
Tool == Struct([name |-> Str, description |-> Str, input_schema |-> Json], Cached)
ServerTool == Flattened([type |-> Str, name |-> Str],
    [url_sources |-> One("WebFetchUrlSources")] @@
    Fields({"max_uses", "max_content_tokens", "allowed_domains", "blocked_domains", "citations",
            "allowed_callers", "response_inclusion", "use_cache"}))
WebFetchUrlSources == Struct(NoFields,
    [user_input |-> One("UrlSource"), client_tool_results |-> One("UrlSource"),
     server_tool_results |-> One("UrlSource")])
UrlSource == Enum([all |-> Struct(NoFields, NoFields), none |-> Struct(NoFields, NoFields),
                   only |-> Struct([tools |-> Many("UrlSourceTool")], NoFields),
                   except |-> Struct([tools |-> Many("UrlSourceTool")], NoFields)])
UrlSourceTool == Enum([tool_reference |-> Struct([name |-> Str], NoFields)])
Toolset == Struct([type |-> Str], Cached @@ [configs |-> Json])
ToolDefinition == Either(<<One("Tool"), One("ServerTool"), One("Toolset")>>)
ToolChoice == Enum([auto |-> Struct(NoFields, NoFields), any |-> Struct(NoFields, NoFields),
                    none |-> Struct(NoFields, NoFields), tool |-> Struct([name |-> Str], NoFields)])
ThinkingConfig == Enum(
    [enabled |-> Struct([budget_tokens |-> Json], [display |-> Str]),
     disabled |-> Struct(NoFields, NoFields), between_tools |-> Struct(NoFields, NoFields),
     adaptive |-> Struct(NoFields, Fields({"budget_tokens", "display"}))])
OutputConfig == Struct(NoFields, [effort |-> EffortLevel, format |-> One("OutputFormat")])
OutputFormat == Enum([json_schema |-> Struct([schema |-> Json], NoFields)])
CreateMessageRequest == Struct(
    [model |-> Str, max_tokens |-> Json, messages |-> Many("Message")],
    [system |-> One("Content"), tools |-> Many("ToolDefinition"), tool_choice |-> One("ToolChoice"),
     cache_control |-> One("CacheControl"), output_config |-> One("OutputConfig"),
     thinking |-> One("ThinkingConfig"), stop_sequences |-> Json] @@
    Fields({"stream", "metadata", "service_tier", "speed", "diagnostics"}))
CountTokensRequest == Struct([model |-> Str, messages |-> Many("Message")],
    [system |-> One("Content"), tools |-> Many("ToolDefinition"),
     thinking |-> One("ThinkingConfig"), tool_choice |-> One("ToolChoice"), speed |-> Str])

-----------------------------------------------------------------------------
(* Responses *)

ResponseContentBlock == Enum(
    [text |-> Struct([text |-> Str], [citations |-> Many("Citation")]),
     tool_use |-> Struct([id |-> Str, name |-> Str, input |-> Json], [toolset_name |-> Str]),
     server_tool_use |-> Struct([id |-> Str, name |-> Str, input |-> Json], NoFields),
     web_fetch_tool_result |-> Struct([tool_use_id |-> Str, content |-> Json], NoFields),
     thinking |-> Struct([thinking |-> Str], [signature |-> Str]),
     redacted_thinking |-> Struct([data |-> Str], NoFields)])
Located(from, to) == Struct(Fields({"cited_text", "document_index", from, to}),
                            Fields({"document_title"}))
Citation == Enum(
    [char_location |-> Located("start_char_index", "end_char_index"),
     page_location |-> Located("start_page_number", "end_page_number"),
     content_block_location |-> Located("start_block_index", "end_block_index"),
     web_search_result_location |->
        Struct(Fields({"cited_text", "url"}), Fields({"title", "encrypted_index"})),
     search_result_location |->
        Struct(Fields({"cited_text", "start_block_index", "end_block_index",
                       "search_result_index"}),
               Fields({"title", "source"}))])
Usage == Struct(NoFields, Fields({"input_tokens", "output_tokens", "cache_creation_input_tokens",
                                  "cache_read_input_tokens", "output_tokens_details", "speed"}))
StopDetails == Struct([type |-> Str], Fields({"category", "explanation"}))
CreateMessageResponse == Struct(
    [id |-> Str, model |-> Str, role |-> Role, content |-> Many("ResponseContentBlock"),
     usage |-> One("Usage")],
    [stop_details |-> One("StopDetails")] @@
    Fields({"type", "stop_reason", "stop_sequence", "diagnostics"}))
CountTokensResponse == Struct([input_tokens |-> Json], NoFields)
ApiErrorBody == Struct([type |-> Str, error |-> One("StreamError")], NoFields)
StreamEvent == Enum(
    [message_start |-> Struct([message |-> One("CreateMessageResponse")], NoFields),
     content_block_start |->
        Struct([index |-> Json, content_block |-> One("StreamContentBlock")], NoFields),
     content_block_delta |-> Struct([index |-> Json, delta |-> One("ContentDelta")], NoFields),
     content_block_stop |-> Struct([index |-> Json], NoFields),
     message_delta |-> Struct([delta |-> One("MessageDeltaData")], [usage |-> One("Usage")]),
     message_stop |-> Struct(NoFields, NoFields), ping |-> Struct(NoFields, NoFields),
     error |-> Struct([error |-> One("StreamError")], NoFields)])
StreamContentBlock == Enum(
    [text |-> Struct([text |-> Str], NoFields),
     tool_use |-> Struct([id |-> Str, name |-> Str, input |-> Json], [toolset_name |-> Str]),
     thinking |-> Struct([thinking |-> Str], NoFields)])
ContentDelta == Enum(
    [text_delta |-> Struct([text |-> Str], NoFields),
     input_json_delta |-> Struct([partial_json |-> Str], NoFields),
     thinking_delta |-> Struct([thinking |-> Str], NoFields),
     signature_delta |-> Struct([signature |-> Str], NoFields)])
MessageDeltaData == Struct(NoFields,
    [stop_reason |-> Str, stop_sequence |-> Str, stop_details |-> One("StopDetails")])
\* Also ApiErrorDetail and BatchError.
StreamError == Struct([type |-> Str, message |-> Str], NoFields)


BatchStatus == Word({"in_progress", "canceling", "ended"})
BatchResponse == Struct(
    [id |-> Str, processing_status |-> BatchStatus, request_counts |-> Json, created_at |-> Str,
     expires_at |-> Str],
    Fields({"type", "ended_at", "results_url", "cancel_initiated_at", "archived_at"}))
ListBatchesResponse == Struct([data |-> Many("BatchResponse"), has_more |-> Json],
                              Fields({"first_id", "last_id"}))
BatchResultBody == Enum(
    [succeeded |-> Struct([message |-> One("CreateMessageResponse")], NoFields),
     errored |-> Struct(NoFields, [error |-> One("StreamError")]),
     canceled |-> Struct(NoFields, NoFields), expired |-> Struct(NoFields, NoFields)])
BatchResult == Struct([custom_id |-> Str, result |-> One("BatchResultBody")], NoFields)

-----------------------------------------------------------------------------
Shape == [
    CacheControl |-> CacheControl, ImageSource |-> ImageSource,
    ImageTransformations |-> ImageTransformations, DocumentSource |-> DocumentSource,
    Content |-> Content, ContentBlock |-> ContentBlock, BrowserTab |-> BrowserTab,
    BrowserStateChange |-> BrowserStateChange, Message |-> Message, Tool |-> Tool,
    ServerTool |-> ServerTool, WebFetchUrlSources |-> WebFetchUrlSources, UrlSource |-> UrlSource,
    UrlSourceTool |-> UrlSourceTool, Toolset |-> Toolset, ToolDefinition |-> ToolDefinition,
    ToolChoice |-> ToolChoice, ThinkingConfig |-> ThinkingConfig, OutputConfig |-> OutputConfig,
    OutputFormat |-> OutputFormat, ResponseContentBlock |-> ResponseContentBlock,
    Citation |-> Citation, Usage |-> Usage, StopDetails |-> StopDetails,
    CreateMessageResponse |-> CreateMessageResponse, CountTokensResponse |-> CountTokensResponse,
    ApiErrorBody |-> ApiErrorBody, StreamEvent |-> StreamEvent,
    StreamContentBlock |-> StreamContentBlock, ContentDelta |-> ContentDelta,
    MessageDeltaData |-> MessageDeltaData, StreamError |-> StreamError,
    BatchResponse |-> BatchResponse, ListBatchesResponse |-> ListBatchesResponse,
    BatchResultBody |-> BatchResultBody, BatchResult |-> BatchResult]

\* The fields of a shape, and those it requires: an enum has those of its variant.
Fit(shape, fields) == shape[1] # "enum" \/
    ("type" \in DOMAIN fields /\ fields.type \in {Atom(tag) : tag \in DOMAIN shape[2]})
Known(shape, fields) ==
    IF shape[1] = "enum"
    THEN LET variant == shape[2][fields.type[2]]
         IN  [must |-> variant[2] @@ [type |-> Str], may |-> variant[3]]
    ELSE [must |-> shape[2], may |-> shape[3]]

RECURSIVE Fits(_, _), Kept(_, _)

\* A value deserializes.
Fits(holds, v) ==
    CASE holds = Json -> v # Bad
      [] holds = Str -> v[1] = "atom"
      [] holds[1] = "word" -> v[1] = "atom" /\ v[2] \in holds[2]
      [] holds[1] = "many" -> v[1] = "list" /\ \A k \in DOMAIN v[2] : Fits(holds[2], v[2][k])
      [] holds[1] = "one" -> Fits(This(Shape[holds[2]]), v)
      [] holds[1] = "this" ->
            LET shape == holds[2]
            IN  IF shape[1] = "either" THEN \E k \in DOMAIN shape[2] : Fits(shape[2][k], v)
                ELSE /\ v[1] = "object" /\ Fit(shape, v[2])
                     /\ LET known == Known(shape, v[2])
                        IN  /\ DOMAIN known.must \subseteq DOMAIN v[2]
                            /\ \A f \in DOMAIN v[2] \cap DOMAIN (known.must @@ known.may) :
                                    Fits((known.must @@ known.may)[f], v[2][f])

\* What a type keeps of a value that fits.
Kept(holds, v) ==
    CASE holds[1] = "many" -> List([k \in DOMAIN v[2] |-> Kept(holds[2], v[2][k])])
      [] holds[1] = "one" -> Kept(This(Shape[holds[2]]), v)
      [] holds[1] = "this" ->
            LET shape == holds[2]
            IN  IF shape[1] = "either"
                THEN Kept(SelectSeq(shape[2], LAMBDA h : Fits(h, v))[1], v)
                ELSE LET known == Known(shape, v[2])
                         fields == known.must @@ known.may
                         kept == [f \in DOMAIN v[2] \cap DOMAIN fields |-> Kept(fields[f], v[2][f])]
                     IN  Object(IF shape[1] = "flattened" THEN kept @@ v[2] ELSE kept)
      [] OTHER -> v

Read(holds, v) == IF Fits(holds, v) THEN Kept(holds, v) ELSE Bad

=============================================================================
