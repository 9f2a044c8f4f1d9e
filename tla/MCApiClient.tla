----------------------------- MODULE MCApiClient -----------------------------
EXTENDS ApiClient
Text(t) == Tagged("text", [text |-> Atom(t)])
Cache == Object([type |-> Atom("ephemeral")])
CachedText == Tagged("text", [text |-> Atom("t"), cache_control |-> Cache])
Image == Tagged("image", [source |-> Tagged("url", [url |-> Atom("u")])])
Document == Tagged("document", [source |-> Tagged("content", [content |-> List(<<Image>>)])])
Use == Tagged("tool_use", [id |-> Atom("i"), name |-> Atom("n"), input |-> Object(NoFields)])
ToolResult == Tagged("tool_result", [tool_use_id |-> Atom("i"), content |-> List(<<Text("t"), Image>>)])
Browser == Tagged("browser_state",
    [tabs |-> List(<<Object([tab_id |-> Atom("1"), title |-> Atom("t"), url |-> Atom("u")])>>),
     state_changes |-> List(<<Tagged("tab_opened", [tab_id |-> Atom("1")])>>)])
Said(role, content) == Object([role |-> Atom(role), content |-> content])
Custom == Object([name |-> Atom("n"), description |-> Atom("d"), input_schema |-> Object(NoFields)])
Fetch == Object([type |-> Atom("web_fetch_20250910"), name |-> Atom("web_fetch"),
                 url_sources |-> Object([user_input |-> Tagged("only",
                     [tools |-> List(<<Tagged("tool_reference", [name |-> Atom("n")])>>)])]),
                 later |-> Atom("a field the type does not know")])
Computer == Object([type |-> Atom("computer_toolset_20260801"), cache_control |-> Cache])
MCGiven == [
    model |-> {Atom("m"), Atom("later m")}, max_tokens |-> {Atom("n")},
    message |-> {Said("system", Atom("t")), Said("user", List(<<Document, ToolResult, Browser>>)),
                 Said("assistant", List(<<Tagged("thinking", [thinking |-> Atom("t"), signature |-> Atom("s")]),
                                          Tagged("redacted_thinking", [data |-> Atom("d")]), Use>>))},
    system |-> {Atom("s")}, system_with_cache |-> {CachedText},
    stop_sequences |-> {List(<<Atom("x")>>)}, stream |-> {Atom("true")},
    tool |-> {Custom, Fetch, Computer}, tools |-> {List(<<Fetch, Custom>>)},
    tool_choice |-> {Tagged("tool", [name |-> Atom("n")])},
    thinking |-> {Tagged("adaptive", [display |-> Atom("d")])},
    metadata |-> {Object([user_id |-> Atom("u")])}, cache_control |-> {Cache},
    effort |-> {Atom("xhigh")}, json_schema |-> {Object(NoFields)},
    service_tier |-> {Atom("t")}, speed |-> {Atom("fast")},
    diagnostics |-> {Object([previous_message_id |-> Atom("m")])}]
Basic == <<<<"model", Atom("m")>>, <<"max_tokens", Atom("n")>>, <<"message", Said("user", Atom("t"))>>>>
MCDrafts == {<<>>, Basic}
Reply(content) == Object([id |-> Atom("i"), model |-> Atom("m"), role |-> Atom("assistant"),
                          content |-> List(content), usage |-> Object(NoFields)])
Cited == Tagged("text", [text |-> Atom("t"), citations |-> List(<<Tagged("char_location",
    [cited_text |-> Atom("t"), document_index |-> Atom("0"), start_char_index |-> Atom("0"),
     end_char_index |-> Atom("1")])>>)])
MCReplies == {Reply(<<Tagged("thinking", [thinking |-> Atom("t")]), Use, Cited>>),
              Reply(<<Tagged("mcp_tool_use", NoFields)>>)}
Succeeded(content) == Object([custom_id |-> Atom("r"),
                              result |-> Tagged("succeeded", [message |-> Reply(content)])])
MCResultLines == {<<Succeeded(<<Text("t")>>), Succeeded(<<Tagged("mcp_tool_use", NoFields)>>),
                    Object([custom_id |-> Atom("q"), result |-> Tagged("expired", NoFields)])>>}
Delta == Tagged("content_block_delta", [index |-> Atom("0"), delta |-> Tagged("text_delta", [text |-> Atom("t")])])
Redacted == Tagged("content_block_start", [index |-> Atom("0"),
                content_block |-> Tagged("redacted_thinking", [data |-> Atom("d")])])
Stop == Tagged("message_stop", NoFields)
Terminated(events) == FlattenSeq([k \in DOMAIN events |-> Append(Line(events[k]), NL)])
MCBodies == {Terminated(<<Nothing, Delta, Redacted>>) \o Line(Stop), Terminated(<<Delta, Stop, Nothing, Done>>)}
MCSources == {<<Delta, ParseError, Stop>>}
MCClients == {[custom |-> FALSE, beta |-> TRUE, workspace |-> TRUE, profile |-> TRUE,
               extra |-> {"x-gateway", "authorization"}],
              [custom |-> FALSE, beta |-> FALSE, workspace |-> FALSE, profile |-> FALSE, extra |-> {}],
              [custom |-> TRUE, beta |-> FALSE, workspace |-> FALSE, profile |-> FALSE, extra |-> {}]}
=============================================================================
