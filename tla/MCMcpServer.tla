----------------------------- MODULE MCMcpServer -----------------------------
(* Calls and cancellations of one id, next to a call of another. *)
EXTENDS McpServer

M(m, i, n) == [method |-> m, id |-> i, name |-> n]
MCMessage == {
    M("tools/call", "5", "slow"), M("tools/call", "6", "slow"),
    M("tools/call", "5", "gone"), M("tools/call", "6", NoTool),
    M("notifications/cancelled", "5", NoTool), M("ping", "6", NoTool),
    M("unknown", "6", NoTool)}
MCOutcome == {"error", <<"text", "blob", "link", "image">>}
=============================================================================
