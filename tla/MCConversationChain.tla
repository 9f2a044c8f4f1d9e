------------------------- MODULE MCConversationChain -------------------------
(* Transcripts of up to five entries: two responses, two calls. *)
EXTENDS ForkTranscript

S(t, m, cs, as, src, w, h) ==
    [type |-> t, mid |-> m, calls |-> cs, answers |-> as, sourced |-> src,
     writer |-> w, meta |-> h, team |-> FALSE]

MCShape == {
    S("user", None, {}, {}, FALSE, "main", FALSE),
    S("progress", None, {}, {}, FALSE, "main", FALSE),
    S("assistant", 1, {1}, {}, FALSE, "main", FALSE),
    S("assistant", 1, {2}, {}, FALSE, "main", FALSE),
    S("assistant", 2, {2}, {}, FALSE, "main", FALSE),
    S("user", None, {}, {1}, FALSE, "main", FALSE),
    S("user", None, {}, {2}, FALSE, "main", FALSE),
    S("user", None, {}, {2}, TRUE, "side", FALSE)}
=============================================================================
