----------------------------- MODULE MCStoreCalls -----------------------------
(* Two sessions and a subagent, mirrored batch by batch; one of the two sessions is *)
(* also on disk, with three subagents: one has a sidecar, one is empty.             *)
EXTENDS StoreCalls

U(more) == more @@ [type |-> "user", timestamp |-> 1]
Prompt == U([texts |-> <<[kind |-> "prompt", says |-> "ask"]>>, gitBranch |-> "main"])
Command == U([texts |-> <<[kind |-> "command", says |-> "clear"],
                          [kind |-> "prompt", says |-> "go"]>>, cwd |-> "dir", gitBranch |-> "dev"])
Side == U([texts |-> <<[kind |-> "prompt", says |-> "task"]>>, isSidechain |-> TRUE])
Quoting == U([texts |-> <<[kind |-> "prompt", says |-> "look"]>>,
              before |-> [timestamp |-> 0, cwd |-> "other"],
              after |-> [customTitle |-> "input", isSidechain |-> TRUE]])
Named == [type |-> "ai-title", aiTitle |-> "ai", lastPrompt |-> "ask", timestamp |-> 2]

A == <<"p", "a">>
B == <<"p", "b">>
AgentOfA == <<"p", "a", "subagents", "x">>

MCBatches == {
    [key |-> A, entries |-> <<Tag("t"), Named, Command>>],
    [key |-> B, entries |-> <<Side>>],
    [key |-> B, entries |-> <<Prompt, Quoting>>],
    [key |-> AgentOfA, entries |-> <<Side>>]}

\* Every way to list, and every way to resume.
MCAdapters == {[list |-> l, summaries |-> s, subkeys |-> l => s] : l, s \in BOOLEAN}

MCDisk ==
    A :> [lines |-> <<Command, Named, Prompt>>, meta |-> NoMeta]
    @@ AgentOfA :> [lines |-> <<Side>>, meta |-> [agentType |-> "x", type |-> "stray"]]
    @@ <<"p", "a", "subagents", "run", "y">> :> [lines |-> <<Side, Prompt>>, meta |-> NoMeta]
    @@ <<"p", "a", "subagents", "z">> :> [lines |-> <<>>, meta |-> NoMeta]
=============================================================================
