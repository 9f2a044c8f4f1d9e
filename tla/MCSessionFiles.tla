---------------------------- MODULE MCSessionFiles ----------------------------
(* Three worktrees; the second has a long path, whose directory may bear    *)
(* another hash.  A transcript may be there twice.                          *)
EXTENDS SessionFiles

Interchangeable == Permutations(Callers)

MCMain == <<"m">>
MCReadDir == <<<<"w", "other">>, <<"w", "own">>, MCMain, <<"c">>>>
MCWorktrees == <<MCMain, <<"w", "own">>, <<"c">>>>

Prompt == [type |-> "user", texts |-> <<[kind |-> "prompt", says |-> "ask"]>>,
           after |-> [customTitle |-> "input"]]
MCBatches == {<<>>, <<Prompt, Title("old")>>}
MCLines == {Title("name"), Tag("")}
=============================================================================
