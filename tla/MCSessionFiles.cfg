SPECIFICATION Spec
CONSTANTS
    Window = 2
    ReadDir <- MCReadDir
    FullStems = {"w"}
    Main <- MCMain
    Worktrees <- MCWorktrees
    Sessions = {"s"}
    ForkIds = {"f"}
    Agents = {"a"}
    Batches <- MCBatches
    Lines <- MCLines
    Callers = {c1, c2}
    MaxWrites = 2
    MaxCalls = 2
SYMMETRY Interchangeable
INVARIANTS
    DeletedIsGone
    WritesAreShown
CHECK_DEADLOCK FALSE
