CONSTANTS
    Agent = {a1}
    Ceiling = 1
    Buffer = 1
    MaxFrames = 4
    MaxQueries = 1
    Schedulers = {"current_thread", "multi_thread"}
SPECIFICATION Spec
INVARIANTS DeadlineOnlyInGap GapHasDeadline QueryReturnsRunEnding
PROPERTIES CeilingCountsGap GapEnds QuerySettles
