CONSTANTS
    Path = {main}
    Resolvable = {main}
    EntryCounts = {1}
    EntryBytes = 10
    MaxFrames = 2
    MaxEntries = 500
    MaxBytes = 1000
    MaxAttempts = 3
    Schedulers = {"current_thread"}
SPECIFICATION Spec
INVARIANT CloseLosesNothing
