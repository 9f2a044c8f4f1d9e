CONSTANTS
    Path = {main, sub}
    Resolvable = {main}
    EntryCounts = {0, 1}
    EntryBytes = 10
    MaxFrames = 2
    MaxEntries = 1
    MaxBytes = 11
    MaxAttempts = 2
    Schedulers = {"current_thread", "multi_thread"}
SPECIFICATION Spec
INVARIANTS OneOwner EagerScheduled OrderedOnOneThread NoConcurrentDuplicate
PROPERTIES FlushBarrier EventuallySettles
