SPECIFICATION Spec
CONSTANTS
    Event = {"opened", "line removed", "completed"}
    Device = {1}
    Aggregate = {"session", "sale"}
    DeviceOf <- DeviceOfEach
    SeqOf <- SeqOfEach
    OccurredAt <- OccurredAtOfEach
    AggregateOf <- AggregateOfEach
    DependsOn <- DependsOnOfEach
    KeepsNothing = {"line removed"}
    Attachable = {"completed"}
    Breakable = {1}
    Closable = {}
    Runs = {r1, r2}
    r1 = r1
    r2 = r2
    MaxAttempts = 2
    Limit = 1
    MaxReleases = 1
    MaxCrashes = 0
    NoEvent = NoEvent
SYMMETRY RunSymmetry
INVARIANTS TypeOK AppliedOnce DependenciesApplied AlertHasReason OwnSequenceKept
PROPERTIES RetriesAreSpaced ImplementsEventEffects
