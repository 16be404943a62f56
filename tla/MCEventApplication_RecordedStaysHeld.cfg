SPECIFICATION Spec
CONSTANTS
    Event = {"opened", "line removed", "completed"}
    Device = {1}
    Aggregate = {"session", "sale"}
    DeviceOf <- DeviceOfEach
    SeqOf <- SeqOfEach
    OccurredAt <- OccurredAtOfEach
    AggregateOf <- AggregateOfEach
    DependsOn <- DependsOnOfEach
    KeepsNothing = {"line removed"}
    Attachable = {"completed"}
    Breakable = {1}
    Closable = {}
    Runs = {r1}
    r1 = r1
    MaxAttempts = 1
    Limit = 2
    MaxReleases = 0
    MaxCrashes = 0
    NoEvent = NoEvent
SYMMETRY RunSymmetry
INVARIANTS RecordedStaysHeld
