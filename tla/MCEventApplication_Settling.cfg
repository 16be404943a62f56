SPECIFICATION FairSpec
CONSTANTS
    Event = {"opened", "completed"}
    Device = {1}
    Aggregate = {"session", "sale"}
    DeviceOf <- DeviceOfEach
    SeqOf <- SeqOfEach
    OccurredAt <- OccurredAtOfEach
    AggregateOf <- AggregateOfEach
    DependsOn <- DependsOnOfEach
    KeepsNothing = {"line removed"}
    Attachable = {"completed"}
    Breakable = {}
    Closable = {1}
    Runs = {r1, r2}
    r1 = r1
    r2 = r2
    MaxAttempts = 2
    Limit = 1
    MaxReleases = 1
    MaxCrashes = 1
    NoEvent = NoEvent
INVARIANTS QuarantinedIsAlerted
PROPERTIES EverythingSettles
