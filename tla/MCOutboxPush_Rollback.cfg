SPECIFICATION Spec
CONSTANTS
    sync = sync
    Pushers = {sync}
    MaxEvents = 3
    MaxBatch = 2
    MaxDelayed = 1
    Hazards = {"attachment", "delay", "rollback", "revocation", "minimum_raised"}
INVARIANTS TypeOK CondemnedForAReason ReceivedPrefixIsOneChain
PROPERTIES SetAsideIsKept
