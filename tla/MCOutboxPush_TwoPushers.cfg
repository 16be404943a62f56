SPECIFICATION Spec
CONSTANTS
    sync = sync
    battery = battery
    Pushers = {sync, battery}
    MaxEvents = 3
    MaxBatch = 2
    MaxDelayed = 1
    Hazards = {"attachment", "crash", "delay", "prune"}
SYMMETRY PusherSymmetry
INVARIANTS AcknowledgedIsHeld AcknowledgedBeforeUnacknowledged
PROPERTIES ImplementsEventLog
