SPECIFICATION LiveSpec
CONSTANTS
    sync = sync
    Pushers = {sync}
    MaxEvents = 3
    MaxBatch = 2
    MaxDelayed = 1
    Hazards = {"outbox_loss", "cloud_restore", "prune", "crash"}
PROPERTIES LossIsDetected CloudLossIsRepaired
