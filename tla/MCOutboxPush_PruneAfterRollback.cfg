SPECIFICATION Spec
CONSTANTS
    sync = sync
    Pushers = {sync}
    MaxEvents = 3
    MaxBatch = 2
    MaxDelayed = 1
    Hazards = {"rollback", "prune"}
PROPERTIES PruneRemovesOnlyCopies
