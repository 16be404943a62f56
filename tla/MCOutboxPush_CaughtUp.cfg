SPECIFICATION Spec
CONSTANTS
    sync = sync
    Pushers = {sync}
    MaxEvents = 2
    MaxBatch = 2
    MaxDelayed = 1
    Hazards = {}
PROPERTIES CaughtUpMeansReceived
