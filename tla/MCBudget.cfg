CONSTANTS
    Slots = {s1, s2}
    Paths = {"reply", "cancel"}
    Kind = "budget"
    Limit = 2
    Extra = 1
    Cycles = 1
    Edits = {}
    MaxCalls = 2
    MaxWindow = 2
    MaxEdits = 0
    MaxFaults = 0
    MaxCrashes = 1
    Stops = TRUE
    Scenes = {"used", "rate", "full", "operated"}
SPECIFICATION MCSpec
INVARIANTS UsageSound WindowPure LimitsKept
PROPERTIES BoundaryForward EventuallySaved
CHECK_DEADLOCK FALSE
