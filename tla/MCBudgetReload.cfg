CONSTANTS
    Slots = {s1}
    Paths = {"reply"}
    Kind = "budget"
    Limit = 2
    Extra = 1
    Cycles = 1
    Edits = {"edit"}
    MaxCalls = 3
    MaxWindow = 1
    MaxEdits = 1
    MaxFaults = 0
    MaxCrashes = 0
    Stops = FALSE
    Scenes = {}
SPECIFICATION ReloadSpec
INVARIANTS UsageExact
