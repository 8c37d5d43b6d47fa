SPECIFICATION FairSpec
CONSTANTS
    r1 = r1 r2 = r2 s1 = s1 s2 = s2 s3 = s3
    Requests = {r1}
    Streaming = {}
    Slots = {s1}
    MaxGens = 2
    Concurrency = 2
    BufferSize = 1
    Events = {"cancel", "panic", "update", "remove", "ensure", "shutdown"}
    NoReq = NoReq NoSlot = NoSlot
INVARIANTS WorkersGone
PROPERTIES CallsReturn
CHECK_DEADLOCK FALSE
