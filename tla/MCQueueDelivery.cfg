SPECIFICATION Spec
CONSTANTS
    r1 = r1  r2 = r2  s1 = s1  s2 = s2  s3 = s3
    Requests = {r1, r2, st}
    Streaming = {st}
    Slots = {s1, s2, s3}
    MaxGens = 2
    Concurrency = 1
    BufferSize = 1
    Events = {"cancel", "panic", "update"}
    NoReq = NoReq
    NoSlot = NoSlot
SYMMETRY Symmetry
INVARIANTS ReplyIntegrity HandledOnce NoneLost
CHECK_DEADLOCK FALSE
