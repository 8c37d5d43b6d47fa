CONSTANTS
    Scenes = {"held", "released", "swept", "unary", "streamed", "reloaded", "shared", "mixed", "relayed"}
    Chunks = 3
    MaxBuf = 2
    ChanCap = 1
    MaxGen = 3
    MaxCtl = 3
    ReleaseOnFinal = FALSE
    TTLSweep = FALSE
SPECIFICATION MCSpec
INVARIANTS  PipelineSound PoolSound
PROPERTIES ImplementsDelivery
CHECK_DEADLOCK FALSE
