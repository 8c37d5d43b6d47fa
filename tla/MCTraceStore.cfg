CONSTANTS
    Requests = {r1, r2}
    Objects = {o1, o2}
    Connectors = {c1, c2}
    Stalled = {c2}
    Cap = 1
    Deaths = TRUE
    Late = FALSE
    Long = FALSE
    Twice = TRUE
SPECIFICATION FairSpec
INVARIANTS OneOwner 
PROPERTIES ExportsEnd
CHECK_DEADLOCK FALSE
