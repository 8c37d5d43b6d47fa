CONSTANTS
    Threads = {t1, t2}
    Conns = {x1, x2, x3}
    Checkers = {c1, c2}
    Scenes = {"removed", "kept", "sse", "stdio", "moded", "shared", "faulty", "percall", "direct", "code"}
SPECIFICATION MCSpec
SYMMETRY Symmetry
INVARIANTS ClientsSound RecoverySound 
PROPERTIES ClientsKeep
CHECK_DEADLOCK FALSE
