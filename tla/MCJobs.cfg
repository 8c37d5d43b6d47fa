CONSTANTS
    Jobs = {"j1", "j2", "j3"}
    Hooked = {"j1"}
    Faults = {"mark", "write", "enqueue", "crash pending", "crash"}
    Overdue = FALSE
    n1 = n1
    n2 = n2
    Scenes = {"keyed", "late", "server", "fence", "retried", "payload", "async"}
SPECIFICATION MCSpec
SYMMETRY Symmetry
INVARIANTS  DeliverySound NoticeIsCommitted
PROPERTIES JobsKeep TerminalIsFinal
CHECK_DEADLOCK FALSE
