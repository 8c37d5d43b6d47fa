CONSTANTS
    Nil = Nil
    Scenes = {"cache", "rotation", "gate", "pipeline", "pool"}
SPECIFICATION Spec
PROPERTIES RequestsEnd
CHECK_DEADLOCK FALSE
