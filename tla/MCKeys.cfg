CONSTANTS
    Keys = {k1, k2}
    Rows = {r1, r2}
    Readers = {d1, d2, d3}
    None = None
    Capacity = 2
    MaxWrites = 1
    MaxLookups = 3
    Scenes = {"tight", "roomy", "one", "rotation", "shared", "fixed", "sticky", "changing"}
SPECIFICATION MCSpec
SYMMETRY Symmetry
INVARIANTS CachedIsFresh CacheOrderly RecencyExact RotationSound SessionKept
PROPERTIES RejectRemovesWhatItRead 
CHECK_DEADLOCK FALSE
