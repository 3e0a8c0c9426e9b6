CONSTANTS
    t1 = t1
    t2 = t2
    d1 = d1
    d2 = d2
    x1 = x1
    x2 = x2
    v1 = v1
    v2 = v2
    NoFile = NoFile
    Threads = {t1, t2}
    Documents = {d1}
    Extractors = {x1, x2}
    Values = {v1, v2}
    SCHEMA_VERSION = 3
    MaxCalls = 4
    MaxCrashes = 1
    MaxFiles = 4
SPECIFICATION Spec
INVARIANTS SchemaMatches RowsHaveBlobs ActiveIsByTheLast ImportedOnce
CHECK_DEADLOCK FALSE
SYMMETRY Symmetry
