CONSTANTS
    Paths = {db, log}
    Contents = {v1, v2}
    None = None
    Events = {"add_file", "remove_file", "write_fails", "crash"}
    MaxRecordings = 2
    MaxSnapshots = 2
    MaxBegun = 2
SPECIFICATION Spec
SYMMETRY Symmetry
\* A handler may leave the lock locked, and the disk may be full.
CHECK_DEADLOCK FALSE
INVARIANTS
    SnapshotBelongs
    LatestIsNewest
PROPERTIES
    ReplayStartsAlike
