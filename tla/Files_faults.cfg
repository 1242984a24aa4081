CONSTANTS
    Paths = {db}
    Contents = {v1}
    None = None
    Events = {"busy", "add_file", "remove_file", "create_fails", "write_fails", "unreadable", "crash", "delete_recording", "delete_snapshot"}
    MaxRecordings = 2
    MaxSnapshots = 2
    MaxBegun = 1
SPECIFICATION Spec
SYMMETRY Symmetry
\* A handler may leave the lock locked, and the disk may be full.
CHECK_DEADLOCK FALSE
INVARIANTS
    TypeOK
PROPERTIES
    NothingOverwritten
