CONSTANTS
    Paths = {db, log}
    Contents = {v1, v2}
    None = None
    Events = {"add_file"}
    MaxRecordings = 2
    MaxSnapshots = 1
    MaxBegun = 1
SPECIFICATION Spec
SYMMETRY Symmetry
\* A handler may leave the lock locked, and the disk may be full.
CHECK_DEADLOCK FALSE
PROPERTIES
    VolumesRestored
