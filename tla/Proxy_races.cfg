CONSTANTS
    Nodes <- MCNodes
    Outside = "outside"
    Traffic <- MCTraffic
    Arriving <- OneMessage
    UriLen <- MCUriLen
    BodyLen <- MCBodyLen
    Conns = {c1}
    SavedRecordings <- OnlyWriteRepeatWrite
    Forms <- NoForms
    Events = {"missing_recording", "start_replay", "home", "inspect", "body_error"}
    MaxRequests = 2
    MaxConfigs = 1
    MaxReplays = 2
    MaxSaved = 1
    MaxGoroutines = 2
SPECIFICATION Spec
\* The calls of the user and the arriving messages are bounded: it may stop.
CHECK_DEADLOCK FALSE
INVARIANTS
    TypeOK
    TimerIffReplaying
    ReplayHasEnder
    OutsideReplayedOnce
PROPERTIES
    OutsideInTurn
