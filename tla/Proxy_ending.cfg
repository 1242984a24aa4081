CONSTANTS
    Nodes <- MCNodes
    Outside = "outside"
    Traffic <- MCTraffic
    Arriving <- OneMessage
    UriLen <- MCUriLen
    BodyLen <- MCBodyLen
    Conns = {c1, c2}
    SavedRecordings <- RepeatThenClient
    Forms <- NoForms
    Events = {"start_replay", "upstream_error", "write_error"}
    MaxRequests = 3
    MaxConfigs = 1
    MaxReplays = 1
    MaxSaved = 3
    MaxGoroutines = 1
SPECIFICATION FairSpec
\* The calls of the user and the arriving messages are bounded: it may stop.
CHECK_DEADLOCK FALSE
INVARIANTS
    ReplayModeEnds
PROPERTIES
    OutsideAllSent
    CompletedReplayIsComplete
    ReplayEnds
