CONSTANTS
    Nodes <- MCNodes
    Outside = "outside"
    Traffic <- MCTraffic
    Arriving <- OneMessage
    UriLen <- MCUriLen
    BodyLen <- MCBodyLen
    Conns = {c1}
    SavedRecordings <- OnlyClient
    Forms <- NoForms
    Events = {"start_replay"}
    MaxRequests = 4
    MaxConfigs = 1
    MaxReplays = 1
    MaxSaved = 4
    MaxGoroutines = 1
SPECIFICATION FairSpec
\* The calls of the user and the arriving messages are bounded: it may stop.
CHECK_DEADLOCK FALSE
PROPERTIES
    HandlerAnswers
