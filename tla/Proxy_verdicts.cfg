CONSTANTS
    Nodes <- MCNodes
    Outside = "outside"
    Traffic <- MCTraffic
    Arriving <- InsideTraffic
    UriLen <- MCUriLen
    BodyLen <- MCBodyLen
    Conns = {c1}
    SavedRecordings <- Repeats
    Forms <- MatcherForms
    Events = {"block_config", "start_replay", "start_recording",
              "end_recording"}
    MaxRequests = 3
    MaxConfigs = 2
    MaxReplays = 1
    MaxSaved = 1
    MaxGoroutines = 1
SPECIFICATION Spec
\* The calls of the user and the arriving messages are bounded: it may stop.
CHECK_DEADLOCK FALSE
INVARIANTS
    CountingBlocksNoMore
    InPlaceSameVerdict
    UniqueSameVerdict
    RecordedConfigIsCurrent
