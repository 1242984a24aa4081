CONSTANTS
    Nodes <- MCNodes
    Outside = "outside"
    Traffic <- MCTraffic
    Arriving <- OnlyWrite
    UriLen <- MCUriLen
    BodyLen <- MCBodyLen
    Conns = {c1}
    SavedRecordings <- OnlyOneWrite
    Forms <- ModeForms
    Events = {"home", "inspect", "start_recording", "end_recording", "start_replay", "block_config", "missing_recording"}
    MaxRequests = 1
    MaxConfigs = 2
    MaxReplays = 1
    MaxSaved = 2
    MaxGoroutines = 1
    LogEntries = {l1}
    MaxLogs = 1
    MaxClicks = 1
    MaxBreaks = 1
SPECIFICATION LiveSpec
\* The clicks and the arriving messages are bounded: it may stop.
CHECK_DEADLOCK FALSE
INVARIANTS
    LiveTypeOK
    ShowsTheRecording
    FinishedIsShown
    ReturnsNewRecording
