------------------------------ MODULE LiveProofs ----------------------------
(***************************************************************************)
(* Theorems about module LiveUpdates, for any traffic, forms, recordings,  *)
(* logs and bounds: what the callers see, and that they use the proxy only *)
(* through its handlers.                                                   *)
(***************************************************************************)
EXTENDS LiveUpdates, ProxyProofs

-----------------------------------------------------------------------------
(* The proxy with its callers is the proxy.                                *)

\* Every page that is loaded is a call of a handler of the proxy.
LEMMA PageIsUserStep == ASSUME PageHandler PROVE UserSteps
  BY DEF PageHandler, Inspect, StartReplay, UserSteps

\* The callers call the proxy's handlers and otherwise leave its state alone.
LEMMA CallersStep == ASSUME LiveNext PROVE [Next]_vars
<1>1. CASE ProxyStep
  BY <1>1 DEF ProxyStep, Next
<1>2. CASE Tab
  <2>1. CASE TabClicks
    BY <2>1, PageIsUserStep DEF TabClicks, BlockConfigPage, UserSteps, Next
  <2>2. CASE TabClicksInVain
    BY <2>2 DEF TabClicksInVain, UserSteps, Next
  <2>3. CASE TabLoads \/ TabConnects \/ TabBreaks \/ LiveUpdatesHandler \/ LiveUpdatesFinish
    BY <2>3 DEF TabLoads, TabConnects, TabBreaks, LiveUpdatesHandler, LiveUpdatesFinish
  <2>4. CASE TabFollows
    BY <2>4 DEF TabFollows, Inspect, UserSteps, Next
  <2> QED
    BY <1>2, <2>1, <2>2, <2>3, <2>4 DEF Tab
<1>3. CASE Script
  <2>1. CASE ScriptStarts
    BY <2>1 DEF ScriptStarts, StartReplay, UserSteps, Next
  <2>2. CASE ScriptPolls \/ LatestRecordingHandler
    BY <2>2 DEF ScriptPolls, LatestRecordingHandler
  <2> QED
    BY <1>3, <2>1, <2>2 DEF Script
<1>4. CASE \E entry \in LogEntries : LogHandler(entry)
  BY <1>4 DEF LogHandler
<1> QED
  BY <1>1, <1>2, <1>3, <1>4 DEF LiveNext

\* A tab, a log driver and a script do nothing to the proxy that its users and
\* its traffic could not do without them: what is proved of Proxy holds here.
THEOREM CallersRefine == LiveSpec => Spec
<1>1. LiveInit => Init
  BY DEF LiveInit
<1>2. [LiveNext]_liveVars => [Next]_vars
  BY CallersStep DEF liveVars
<1> QED
  BY <1>1, <1>2, PTL DEF LiveSpec, Spec

-----------------------------------------------------------------------------
(* What a step does to the recording and to the disk.                      *)

\* Every step of the proxy adds to the requests of the recording, or none.
RecordingGrows ==
    \E more \in Seq(Request) : recording'.Requests = recording.Requests \o more

LEMMA StaysOrGrows ==
  ASSUME TypeOK, UNCHANGED recording
  PROVE  RecordingGrows
<1>1. recording.Requests \in Seq(Request)
  BY DEF TypeOK, Recordings
<1>2. recording.Requests \o <<>> = recording.Requests /\ <<>> \in Seq(Request)
  BY <1>1, ConcatEmptySeq, EmptySeq
<1> QED
  BY <1>2 DEF RecordingGrows

LEMMA SendDueGrows ==
  ASSUME TypeOK, NEW alwaysSend \in BOOLEAN, SendDue(alwaysSend)
  PROVE  RecordingGrows
<1> DEFINE rs == replayingFrom.Requests
<1>1. rs \in Seq(Request) /\ recording \in Recordings
  BY DEF TypeOK, Recordings
<1>2. Due(alwaysSend) \in SUBSET DOMAIN rs
  BY DEF Due, UnseenOutside, Unseen
<1>3. PICK batch \in Ascending(Due(alwaysSend)) :
         recording' = [recording EXCEPT !.Requests =
             @ \o [k \in DOMAIN batch |-> rs[batch[k]]]]
  BY DEF SendDue
<1>4. [k \in DOMAIN batch |-> rs[batch[k]]] \in Seq(Request)
  BY <1>1, <1>2, BatchType
<1>5. recording'.Requests = recording.Requests \o [k \in DOMAIN batch |-> rs[batch[k]]]
  BY <1>1, <1>3 DEF Recordings
<1> QED
  BY <1>4, <1>5 DEF RecordingGrows

LEMMA DecideGrows ==
  ASSUME TypeOK, NEW c \in Conns, HandlerDecide(c)
  PROVE  RecordingGrows
<1>1. CASE UNCHANGED recording
  BY <1>1, StaysOrGrows
<1>2. CASE ~UNCHANGED recording
  <2>0. PICK m \in Arriving : \E d \in Decisions(m) : record(NewRequest(m, d.verdict))
    BY <1>2 DEF HandlerDecide
  <2>1. PICK d \in Decisions(m) : record(NewRequest(m, d.verdict))
    BY <2>0
  <2> DEFINE r == NewRequest(m, d.verdict)
  <2>2. r \in Request
    BY ProxyAssumption, DecisionType, NewRequestType
  <2>3. recording'.Requests = Append(recording.Requests, r)
    BY <2>1 DEF record, TypeOK, Recordings
  <2>4. Append(recording.Requests, r) = recording.Requests \o <<r>> /\ <<r>> \in Seq(Request)
    <3>1. recording.Requests \in Seq(Request)
      BY DEF TypeOK, Recordings
    <3>2. <<r>> \in Seq(Request)
      BY <2>2
    <3> QED
      BY <2>2, <3>1, <3>2, AppendIsConcat
  <2> QED
    BY <2>3, <2>4 DEF RecordingGrows
<1> QED
  BY <1>1, <1>2

LEMMA ProxyStepGrows ==
  ASSUME TypeOK, ProxyStep
  PROVE  RecordingGrows
<1>1. ASSUME NEW c \in Conns, HandlerSteps(c) PROVE RecordingGrows
  <2>1. CASE HandlerDecide(c)
    BY <2>1, DecideGrows
  <2>2. CASE HandlerNext(c)
    BY <2>2, SendDueGrows DEF HandlerNext
  <2>3. CASE ~HandlerDecide(c) /\ ~HandlerNext(c)
    <3>1. UNCHANGED recording
      BY <1>1, <2>3 DEF HandlerSteps, HandlerReadError, HandlerResponse, HandlerUpstreamError,
            HandlerCheck, HandlerOffer, HandlerTestTimer, HandlerLoadTimer, HandlerRearm
    <3> QED
      BY <3>1, StaysOrGrows
  <2> QED
    BY <2>1, <2>2, <2>3
<1>2. ASSUME ReplaySteps PROVE RecordingGrows
  <2>1. CASE StartReplayKick \/ EndReplayNext
    BY <2>1, SendDueGrows DEF StartReplayKick, EndReplayNext, GoroutineNext
  <2>2. CASE ~StartReplayKick /\ ~EndReplayNext
    <3>1. UNCHANGED recording
      BY <1>2, <2>2 DEF ReplaySteps, GoroutineOffer, TimerFires, EndReplayToken,
            EndReplayContinue, EndReplayAllSeen, EndReplayFinish
    <3> QED
      BY <3>1, StaysOrGrows
  <2> QED
    BY <2>1, <2>2
<1> QED
  BY <1>1, <1>2 DEF ProxyStep

\* A file is added to the disk, or the disk stays as it is; and what is said to
\* have been saved last is new then.
Saved ==
    /\ disk' \in {disk, Append(disk, recording)}
    /\ UNCHANGED lastSavedId \/ lastSavedId' = Len(disk) + 1

LEMMA ProxyStepSaves ==
  ASSUME ProxyStep
  PROVE  /\ Saved
         /\ isReplaying' = isReplaying \/ (~isReplaying' /\ lastSavedId' = Len(disk) + 1)
<1>1. ASSUME NEW c \in Conns, HandlerSteps(c) PROVE UNCHANGED fileVars /\ UNCHANGED isReplaying
  BY <1>1 DEF HandlerSteps, HandlerDecide, HandlerReadError, HandlerResponse,
       HandlerUpstreamError, HandlerCheck, HandlerNext, HandlerOffer, HandlerTestTimer, HandlerLoadTimer,
       HandlerRearm, replayVars
<1>2. ASSUME ReplaySteps, ~EndReplayFinish PROVE UNCHANGED fileVars /\ UNCHANGED isReplaying
  BY <1>2 DEF ReplaySteps, StartReplayKick, EndReplayNext, GoroutineNext, GoroutineOffer,
       TimerFires, EndReplayToken, EndReplayContinue, EndReplayAllSeen, replayVars
<1>3. ASSUME EndReplayFinish PROVE Saved /\ ~isReplaying' /\ lastSavedId' = Len(disk) + 1
  BY <1>3 DEF EndReplayFinish, writeRecording, Saved
<1> QED
  BY <1>1, <1>2, <1>3 DEF ProxyStep, Saved, fileVars

LEMMA PageSaves ==
  ASSUME PageHandler
  PROVE  Saved
  BY DEF PageHandler, HomeHandler, Inspect, InspectHandler, StartRecordingHandler,
         EndRecordingHandler, StartReplay, StartReplayHandler,
         writeRecording, fileVars, Saved

\* Only the steps that may save something change the disk.
LEMMA CallersSave ==
  ASSUME [LiveNext]_liveVars
  PROVE  Saved
<1>1. CASE ProxyStep
  BY <1>1, ProxyStepSaves
<1>2. CASE TabClicks
  BY <1>2, PageSaves DEF TabClicks, BlockConfigPage, BlockConfigHandler, fileVars, Saved
<1>3. CASE ~ProxyStep /\ ~TabClicks
  BY <1>3 DEF LiveNext, Tab, TabClicksInVain, BlockConfigRefused, StartReplayMissing,
       TabLoads, TabConnects, TabBreaks, LiveUpdatesHandler, LiveUpdatesFinish, TabFollows,
       Inspect, InspectHandler, Script, ScriptStarts, StartReplay, StartReplayHandler, ScriptPolls,
       LatestRecordingHandler, LogHandler, liveVars, vars, fileVars, Saved
<1> QED
  BY <1>1, <1>2, <1>3

-----------------------------------------------------------------------------
(* Types.                                                                  *)

LEMMA RestType ==
  ASSUME NEW S, NEW seq \in Seq(S), NEW n \in Nat
  PROVE  Rest(seq, n) \in Seq(S) /\ Further(n, seq) \in Nat
<1>1. Len(seq) \in Nat /\ \A i \in n + 1 .. Len(seq) : seq[i] \in S
  OBVIOUS
<1>2. SubSeq(seq, n + 1, Len(seq)) \in Seq(S)
  BY <1>1, SubSeqProperties
<1> QED
  BY <1>1, <1>2 DEF Rest, Further

\* Until the next page is there the old one goes on; it is stale if a handler
\* has replaced the recording.
LEMMA LeavesPage ==
  ASSUME LiveTypeOK, NEW next \in {"page", "empty"}, NEW replaced \in BOOLEAN,
         Leaves(next, replaced)
  PROVE  /\ tab' \in Pages
         /\ tab'.at = tab.at /\ tab'.replaying = tab.replaying /\ tab'.told = tab.told
         /\ tab'.requests = tab.requests /\ tab'.writtenRequests = tab.writtenRequests
         /\ tab'.logs = tab.logs /\ tab'.writtenLogs = tab.writtenLogs
         /\ tab'.stale \in BOOLEAN
         /\ tab'.stale <=> tab.stale \/ (replaced /\ tab.at \in {"live", "finished"})
<1>1. tab \in Pages
  BY DEF LiveTypeOK
<1> DEFINE left == tab.stale \/ (replaced /\ tab.at \in {"live", "finished"})
<1>2. tab' = [tab EXCEPT !.next = next, !.clicks = @ + 1, !.stale = left]
  BY DEF Leaves
<1>3. left \in BOOLEAN /\ tab.clicks + 1 \in Nat
  BY <1>1 DEF Pages
<1> HIDE DEF left
<1>4. tab' \in Pages /\ tab'.stale = left
  BY <1>1, <1>2, <1>3 DEF Pages
<1>5. /\ tab'.at = tab.at /\ tab'.replaying = tab.replaying /\ tab'.told = tab.told
      /\ tab'.requests = tab.requests /\ tab'.writtenRequests = tab.writtenRequests
      /\ tab'.logs = tab.logs /\ tab'.writtenLogs = tab.writtenLogs
  BY <1>1, <1>2 DEF Pages
<1> QED
  BY <1>3, <1>4, <1>5 DEF left

\* A page that is new, or none.
LEMMA FreshType ==
  ASSUME LiveTypeOK, NEW at \in {"none", "loading"}, NEW next \in {"stay", "page", "empty"},
         NEW breaks \in Nat
  PROVE  /\ Fresh(at, next, breaks) \in Pages /\ Fresh(at, next, breaks).at = at
         /\ Fresh(at, next, breaks).requests = <<>> /\ Fresh(at, next, breaks).logs = <<>>
<1>1. <<>> \in Seq(Request) /\ <<>> \in Seq(LogEntries) /\ tab.clicks \in Nat
  BY EmptySeq DEF LiveTypeOK, Pages
<1> QED
  BY <1>1 DEF Fresh, Blank, Pages

\* The steps that leave no connection of the tab.
Unconnected == TabLoads \/ TabBreaks \/ TabFollows

LEMMA UnconnectedPage ==
  ASSUME LiveTypeOK, Unconnected
  PROVE  /\ tab' \in Pages /\ tab'.at \in {"none", "loading"}
         /\ tab'.requests = <<>> /\ tab'.logs = <<>>
<1>1. tab.next \in {"stay", "page", "empty"} /\ tab.breaks \in Nat /\ tab.breaks + 1 \in Nat
  BY DEF LiveTypeOK, Pages
<1>2. PICK at \in {"none", "loading"}, next \in {"stay", "page", "empty"},
           breaks \in {tab.breaks, tab.breaks + 1} : tab' = Fresh(at, next, breaks)
  BY <1>1 DEF Unconnected, TabLoads, TabBreaks, TabFollows
<1> QED
  BY <1>1, <1>2, FreshType

\* The logs are saved when the recording is.
LEMMA SaveLogsType ==
  ASSUME TypeOK, LiveTypeOK, Saved, SaveLogs
  PROVE  savedLogs' \in Seq(Seq(LogEntries)) /\ Len(savedLogs') = Len(disk')
<1>1. recording \in Recordings /\ disk \in Seq(Recordings)
  BY DEF TypeOK
<1>2. CASE disk' = disk
  BY <1>1, <1>2 DEF SaveLogs, LiveTypeOK
<1>3. CASE disk' = Append(disk, recording)
  <2>1. Len(disk') = Len(disk) + 1
    BY <1>1, <1>3, AppendProperties
  <2>2. savedLogs' = Append(savedLogs, logs)
    BY <1>1, <2>1 DEF SaveLogs
  <2> QED
    BY <2>1, <2>2, AppendProperties DEF LiveTypeOK
<1> QED
  BY <1>2, <1>3 DEF Saved

LEMMA InspectLogsType ==
  ASSUME TypeOK, LiveTypeOK, NEW id \in DOMAIN disk, Inspect(id)
  PROVE  logs' \in Seq(LogEntries) /\ UNCHANGED <<savedLogs, disk>>
<1>1. id \in DOMAIN savedLogs
  BY DEF TypeOK, LiveTypeOK
<1> QED
  BY <1>1 DEF Inspect, InspectHandler, LiveTypeOK, fileVars

\* What a handler that answers with a page does to the logs.
LEMMA PageLogsType ==
  ASSUME TypeOK, LiveTypeOK, PageHandler
  PROVE  /\ logs' \in Seq(LogEntries)
         /\ savedLogs' \in Seq(Seq(LogEntries)) /\ Len(savedLogs') = Len(disk')
<1>1. CASE \E id \in DOMAIN disk : Inspect(id)
  BY <1>1, InspectLogsType DEF LiveTypeOK
<1>2. CASE EndRecordingHandler /\ logs' = <<>> /\ SaveLogs
  BY <1>2, PageSaves, SaveLogsType, EmptySeq
<1>3. CASE /\ ~\E id \in DOMAIN disk : Inspect(id)
           /\ ~(EndRecordingHandler /\ logs' = <<>> /\ SaveLogs)
  <2>1. logs' \in {logs, <<>>} /\ UNCHANGED <<savedLogs, disk>>
    BY <1>3 DEF PageHandler, HomeHandler, StartRecordingHandler, StartReplay,
         StartReplayHandler, fileVars
  <2> QED
    BY <2>1, EmptySeq DEF LiveTypeOK
<1> QED
  BY <1>1, <1>2, <1>3 DEF PageHandler

LEMMA TabType ==
  ASSUME TypeOK, LiveTypeOK, Tab
  PROVE  LiveTypeOK'
<1> USE DEF LiveTypeOK
<1>1. CASE TabClicks
  <2>1. script' \in Scripts
    BY <1>1 DEF TabClicks, Scripts
  <2>2. tab' \in Pages
    BY <1>1, LeavesPage DEF TabClicks
  <2>3. CASE PageHandler
    BY <2>1, <2>2, <2>3, PageLogsType
  <2>4. CASE BlockConfigPage
    BY <2>1, <2>2, <2>4 DEF BlockConfigPage, BlockConfigHandler, fileVars
  <2> QED
    BY <1>1, <2>3, <2>4 DEF TabClicks
<1>2. CASE TabClicksInVain
  <2>1. script' \in Scripts
    BY <1>2 DEF TabClicksInVain, Scripts
  <2>2. tab' \in Pages
    BY <1>2, LeavesPage DEF TabClicksInVain
  <2>3. UNCHANGED disk
    BY <1>2 DEF TabClicksInVain, BlockConfigRefused, StartReplayMissing, fileVars
  <2> QED
    BY <1>2, <2>1, <2>2, <2>3 DEF TabClicksInVain
<1>3. CASE TabConnects
  BY <1>3 DEF TabConnects, Pages, TypeOK, vars, fileVars
<1>4. CASE LiveUpdatesHandler
  <2>1. recording.Requests \in Seq(Request) /\ tab \in Pages
    BY DEF TypeOK, Recordings
  <2>2. /\ Rest(recording.Requests, tab.writtenRequests) \in Seq(Request)
        /\ Further(tab.writtenRequests, recording.Requests) \in Nat
    BY <2>1, RestType DEF Pages
  <2>3. /\ Rest(logs, tab.writtenLogs) \in Seq(LogEntries)
        /\ Further(tab.writtenLogs, logs) \in Nat
    BY <2>1, RestType DEF Pages
  <2>4. /\ tab.requests \o Rest(recording.Requests, tab.writtenRequests) \in Seq(Request)
        /\ tab.logs \o Rest(logs, tab.writtenLogs) \in Seq(LogEntries)
    BY <2>1, <2>2, <2>3, ConcatProperties DEF Pages
  <2>5. tab' \in Pages
    BY <1>4, <2>1, <2>2, <2>3, <2>4 DEF LiveUpdatesHandler, Pages
  <2> QED
    BY <1>4, <2>5 DEF LiveUpdatesHandler, vars, fileVars
<1>5. CASE LiveUpdatesFinish
  BY <1>5 DEF LiveUpdatesFinish, Pages, TypeOK, vars, fileVars
<1>6. CASE TabFollows
  <2>1. script' \in Scripts
    BY <1>6 DEF TabFollows, Scripts
  <2>2. tab' \in Pages
    BY <1>6, UnconnectedPage DEF Unconnected
  <2>3. /\ logs' \in Seq(LogEntries)
        /\ savedLogs' \in Seq(Seq(LogEntries)) /\ Len(savedLogs') = Len(disk')
    BY <1>6, InspectLogsType DEF TabFollows, vars, fileVars
  <2> QED
    BY <2>1, <2>2, <2>3
<1>7. CASE TabLoads \/ TabBreaks
  <2>1. tab' \in Pages
    BY <1>7, UnconnectedPage DEF Unconnected
  <2> QED
    BY <1>7, <2>1 DEF TabLoads, TabBreaks, vars, fileVars
<1> QED
  BY <1>1, <1>2, <1>3, <1>4, <1>5, <1>6, <1>7 DEF Tab

LEMMA ScriptType ==
  ASSUME TypeOK, LiveTypeOK, Script
  PROVE  LiveTypeOK'
<1> USE DEF LiveTypeOK
<1>1. CASE ScriptStarts
  <2>1. UNCHANGED <<savedLogs, disk>> /\ logs' = <<>>
    BY <1>1 DEF ScriptStarts, StartReplay, StartReplayHandler, fileVars
  <2>2. script' \in Scripts
    BY <1>1 DEF ScriptStarts, Scripts, TypeOK
  <2>3. tab' \in Pages
    BY <1>1 DEF ScriptStarts, Pages
  <2> QED
    BY <2>1, <2>2, <2>3, EmptySeq
<1>2. CASE ScriptPolls \/ LatestRecordingHandler
  BY <1>2 DEF ScriptPolls, LatestRecordingHandler, Scripts, TypeOK, vars, fileVars
<1> QED
  BY <1>1, <1>2 DEF Script

LEMMA LiveStepType ==
  ASSUME TypeOK, LiveTypeOK, [LiveNext]_liveVars
  PROVE  LiveTypeOK'
<1>1. CASE ProxyStep
  BY <1>1, ProxyStepSaves, SaveLogsType DEF ProxyStep, LiveTypeOK
<1>2. CASE Tab
  BY <1>2, TabType
<1>3. CASE Script
  BY <1>3, ScriptType
<1>4. ASSUME NEW entry \in LogEntries, LogHandler(entry) PROVE LiveTypeOK'
  BY <1>4, AppendProperties DEF LogHandler, LiveTypeOK, vars, fileVars
<1>5. CASE UNCHANGED liveVars
  BY <1>5 DEF liveVars, vars, fileVars, LiveTypeOK
<1> QED
  BY <1>1, <1>2, <1>3, <1>4, <1>5 DEF LiveNext

LEMMA LiveInitType == LiveInit => LiveTypeOK
<1> SUFFICES ASSUME LiveInit PROVE LiveTypeOK
  OBVIOUS
<1>1. <<>> \in Seq(Request) /\ <<>> \in Seq(LogEntries)
  BY EmptySeq
<1>2. SavedRecordings \in Seq(Recordings) /\ disk = SavedRecordings
  BY ProxyAssumption DEF LiveInit, Init
<1>3. /\ Len(SavedRecordings) \in Nat /\ DOMAIN SavedRecordings = 1..Len(SavedRecordings)
  BY <1>2
<1>4. savedLogs = [id \in 1..Len(SavedRecordings) |-> <<>>]
  BY <1>3 DEF LiveInit
<1>5. savedLogs \in Seq(Seq(LogEntries)) /\ Len(savedLogs) = Len(disk)
  BY <1>1, <1>2, <1>3, <1>4
<1> QED
  BY <1>1, <1>5 DEF LiveInit, LiveTypeOK, Pages, Scripts, Blank

\* The callers keep to their types, and for every file of a recording there is
\* one of its logs (LiveUpdatesHandler and writeRecording, src/api.go:259).
THEOREM LiveTypes == LiveSpec => []LiveTypeOK
<1>1. TypeOK /\ LiveTypeOK /\ [LiveNext]_liveVars => LiveTypeOK'
  BY LiveStepType
<1>2. LiveSpec => []TypeOK
  BY CallersRefine, TypeCorrect, PTL
<1> QED
  BY <1>1, <1>2, LiveInitType, PTL DEF LiveSpec

-----------------------------------------------------------------------------
(* What the page shows.                                                    *)

LEMMA ShownGrows ==
  ASSUME NEW S, NEW seq \in Seq(S), NEW more \in Seq(S), NEW events, NEW n \in Nat,
         Shown(events, n, seq)
  PROVE  Shown(events, n, seq \o more)
<1>1. n <= Len(seq) /\ Len(seq \o more) = Len(seq) + Len(more) /\ Len(more) \in Nat
  BY ConcatProperties DEF Shown
<1>2. CASE n = 0
  BY <1>1, <1>2, SubSeqEmpty DEF Shown
<1>3. CASE n > 0
  <2>1. SubSeq(seq \o more, 1, n) = SubSeq(seq, 1, n)
    BY <1>1, <1>3, SubSeqOfConcat1
  <2> QED
    BY <1>1, <2>1 DEF Shown
<1> QED
  BY <1>2, <1>3

LEMMA NothingShown ==
  ASSUME NEW S, NEW seq \in Seq(S)
  PROVE  Shown(<<>>, 0, seq)
  BY SubSeqEmpty DEF Shown

LEMMA RestShown ==
  ASSUME NEW S, NEW seq \in Seq(S), NEW events \in Seq(S), NEW n \in Nat,
         Shown(events, n, seq)
  PROVE  Shown(events \o Rest(seq, n), Further(n, seq), seq)
<1>1. Len(seq) \in Nat /\ n <= Len(seq)
  BY DEF Shown
<1>2. /\ 1 \in 1 .. Len(seq) + 1 /\ n \in 1 - 1 .. Len(seq) /\ Len(seq) \in n .. Len(seq)
  BY <1>1
<1>3. SubSeq(seq, 1, n) \o SubSeq(seq, n + 1, Len(seq)) = SubSeq(seq, 1, Len(seq))
  BY <1>2, ConcatAdjacentSubSeq
<1>4. Further(n, seq) = Len(seq)
  BY <1>1 DEF Further
<1>5. events \o Rest(seq, n) = SubSeq(seq, 1, Len(seq))
  BY <1>3 DEF Shown, Rest
<1> QED
  BY <1>1, <1>4, <1>5 DEF Shown

\* A connection begins with nothing written.
LoadingIsNew == tab.at = "loading" => tab.requests = <<>> /\ tab.logs = <<>>

ShowsInv == LoadingIsNew /\ ShowsTheRecording

LEMMA ProxyStepShows ==
  ASSUME TypeOK, TypeOK', LiveTypeOK, ShowsInv, ProxyStep
  PROVE  ShowsInv'
<1>1. UNCHANGED <<tab, logs>>
  BY DEF ProxyStep
<1>2. PICK more \in Seq(Request) : recording'.Requests = recording.Requests \o more
  BY ProxyStepGrows DEF RecordingGrows
<1>3. recording.Requests \in Seq(Request) /\ tab.writtenRequests \in Nat
  BY DEF TypeOK, Recordings, LiveTypeOK, Pages
<1>4. ASSUME Shown(tab.requests, tab.writtenRequests, recording.Requests)
      PROVE  Shown(tab.requests, tab.writtenRequests, recording.Requests)'
  <2>1. Shown(tab.requests, tab.writtenRequests, recording.Requests \o more)
    BY <1>2, <1>3, <1>4, ShownGrows
  <2> QED
    BY <1>1, <1>2, <2>1 DEF Shown
<1> QED
  BY <1>1, <1>4 DEF ShowsInv, LoadingIsNew, ShowsTheRecording, Shown

LEMMA LogShows ==
  ASSUME TypeOK, LiveTypeOK, ShowsInv, NEW entry \in LogEntries, LogHandler(entry)
  PROVE  ShowsInv'
<1>1. UNCHANGED <<tab, recording>> /\ logs' = Append(logs, entry)
  BY DEF LogHandler, vars
<1>2. logs \in Seq(LogEntries) /\ <<entry>> \in Seq(LogEntries) /\ tab.writtenLogs \in Nat
  BY DEF LiveTypeOK, Pages
<1>3. logs' = logs \o <<entry>>
  BY <1>1, <1>2, AppendIsConcat
<1>4. ASSUME Shown(tab.logs, tab.writtenLogs, logs)
      PROVE  Shown(tab.logs, tab.writtenLogs, logs)'
  <2>1. Shown(tab.logs, tab.writtenLogs, logs \o <<entry>>)
    BY <1>2, <1>4, ShownGrows
  <2> QED
    BY <1>1, <1>3, <2>1 DEF Shown
<1> QED
  BY <1>1, <1>4 DEF ShowsInv, LoadingIsNew, ShowsTheRecording, Shown

LEMMA BlockConfigKeeps ==
  ASSUME TypeOK, BlockConfigPage
  PROVE  UNCHANGED <<recording.Requests, logs, savedLogs, disk, lastSavedId, isReplaying>>
<1>1. PICK form \in Forms : BlockConfigHandler(form) /\ UNCHANGED <<logs, savedLogs>>
  BY DEF BlockConfigPage
<1>2. recording \in Recordings
  BY DEF TypeOK
<1> QED
  BY <1>1, <1>2 DEF BlockConfigHandler, recordBlockConfig, Recordings, fileVars, replayVars

LEMMA TabShows ==
  ASSUME TypeOK, LiveTypeOK, ShowsInv, Tab
  PROVE  ShowsInv'
<1> DEFINE reqs == recording.Requests
<1>1. reqs \in Seq(Request) /\ logs \in Seq(LogEntries) /\ tab \in Pages
  BY DEF TypeOK, Recordings, LiveTypeOK
<1>2. CASE Unconnected
  BY <1>2, UnconnectedPage DEF ShowsInv, LoadingIsNew, ShowsTheRecording
<1>6. CASE TabClicks /\ Leaves("page", TRUE)
  BY <1>6, LeavesPage DEF ShowsInv, LoadingIsNew, ShowsTheRecording
<1>7. CASE TabClicksInVain \/ (TabClicks /\ ~Leaves("page", TRUE))
  <2>1. PICK next \in {"page", "empty"} : Leaves(next, FALSE)
    BY <1>7 DEF TabClicksInVain, TabClicks
  <2>2. UNCHANGED <<recording.Requests, logs>>
    BY <1>7, BlockConfigKeeps DEF TabClicks, TabClicksInVain, BlockConfigRefused, StartReplayMissing
  <2> QED
    BY <2>1, <2>2, LeavesPage DEF ShowsInv, LoadingIsNew, ShowsTheRecording, Shown
<1>3. CASE TabConnects
  <2>1. /\ tab'.at = "live" /\ UNCHANGED <<recording, logs>>
        /\ tab'.writtenRequests = 0 /\ tab'.requests = <<>>
        /\ tab'.writtenLogs = 0 /\ tab'.logs = <<>>
    BY <1>1, <1>3 DEF TabConnects, ShowsInv, LoadingIsNew, Pages, vars
  <2>2. Shown(<<>>, 0, reqs) /\ Shown(<<>>, 0, logs)
    BY <1>1, NothingShown
  <2> QED
    BY <2>1, <2>2 DEF ShowsInv, LoadingIsNew, ShowsTheRecording
<1>4. CASE LiveUpdatesHandler
  <2>1. /\ tab'.at = "live" /\ tab'.stale = tab.stale /\ tab.at = "live"
        /\ UNCHANGED <<recording, logs>>
        /\ tab'.requests = tab.requests \o Rest(reqs, tab.writtenRequests)
        /\ tab'.writtenRequests = Further(tab.writtenRequests, reqs)
        /\ tab'.logs = tab.logs \o Rest(logs, tab.writtenLogs)
        /\ tab'.writtenLogs = Further(tab.writtenLogs, logs)
    BY <1>1, <1>4 DEF LiveUpdatesHandler, Pages, vars
  <2>2. ASSUME Shown(tab.requests, tab.writtenRequests, reqs)
        PROVE  Shown(tab'.requests, tab'.writtenRequests, reqs)
    BY <1>1, <2>1, <2>2, RestShown DEF Pages
  <2>3. ASSUME Shown(tab.logs, tab.writtenLogs, logs)
        PROVE  Shown(tab'.logs, tab'.writtenLogs, logs)
    BY <1>1, <2>1, <2>3, RestShown DEF Pages
  <2> QED
    BY <2>1, <2>2, <2>3 DEF ShowsInv, LoadingIsNew, ShowsTheRecording
<1>5. CASE LiveUpdatesFinish
  <2>1. tab'.at = "finished"
    BY <1>1, <1>5 DEF LiveUpdatesFinish, Pages
  <2> QED
    BY <2>1 DEF ShowsInv, LoadingIsNew, ShowsTheRecording
<1> QED
  BY <1>2, <1>3, <1>4, <1>5, <1>6, <1>7 DEF Tab, Unconnected

LEMMA ScriptShows ==
  ASSUME LiveTypeOK, ShowsInv, Script
  PROVE  ShowsInv'
<1>1. CASE ScriptStarts
  <2>1. tab' = [tab EXCEPT !.stale = @ \/ tab.at \in {"live", "finished"}] /\ tab \in Pages
    BY <1>1 DEF ScriptStarts, LiveTypeOK
  <2>2. /\ tab'.at = tab.at /\ (tab.at = "live" => tab'.stale)
        /\ tab'.writtenRequests = tab.writtenRequests /\ tab'.requests = tab.requests
        /\ tab'.writtenLogs = tab.writtenLogs /\ tab'.logs = tab.logs
    BY <2>1 DEF Pages
  <2> QED
    BY <2>2 DEF ShowsInv, LoadingIsNew, ShowsTheRecording
<1>2. CASE ScriptPolls \/ LatestRecordingHandler
  BY <1>2 DEF ScriptPolls, LatestRecordingHandler, vars, ShowsInv, LoadingIsNew,
       ShowsTheRecording
<1> QED
  BY <1>1, <1>2 DEF Script

LEMMA LiveShowsInv == LiveSpec => []ShowsInv
<1>1. LiveInit => ShowsInv
  BY DEF LiveInit, Blank, ShowsInv, LoadingIsNew, ShowsTheRecording
<1>2. TypeOK /\ TypeOK' /\ LiveTypeOK /\ ShowsInv /\ [LiveNext]_liveVars => ShowsInv'
  <2> SUFFICES ASSUME TypeOK, TypeOK', LiveTypeOK, ShowsInv, [LiveNext]_liveVars
               PROVE  ShowsInv'
    OBVIOUS
  <2>1. CASE UNCHANGED liveVars
    BY <2>1 DEF liveVars, vars, ShowsInv, LoadingIsNew, ShowsTheRecording
  <2> QED
    BY <2>1, ProxyStepShows, TabShows, ScriptShows, LogShows DEF LiveNext
<1>3. LiveSpec => [](TypeOK /\ LiveTypeOK)
  BY CallersRefine, TypeCorrect, LiveTypes, PTL
<1> QED
  BY <1>1, <1>2, <1>3, PTL DEF LiveSpec

\* A connection puts each event of the recording on the page once and in order,
\* whatever is recorded meanwhile and however often the page has connected
\* before: as long as nobody replaces the recording that it began with
\* (LiveUpdatesHandler, src/api.go:259).
THEOREM LiveShows == LiveSpec => []ShowsTheRecording
<1>1. ShowsInv => ShowsTheRecording
  BY DEF ShowsInv
<1> QED
  BY <1>1, LiveShowsInv, PTL

-----------------------------------------------------------------------------
(* What run_replay returns.                                                *)

\* The script asks for the latest recording only when the replay it started has
\* been saved, and nobody takes the number back.
ReturnsInv ==
    /\ script.before <= Len(disk)
    /\ script.alone /\ script.at = "polling" => isReplaying \/ lastSavedId > script.before
    /\ script.alone /\ script.at = "asking" => lastSavedId > script.before
    /\ ReturnsNewRecording

LEMMA SavedMore ==
  ASSUME TypeOK, LiveTypeOK, ReturnsInv, Saved
  PROVE  /\ script.before <= Len(disk')
         /\ lastSavedId' = lastSavedId \/ lastSavedId' > script.before
<1>1. /\ recording \in Recordings /\ disk \in Seq(Recordings) /\ Len(disk) \in Nat
      /\ script.before \in Nat
  BY DEF TypeOK, LiveTypeOK, Scripts
<1>2. Len(disk') \in {Len(disk), Len(disk) + 1}
  BY <1>1, AppendProperties DEF Saved
<1> QED
  BY <1>1, <1>2 DEF Saved, ReturnsInv

LEMMA ReturnsStep ==
  ASSUME TypeOK, LiveTypeOK, ReturnsInv, [LiveNext]_liveVars
  PROVE  ReturnsInv'
<1>1. /\ script.before <= Len(disk')
      /\ lastSavedId' = lastSavedId \/ lastSavedId' > script.before
  BY CallersSave, SavedMore
<1>2. script \in Scripts /\ Len(disk) \in Nat
  BY DEF TypeOK, LiveTypeOK
<1>3. CASE ProxyStep
  <2>1. isReplaying' = isReplaying \/ lastSavedId' = Len(disk) + 1
    BY <1>3, ProxyStepSaves
  <2>2. UNCHANGED script
    BY <1>3 DEF ProxyStep
  <2> QED
    BY <1>1, <1>2, <2>1, <2>2 DEF ReturnsInv, ReturnsNewRecording, Scripts
<1>4. CASE TabClicks \/ TabClicksInVain \/ TabFollows
  <2>1. script' = [script EXCEPT !.alone = FALSE]
    BY <1>4 DEF TabClicks, TabClicksInVain, TabFollows
  <2> QED
    BY <1>1, <1>2, <2>1 DEF ReturnsInv, ReturnsNewRecording, Scripts
<1>5. CASE ScriptStarts
  <2>1. /\ script' = [at |-> "polling", before |-> Len(disk), alone |-> TRUE, got |-> 0]
        /\ isReplaying' /\ UNCHANGED disk
    BY <1>5 DEF ScriptStarts, StartReplay, StartReplayHandler, fileVars
  <2> QED
    BY <1>2, <2>1 DEF ReturnsInv, ReturnsNewRecording
<1>6. CASE ScriptPolls
  <2>1. script' = [script EXCEPT !.at = "asking"] /\ script.at = "polling"
    BY <1>6 DEF ScriptPolls
  <2>2. ~isReplaying /\ UNCHANGED <<disk, lastSavedId>>
    BY <1>6 DEF ScriptPolls, StatusHandler, vars, fileVars
  <2> QED
    BY <1>2, <2>1, <2>2 DEF ReturnsInv, ReturnsNewRecording, Scripts
<1>7. CASE LatestRecordingHandler
  BY <1>2, <1>7
     DEF LatestRecordingHandler, vars, fileVars, ReturnsInv, ReturnsNewRecording, Scripts
<1>8. CASE \/ TabLoads \/ TabConnects \/ TabBreaks
           \/ LiveUpdatesHandler \/ LiveUpdatesFinish \/ UNCHANGED liveVars
           \/ \E entry \in LogEntries : LogHandler(entry)
  <2>1. UNCHANGED <<script, disk, lastSavedId, isReplaying>>
    BY <1>8 DEF TabLoads, TabConnects, TabBreaks, LiveUpdatesHandler, LiveUpdatesFinish, LogHandler, liveVars,
         vars, fileVars, replayVars
  <2> QED
    BY <2>1 DEF ReturnsInv, ReturnsNewRecording
<1> QED
  BY <1>3, <1>4, <1>5, <1>6, <1>7, <1>8 DEF LiveNext, Tab, Script

\* Between the answer of StatusHandler and the question to
\* LatestRecordingHandler no replay can take the new recording's number away
\* (run_replay, src/examples/synthetic/experiments.py:16).
THEOREM LiveReturns == LiveSpec => []ReturnsNewRecording
<1>1. LiveInit => ReturnsInv
  <2> SUFFICES ASSUME LiveInit PROVE ReturnsInv
    OBVIOUS
  <2>1. disk \in Seq(Recordings)
    BY ProxyAssumption DEF LiveInit, Init
  <2>2. Len(disk) \in Nat
    BY <2>1
  <2> QED
    BY <2>2 DEF LiveInit, ReturnsInv, ReturnsNewRecording
<1>2. TypeOK /\ LiveTypeOK /\ ReturnsInv /\ [LiveNext]_liveVars => ReturnsInv'
  BY ReturnsStep
<1>3. LiveSpec => [](TypeOK /\ LiveTypeOK)
  BY CallersRefine, TypeCorrect, LiveTypes, PTL
<1>4. ReturnsInv => ReturnsNewRecording
  BY DEF ReturnsInv
<1> QED
  BY <1>1, <1>2, <1>3, <1>4, PTL DEF LiveSpec

-----------------------------------------------------------------------------
(* Where a page that is finished goes.                                     *)

\* Page t shows recording id of the files d and logs sl, or what would be in it
\* if it were written now: reqs and lg.
Fits(t, id, d, sl, reqs, lg) ==
    /\ id \in DOMAIN d =>
           /\ Shown(t.requests, t.writtenRequests, d[id].Requests)
           /\ Shown(t.logs, t.writtenLogs, sl[id])
    /\ id = Len(d) + 1 =>
           /\ Shown(t.requests, t.writtenRequests, reqs)
           /\ Shown(t.logs, t.writtenLogs, lg)

\* The page goes, or will go when the loop finds that the replay it has seen
\* is over, to a recording that it fits.  Its number may be one without a file:
\* the file that is written then gets the same recording, which has grown since.
FinishInv ==
    /\ lastSavedId <= Len(disk) + 1
    /\ tab.at = "finished" /\ ~tab.stale =>
           /\ tab.told <= Len(disk) + 1
           /\ Fits(tab, tab.told, disk, savedLogs, recording.Requests, logs)
    /\ tab.at = "live" /\ ~tab.stale =>
           /\ isReplaying => tab.replaying
           /\ tab.replaying /\ ~isReplaying =>
                  Fits(tab, lastSavedId, disk, savedLogs, recording.Requests, logs)

\* A page that fits a recording still does when what is recorded grows, and
\* when it is written.
LEMMA FitsGrows ==
  ASSUME NEW t \in Pages, NEW d \in Seq(Recordings), NEW sl \in Seq(Seq(LogEntries)),
         Len(sl) = Len(d), NEW id \in Nat, id <= Len(d) + 1,
         NEW rec \in Recordings, NEW lg \in Seq(LogEntries),
         NEW more \in Seq(Request), NEW moreLogs \in Seq(LogEntries),
         NEW d2, NEW sl2,
         \/ d2 = d /\ sl2 = sl
         \/ d2 = Append(d, rec) /\ sl2 = Append(sl, lg),
         Fits(t, id, d, sl, rec.Requests, lg)
  PROVE  Fits(t, id, d2, sl2, rec.Requests \o more, lg \o moreLogs)
<1> DEFINE reqs == rec.Requests
<1>0. reqs \in Seq(Request) /\ t.writtenRequests \in Nat /\ t.writtenLogs \in Nat
  BY DEF Recordings, Pages
<1> HIDE DEF reqs
<1>1. ASSUME Shown(t.requests, t.writtenRequests, reqs)
      PROVE  Shown(t.requests, t.writtenRequests, reqs \o more)
  BY <1>0, <1>1, ShownGrows
<1>2. ASSUME Shown(t.logs, t.writtenLogs, lg)
      PROVE  Shown(t.logs, t.writtenLogs, lg \o moreLogs)
  BY <1>0, <1>2, ShownGrows
<1>3. Len(d) \in Nat /\ DOMAIN d = 1..Len(d) /\ DOMAIN sl = 1..Len(d)
  OBVIOUS
<1>4. CASE d2 = d /\ sl2 = sl
  BY <1>1, <1>2, <1>4 DEF Fits, reqs
<1>5. CASE d2 = Append(d, rec) /\ sl2 = Append(sl, lg)
  <2>1. /\ Len(d2) = Len(d) + 1 /\ DOMAIN d2 = 1 .. Len(d) + 1
        /\ \A k \in 1..Len(d) : d2[k] = d[k] /\ sl2[k] = sl[k]
        /\ d2[Len(d) + 1] = rec /\ sl2[Len(d) + 1] = lg
    BY <1>3, <1>5, AppendProperties
  <2>2. id # Len(d2) + 1
    BY <1>3, <2>1
  <2>3. CASE id \in DOMAIN d
    BY <1>3, <2>1, <2>2, <2>3 DEF Fits
  <2>4. CASE id = Len(d) + 1
    BY <2>1, <2>2, <2>4 DEF Fits
  <2>5. CASE id \notin DOMAIN d2
    BY <2>2, <2>5 DEF Fits
  <2> QED
    BY <1>3, <2>1, <2>3, <2>4, <2>5
<1> QED
  BY <1>4, <1>5

\* What the other actors do while a page is open.
Grows ==
    /\ UNCHANGED tab
    /\ RecordingGrows
    /\ \E moreLogs \in Seq(LogEntries) : logs' = logs \o moreLogs
    /\ \/ UNCHANGED <<disk, savedLogs>>
       \/ disk' = Append(disk, recording) /\ savedLogs' = Append(savedLogs, logs)

LEMMA GrowsFits ==
  ASSUME TypeOK, LiveTypeOK, Grows, NEW id \in Nat, id <= Len(disk) + 1,
         Fits(tab, id, disk, savedLogs, recording.Requests, logs)
  PROVE  Fits(tab, id, disk, savedLogs, recording.Requests, logs)'
<1>1. PICK more \in Seq(Request) : recording'.Requests = recording.Requests \o more
  BY DEF Grows, RecordingGrows
<1>2. PICK moreLogs \in Seq(LogEntries) : logs' = logs \o moreLogs
  BY DEF Grows
<1>3. /\ tab \in Pages /\ disk \in Seq(Recordings) /\ savedLogs \in Seq(Seq(LogEntries))
      /\ Len(savedLogs) = Len(disk) /\ recording \in Recordings /\ logs \in Seq(LogEntries)
  BY DEF TypeOK, LiveTypeOK
<1> DEFINE newDisk == disk'
           newLogs == savedLogs'
<1>4. \/ newDisk = disk /\ newLogs = savedLogs
      \/ newDisk = Append(disk, recording) /\ newLogs = Append(savedLogs, logs)
  BY DEF Grows
<1> HIDE DEF newDisk, newLogs
<1>5. Fits(tab, id, newDisk, newLogs, recording.Requests \o more, logs \o moreLogs)
  BY <1>3, <1>4, FitsGrows
<1> QED
  BY <1>1, <1>2, <1>5 DEF Grows, Fits, newDisk, newLogs

LEMMA LogGrows ==
  ASSUME TypeOK, LiveTypeOK, NEW entry \in LogEntries, LogHandler(entry)
  PROVE  Grows /\ UNCHANGED <<isReplaying, lastSavedId>>
<1>1. /\ UNCHANGED <<tab, recording, disk, savedLogs, isReplaying, lastSavedId>>
      /\ logs' = Append(logs, entry)
  BY DEF LogHandler, vars, fileVars, replayVars
<1>2. logs \in Seq(LogEntries) /\ <<entry>> \in Seq(LogEntries)
  BY DEF LiveTypeOK
<1>3. logs' = logs \o <<entry>>
  BY <1>1, <1>2, AppendIsConcat
<1>4. RecordingGrows
  BY <1>1, StaysOrGrows
<1>5. \E moreLogs \in Seq(LogEntries) : logs' = logs \o moreLogs
  BY <1>2, <1>3
<1> QED
  BY <1>1, <1>4, <1>5 DEF Grows

LEMMA ProxyGrows ==
  ASSUME TypeOK, LiveTypeOK, ProxyStep
  PROVE  Grows
<1>1. UNCHANGED <<tab, logs>> /\ SaveLogs /\ RecordingGrows /\ Saved
  BY ProxyStepGrows, ProxyStepSaves DEF ProxyStep
<1>2. \E moreLogs \in Seq(LogEntries) : logs' = logs \o moreLogs
  <2>1. logs' = logs \o <<>> /\ <<>> \in Seq(LogEntries)
    BY <1>1, ConcatEmptySeq, EmptySeq DEF LiveTypeOK
  <2> QED
    BY <2>1
<1>3. recording \in Recordings /\ disk \in Seq(Recordings) /\ Len(disk) \in Nat
  BY DEF TypeOK
<1>4. CASE disk' = disk
  BY <1>1, <1>2, <1>3, <1>4 DEF Grows, SaveLogs
<1>5. CASE disk' = Append(disk, recording)
  <2>1. Len(disk') = Len(disk) + 1
    BY <1>3, <1>5, AppendProperties
  <2>2. savedLogs' = Append(savedLogs, logs)
    BY <1>1, <1>3, <2>1 DEF SaveLogs
  <2> QED
    BY <1>1, <1>2, <1>5, <2>2 DEF Grows
<1> QED
  BY <1>1, <1>4, <1>5 DEF Saved

\* The number saved last is at most the next one.
LEMMA LastIsNext ==
  ASSUME TypeOK, lastSavedId <= Len(disk) + 1, Saved
  PROVE  lastSavedId' <= Len(disk') + 1 /\ Len(disk) <= Len(disk')
<1>1. /\ recording \in Recordings /\ disk \in Seq(Recordings) /\ Len(disk) \in Nat
      /\ lastSavedId \in Nat
  BY DEF TypeOK
<1>2. Len(disk') \in {Len(disk), Len(disk) + 1}
  BY <1>1, AppendProperties DEF Saved
<1> QED
  BY <1>1, <1>2 DEF Saved

\* A step of the proxy, or a log that comes in.
LEMMA GrowsFinish ==
  ASSUME TypeOK, LiveTypeOK, ShowsInv, FinishInv, Grows, Saved,
         isReplaying' = isReplaying \/ (~isReplaying' /\ lastSavedId' = Len(disk) + 1)
  PROVE  FinishInv'
<1>1. lastSavedId' <= Len(disk') + 1 /\ Len(disk) <= Len(disk') /\ UNCHANGED tab
  BY LastIsNext DEF FinishInv, Grows
<1>2. /\ disk \in Seq(Recordings) /\ tab \in Pages /\ Len(disk) \in Nat /\ Len(disk') \in Nat
      /\ lastSavedId \in Nat /\ recording \in Recordings
  <2>1. disk \in Seq(Recordings) /\ tab \in Pages /\ lastSavedId \in Nat /\ recording \in Recordings
    BY DEF TypeOK, LiveTypeOK
  <2> QED
    BY <2>1, AppendProperties DEF Saved
<1>3. ASSUME tab.at = "finished", ~tab.stale
      PROVE  /\ tab.told <= Len(disk') + 1
             /\ Fits(tab, tab.told, disk, savedLogs, recording.Requests, logs)'
  <2>1. /\ tab.told <= Len(disk) + 1 /\ tab.told \in Nat
        /\ Fits(tab, tab.told, disk, savedLogs, recording.Requests, logs)
    BY <1>2, <1>3 DEF FinishInv, Pages
  <2> DEFINE id == tab.told
  <2>2. id \in Nat /\ id <= Len(disk) + 1
    BY <2>1
  <2> HIDE DEF id
  <2>3. Fits(tab, id, disk, savedLogs, recording.Requests, logs)
    BY <2>1 DEF id
  <2>4. Fits(tab', id, disk', savedLogs', recording'.Requests, logs')
    BY <2>2, <2>3, GrowsFits DEF Fits
  <2> QED
    BY <1>1, <1>2, <2>1, <2>4 DEF id
<1>4. ASSUME tab.at = "live", ~tab.stale, tab.replaying, ~isReplaying'
      PROVE  Fits(tab, lastSavedId, disk, savedLogs, recording.Requests, logs)'
  <2>1. CASE lastSavedId' = Len(disk) + 1
    <3>1. Shown(tab.requests, tab.writtenRequests, recording.Requests)
      BY <1>4 DEF ShowsInv, ShowsTheRecording
    <3>2. Shown(tab.logs, tab.writtenLogs, logs)
      BY <1>4 DEF ShowsInv, ShowsTheRecording
    <3> DEFINE id == Len(disk) + 1
    <3>3. Fits(tab, id, disk, savedLogs, recording.Requests, logs)
      BY <1>2, <3>1, <3>2 DEF Fits
    <3>4. id \in Nat /\ id <= Len(disk) + 1
      BY <1>2
    <3>5. lastSavedId' = id
      BY <2>1
    <3> HIDE DEF id
    <3>6. Fits(tab', id, disk', savedLogs', recording'.Requests, logs')
      BY <3>3, <3>4, GrowsFits DEF Fits
    <3> QED
      BY <3>5, <3>6
  <2>2. CASE lastSavedId' = lastSavedId /\ lastSavedId # Len(disk) + 1
    <3>1. ~isReplaying /\ Fits(tab, lastSavedId, disk, savedLogs, recording.Requests, logs)
      BY <1>4, <2>2 DEF FinishInv
    <3> DEFINE id == lastSavedId
    <3>2. id \in Nat /\ id <= Len(disk) + 1 /\ lastSavedId' = id
      BY <1>2, <2>2 DEF FinishInv
    <3>3. Fits(tab, id, disk, savedLogs, recording.Requests, logs)
      BY <3>1
    <3> HIDE DEF id
    <3>4. Fits(tab', id, disk', savedLogs', recording'.Requests, logs')
      BY <3>2, <3>3, GrowsFits DEF Fits
    <3> QED
      BY <3>2, <3>4
  <2> QED
    BY <2>1, <2>2 DEF Saved
<1>5. ASSUME tab.at = "live", ~tab.stale, isReplaying' PROVE tab.replaying
  BY <1>5 DEF FinishInv
<1> QED
  BY <1>1, <1>3, <1>4, <1>5 DEF FinishInv

\* A handler that replaces the recording makes a page that is open stale.
LEMMA TabFinishes ==
  ASSUME TypeOK, LiveTypeOK, ShowsInv, FinishInv, Tab
  PROVE  FinishInv'
<1>0. lastSavedId' <= Len(disk') + 1
  <2>1. [LiveNext]_liveVars
    BY DEF LiveNext
  <2> QED
    BY <2>1, CallersSave, LastIsNext DEF FinishInv
<1>1. tab \in Pages /\ isReplaying \in BOOLEAN
  BY DEF TypeOK, LiveTypeOK
<1>2. CASE Unconnected
  BY <1>0, <1>2, UnconnectedPage DEF FinishInv
<1>6. CASE TabClicks /\ Leaves("page", TRUE)
  BY <1>0, <1>6, LeavesPage DEF FinishInv
<1>7. CASE TabClicksInVain \/ (TabClicks /\ ~Leaves("page", TRUE))
  <2>1. PICK next \in {"page", "empty"} : Leaves(next, FALSE)
    BY <1>7 DEF TabClicksInVain, TabClicks
  <2>2. UNCHANGED <<recording.Requests, logs, savedLogs, disk, lastSavedId, isReplaying>>
    BY <1>7, BlockConfigKeeps DEF TabClicks, TabClicksInVain, BlockConfigRefused,
       StartReplayMissing, fileVars, replayVars
  <2> QED
    BY <1>0, <2>1, <2>2, LeavesPage DEF FinishInv, Fits, Shown
<1>3. CASE TabConnects
  <2>1. tab'.at = "live" /\ tab'.replaying = isReplaying /\ UNCHANGED isReplaying
    BY <1>1, <1>3 DEF TabConnects, Pages, vars, replayVars
  <2> QED
    BY <1>0, <2>1 DEF FinishInv
<1>4. CASE LiveUpdatesHandler
  <2>1. tab'.at = "live" /\ tab'.replaying = isReplaying /\ UNCHANGED isReplaying
    BY <1>1, <1>4 DEF LiveUpdatesHandler, Pages, vars, replayVars
  <2> QED
    BY <1>0, <2>1 DEF FinishInv
<1>5. CASE LiveUpdatesFinish
  <2>1. /\ tab.at = "live" /\ tab.replaying # isReplaying
        /\ tab'.at = "finished" /\ tab'.told = lastSavedId /\ tab'.stale = tab.stale
        /\ tab'.requests = tab.requests /\ tab'.writtenRequests = tab.writtenRequests
        /\ tab'.logs = tab.logs /\ tab'.writtenLogs = tab.writtenLogs
        /\ UNCHANGED <<recording, disk, lastSavedId, logs, savedLogs>>
    BY <1>1, <1>5 DEF LiveUpdatesFinish, Pages, vars, fileVars
  <2>2. ASSUME ~tab.stale
        PROVE  Fits(tab, lastSavedId, disk, savedLogs, recording.Requests, logs)
    <3>1. tab.replaying /\ ~isReplaying
      BY <1>1, <2>1, <2>2 DEF FinishInv, Pages
    <3> QED
      BY <2>1, <2>2, <3>1 DEF FinishInv
  <2> QED
    BY <1>0, <2>1, <2>2 DEF FinishInv, Fits
<1> QED
  BY <1>2, <1>3, <1>4, <1>5, <1>6, <1>7 DEF Tab, Unconnected

LEMMA ScriptFinishes ==
  ASSUME TypeOK, LiveTypeOK, FinishInv, Script
  PROVE  FinishInv'
<1>1. CASE ScriptStarts
  <2>1. tab' = [tab EXCEPT !.stale = @ \/ tab.at \in {"live", "finished"}] /\ tab \in Pages
    BY <1>1 DEF ScriptStarts, LiveTypeOK
  <2>2. tab'.at = tab.at /\ (tab.at \in {"live", "finished"} => tab'.stale)
    BY <2>1 DEF Pages
  <2>3. UNCHANGED <<disk, lastSavedId>>
    BY <1>1 DEF ScriptStarts, StartReplay, StartReplayHandler, fileVars
  <2> QED
    BY <2>2, <2>3 DEF FinishInv
<1>2. CASE ScriptPolls \/ LatestRecordingHandler
  BY <1>2 DEF ScriptPolls, LatestRecordingHandler, vars, fileVars, replayVars, FinishInv, Fits
<1> QED
  BY <1>1, <1>2 DEF Script

\* When a replay is over, the page goes to the recording that its connection has
\* shown, also if that is written to its file only later: as long as nobody
\* replaces the recording that the connection began with (LiveUpdatesHandler,
\* src/api.go:293, EndReplay).
THEOREM LiveFinishes == LiveSpec => []FinishedIsShown
<1>1. LiveInit => FinishInv
  <2> SUFFICES ASSUME LiveInit PROVE FinishInv
    OBVIOUS
  <2>1. disk \in Seq(Recordings) /\ lastSavedId = 0
    BY ProxyAssumption DEF LiveInit, Init
  <2>2. tab.at = "loading"
    BY DEF LiveInit, Blank
  <2>3. Len(disk) \in Nat
    BY <2>1
  <2> QED
    BY <2>1, <2>2, <2>3 DEF FinishInv
<1>2. TypeOK /\ LiveTypeOK /\ ShowsInv /\ FinishInv /\ [LiveNext]_liveVars => FinishInv'
  <2> SUFFICES ASSUME TypeOK, LiveTypeOK, ShowsInv, FinishInv, [LiveNext]_liveVars
               PROVE  FinishInv'
    OBVIOUS
  <2>1. CASE UNCHANGED liveVars
    BY <2>1 DEF liveVars, vars, fileVars, replayVars, FinishInv, Fits
  <2>2. CASE ProxyStep
    BY <2>2, ProxyGrows, ProxyStepSaves, GrowsFinish
  <2>3. ASSUME NEW entry \in LogEntries, LogHandler(entry) PROVE FinishInv'
    BY <2>3, LogGrows, CallersSave, GrowsFinish DEF LiveNext
  <2> QED
    BY <2>1, <2>2, <2>3, TabFinishes, ScriptFinishes DEF LiveNext
<1>3. LiveSpec => [](TypeOK /\ LiveTypeOK)
  BY CallersRefine, TypeCorrect, LiveTypes, PTL
<1>4. LiveSpec => []ShowsInv
  BY LiveShowsInv
<1>5. FinishInv => FinishedIsShown
  BY DEF FinishInv, FinishedIsShown, Fits
<1> QED
  BY <1>1, <1>2, <1>3, <1>4, <1>5, PTL DEF LiveSpec

=============================================================================
