----------------------------- MODULE LiveUpdates ----------------------------
(***************************************************************************)
(* Who calls the handlers of Proxy: a tab of the user's browser, whose     *)
(* page every handler of the GUI answers with and which LiveUpdatesHandler *)
(* keeps up to date (src/api.go, src/templates/main.html), and a script    *)
(* that runs replays, asks StatusHandler whether they are over and         *)
(* LatestRecordingHandler what they have recorded, as run_replay of        *)
(* src/examples/synthetic/experiments.py does.  The logs of the recording  *)
(* come in, which Proxy leaves out.                                        *)
(*                                                                         *)
(* The handlers, and what the goroutines of the proxy do, are the actions  *)
(* of Proxy; here they are given their callers.                            *)
(***************************************************************************)
EXTENDS Proxy

CONSTANTS
    LogEntries,  \* what the log driver posts
    MaxLogs,     \* bound on the logs of the recording
    MaxClicks,   \* bound on the handlers the user of the tab calls
    MaxBreaks    \* bound on the connections of live updates that break

ASSUME LiveAssumption == {MaxLogs, MaxClicks, MaxBreaks} \subseteq Nat

VARIABLES
    logs,        \* p.recording.Logs
    savedLogs,   \* the logs in the files of disk
    tab,         \* the page, and the LiveUpdatesHandler that serves it now
    script       \* where run_replay is

liveVars == <<vars, logs, savedLogs, tab, script>>

\* requests and logs are the events that this connection has written; the rows
\* that earlier ones have left above them on the page are not kept.  next is what
\* the browser will load in place of the page; stale tells that a handler has
\* replaced the recording since the page connected.
Pages == [at : {"none", "loading", "live", "finished"}, next : {"stay", "page", "empty"},
          replaying : BOOLEAN, writtenRequests : Nat, writtenLogs : Nat,
          requests : Seq(Request), logs : Seq(LogEntries),
          told : Nat, stale : BOOLEAN, clicks : Nat, breaks : Nat]

\* alone tells that the tab has called no handler since the script started its
\* replay; before, which recordings there were then.
Scripts == [at : {"idle", "polling", "asking"}, before : Nat, alone : BOOLEAN, got : Nat]

LiveTypeOK ==
    /\ logs \in Seq(LogEntries)
    /\ savedLogs \in Seq(Seq(LogEntries)) /\ Len(savedLogs) = Len(disk)
    /\ tab \in Pages
    /\ script \in Scripts

Blank == [at |-> "none", next |-> "stay",
          replaying |-> FALSE, writtenRequests |-> 0, writtenLogs |-> 0,
          requests |-> <<>>, logs |-> <<>>,
          told |-> 0, stale |-> FALSE, clicks |-> 0, breaks |-> 0]

\* The user has just opened the GUI.
LiveInit ==
    /\ Init
    /\ logs = <<>>
    /\ savedLogs = [id \in DOMAIN SavedRecordings |-> <<>>]
    /\ tab = [Blank EXCEPT !.at = "loading"]
    /\ script = [at |-> "idle", before |-> 0, alone |-> FALSE, got |-> 0]
-----------------------------------------------------------------------------
(* What becomes of the logs when the recording is replaced or saved.       *)

FaultySaveLogs == UNCHANGED savedLogs

SaveLogs == savedLogs' = IF Len(disk') > Len(disk) THEN Append(savedLogs, logs) ELSE savedLogs

Inspect(id) == InspectHandler(id) /\ logs' = savedLogs[id] /\ UNCHANGED savedLogs

StartReplay(id, keepMode) ==
    StartReplayHandler(id, keepMode) /\ logs' = <<>> /\ UNCHANGED savedLogs

\* The handlers that answer with a page; one of them leaves the recording there.
PageHandler ==
    \/ HomeHandler /\ logs' = <<>> /\ UNCHANGED savedLogs
    \/ \E id \in DOMAIN disk : Inspect(id)
    \/ StartRecordingHandler /\ logs' = <<>> /\ UNCHANGED savedLogs
    \/ EndRecordingHandler /\ logs' = <<>> /\ SaveLogs
    \/ \E id \in DOMAIN disk, keepMode \in BOOLEAN : StartReplay(id, keepMode)

BlockConfigPage ==
    \E form \in Forms : BlockConfigHandler(form) /\ UNCHANGED <<logs, savedLogs>>

LogHandler(entry) ==
    /\ mu = "free"
    /\ ~isInspecting /\ Len(logs) < MaxLogs
    /\ logs' = Append(logs, entry)
    /\ UNCHANGED <<vars, savedLogs, tab, script>>

\* The connections and the replay, which have no caller here.
ProxyStep ==
    /\ (\E c \in Conns : HandlerSteps(c)) \/ ReplaySteps
    /\ SaveLogs
    /\ UNCHANGED <<logs, tab, script>>
-----------------------------------------------------------------------------
(* The tab.  A handler that is called for a page does its work long before *)
(* the browser has the new page (TabLoads): until then the old page is      *)
(* there, and its LiveUpdatesHandler goes on.                               *)

\* The browser asks for another page: from now on the recording may be another.
Leaves(next, replaced) ==
    /\ tab.clicks < MaxClicks
    /\ tab' = [tab EXCEPT
                  !.next = next, !.clicks = @ + 1,
                  !.stale = @ \/ (replaced /\ tab.at \in {"live", "finished"})]

TabClicks ==
    /\ \/ PageHandler /\ Leaves("page", TRUE)
       \/ BlockConfigPage /\ Leaves("page", FALSE)
    /\ script' = [script EXCEPT !.alone = FALSE]

\* The handler has returned with the lock and an empty answer, or panicked with
\* the lock.
TabClicksInVain ==
    /\ BlockConfigRefused \/ StartReplayMissing
    /\ Leaves("empty", FALSE)
    /\ script' = [script EXCEPT !.alone = FALSE]
    /\ UNCHANGED <<logs, savedLogs>>

\* The tab without a connection.
Fresh(at, next, breaks) ==
    [Blank EXCEPT !.at = at, !.next = next, !.clicks = tab.clicks, !.breaks = breaks]

\* The new page is there.  The connection of the old one is closed, which ends
\* its LiveUpdatesHandler.
TabLoads ==
    /\ tab.next # "stay"
    /\ tab' = Fresh(IF tab.next = "page" THEN "loading" ELSE "none", "stay", tab.breaks)
    /\ UNCHANGED <<vars, logs, savedLogs, script>>

\* The counters are the proxy's, not the connection's.
FaultyTabConnects ==
    /\ tab.at = "loading"
    /\ tab' = [tab EXCEPT !.at = "live", !.replaying = isReplaying, !.stale = FALSE,
                          !.writtenRequests = Len(recording.Requests)]
    /\ UNCHANGED <<vars, logs, savedLogs, script>>

\* The EventSource of the page connects, or connects again: the handler reads
\* isReplaying, without the lock, and has written nothing yet.
TabConnects ==
    /\ tab.at = "loading"
    /\ tab' = [tab EXCEPT !.at = "live", !.replaying = isReplaying, !.stale = FALSE,
                          !.writtenRequests = 0, !.writtenLogs = 0]
    /\ UNCHANGED <<vars, logs, savedLogs, script>>

Rest(seq, written) == SubSeq(seq, written + 1, Len(seq))
Further(written, seq) == IF written < Len(seq) THEN Len(seq) ELSE written

\* A round of the loop that finds the mode as it was: events are written while
\* the counters are behind the recording, whichever recording that is.
LiveUpdatesHandler ==
    /\ tab.at = "live" /\ mu = "free"
    /\ tab.replaying = isReplaying
    /\ tab' = [tab EXCEPT
                  !.requests = @ \o Rest(recording.Requests, tab.writtenRequests),
                  !.writtenRequests = Further(@, recording.Requests),
                  !.logs = @ \o Rest(logs, tab.writtenLogs),
                  !.writtenLogs = Further(@, logs)]
    /\ UNCHANGED <<vars, logs, savedLogs, script>>

\* The connection breaks, or one of its events cannot be written: the handler
\* returns, and the EventSource will connect again.
TabBreaks ==
    /\ tab.at = "live" /\ tab.breaks < MaxBreaks
    /\ tab' = Fresh("loading", tab.next, tab.breaks + 1)
    /\ UNCHANGED <<vars, logs, savedLogs, script>>

\* A round that finds another mode is the last.  The page will go elsewhere than
\* where the browser was about to.
LiveUpdatesFinish ==
    /\ tab.at = "live" /\ mu = "free"
    /\ tab.replaying # isReplaying
    /\ tab' = [tab EXCEPT !.at = "finished", !.told = lastSavedId, !.next = "stay"]
    /\ UNCHANGED <<vars, logs, savedLogs, script>>

\* The page asks for /load_recording with the number it was told.
TabFollows ==
    /\ tab.at = "finished"
    /\ \/ tab.told \in DOMAIN disk /\ Inspect(tab.told)
       \/ tab.told \notin DOMAIN disk /\ UNCHANGED <<vars, logs, savedLogs>>
    /\ tab' = Fresh("none", IF tab.told \in DOMAIN disk THEN "page" ELSE "empty", tab.breaks)
    /\ script' = [script EXCEPT !.alone = FALSE]
-----------------------------------------------------------------------------
(* The script.                                                             *)

StatusHandler ==
    IF isReplaying THEN "replaying"
    ELSE IF isInspecting THEN "inspecting"
    ELSE IF isRecording THEN "recording" ELSE "none"

ScriptStarts ==
    /\ script.at = "idle"
    /\ \E id \in DOMAIN disk : StartReplay(id, FALSE)
    /\ script' = [at |-> "polling", before |-> Len(disk), alone |-> TRUE, got |-> 0]
    /\ tab' = [tab EXCEPT !.stale = @ \/ tab.at \in {"live", "finished"}]

ScriptPolls ==
    /\ script.at = "polling" /\ mu = "free"
    /\ StatusHandler # "replaying"
    /\ script' = [script EXCEPT !.at = "asking"]
    /\ UNCHANGED <<vars, logs, savedLogs, tab>>

LatestRecordingHandler ==
    /\ script.at = "asking" /\ mu = "free"
    /\ script' = [script EXCEPT !.at = "idle", !.got = lastSavedId]
    /\ UNCHANGED <<vars, logs, savedLogs, tab>>
-----------------------------------------------------------------------------
Tab ==
    \/ TabClicks \/ TabClicksInVain
    \/ TabLoads \/ TabConnects \/ TabBreaks
    \/ LiveUpdatesHandler \/ LiveUpdatesFinish \/ TabFollows

Script == ScriptStarts \/ ScriptPolls \/ LatestRecordingHandler

LiveNext == ProxyStep \/ Tab \/ Script \/ \E entry \in LogEntries : LogHandler(entry)

LiveSpec == LiveInit /\ [][LiveNext]_liveVars
-----------------------------------------------------------------------------
(* What the callers are promised.                                          *)

\* events, counted up to written, are the first ones of seq.
Shown(events, written, seq) == written <= Len(seq) /\ events = SubSeq(seq, 1, written)

\* What a connection of live updates has put on the page are the events of the
\* recording from the first, each once, as far as it has counted, and none of
\* another recording: as long as nobody has replaced the recording since it was
\* made.  (The page that is there until the next one comes, and the page of
\* another tab, are then stale.  If the connection breaks, its rows stay, and the
\* next one puts the events on the page once more.)
ShowsTheRecording ==
    tab.at = "live" /\ ~tab.stale =>
        /\ Shown(tab.requests, tab.writtenRequests, recording.Requests)
        /\ Shown(tab.logs, tab.writtenLogs, logs)

\* The recording the page is sent to when a replay is over is the one it was
\* showing, though it is told its number only later: unless the recording has
\* been replaced since the page connected.
FinishedIsShown ==
    tab.at = "finished" /\ ~tab.stale /\ tab.told \in DOMAIN disk =>
        /\ Shown(tab.requests, tab.writtenRequests, disk[tab.told].Requests)
        /\ Shown(tab.logs, tab.writtenLogs, savedLogs[tab.told])

\* run_replay "runs a replay and returns the new recording's id": a recording
\* made since it began, though it asks twice, after the replay has ended.
\* (Where nobody else uses the proxy meanwhile.)
ReturnsNewRecording ==
    script.alone /\ script.got # 0 => script.got > script.before
=============================================================================
