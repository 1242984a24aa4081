-------------------------------- MODULE Proxy -------------------------------
(***************************************************************************)
(* The proxy of ditm: src/proxy.go, with the handlers of src/api.go that   *)
(* change its state and the saving and loading of recordings they use      *)
(* (src/files.go).                                                         *)
(*                                                                         *)
(* Everything that runs between p.mu.Lock() and p.mu.Unlock() is one       *)
(* action; what the code does without the lock is an action of its own:    *)
(* the forwarding of a request, the unlocked reads of isReplaying and      *)
(* replayTimer, the sends on endReplayC, the sleeps.  The actors are the   *)
(* goroutines of the connections Conns, the other goroutines that are      *)
(* under way (a StartReplayHandler asleep before its first request, an     *)
(* EndReplay started by a timer), and the user, who may call any handler   *)
(* at any time.                                                            *)
(*                                                                         *)
(* A replay timer is a number: the n-th StartReplay makes timer n.  Time   *)
(* is not modelled: an armed timer may fire at any moment, and a sleep may *)
(* take arbitrarily long.                                                  *)
(*                                                                         *)
(* An operator named Faulty... is the operator after it with a bug that    *)
(* would be easy to write: no action uses it.  PROJECT.json names, under   *)
(* "mutants", the property that tells the two apart.                       *)
(***************************************************************************)
EXTENDS RequestMatcher

CONSTANTS
    Conns,            \* the connections from which requests arrive
    SavedRecordings,  \* the recordings on disk when the proxy starts
    Forms,            \* the forms posted to /block_config: a form has those of
                      \* the fields that the user filled in
    Arriving,         \* the messages of Traffic that arrive
    Events,           \* which of the optional steps below may happen
    MaxRequests,      \* bound on the length of the recording being made
    MaxConfigs,       \* bound on its list of block configurations
    MaxReplays,       \* bound on the calls of /start_replay
    MaxSaved,         \* how many recordings fit on the disk
    MaxGoroutines     \* bound on the goroutines of each of Places, below, and
                      \* on those that wait behind the token of endReplayC

\* User calls and environment failures a model may switch on.
AllEvents == {"home", "inspect", "block_config", "start_recording",
              "end_recording", "start_replay", "missing_recording",
              "body_error", "upstream_error", "write_error"}

Modes == {"", "none", "random", "partitions", "replay"}

BlockConfigs == [Mode : Modes, Partitions : SUBSET SUBSET Nodes,
                 Percentage : Int]

Recordings == [Requests : Seq(Request), BlockConfigs : Seq(BlockConfigs)]

NoRecording == [Requests |-> <<>>, BlockConfigs |-> <<>>]

ASSUME ProxyAssumption ==
    /\ SavedRecordings \in Seq(Recordings)
    /\ Arriving \subseteq Traffic
    /\ Events \subseteq AllEvents
    /\ \A form \in Forms :
          /\ DOMAIN form \subseteq {"mode", "partitions", "percentage", "matcher"}
          /\ "mode" \in DOMAIN form => form.mode \in Modes
          /\ "partitions" \in DOMAIN form => form.partitions \in SUBSET SUBSET Nodes
          /\ "percentage" \in DOMAIN form => form.percentage \in Int
          /\ "matcher" \in DOMAIN form => form.matcher \in Kinds
    /\ {MaxRequests, MaxConfigs, MaxReplays, MaxSaved, MaxGoroutines} \subseteq Nat

\* No block is possible for a request from outside, and the recordings found
\* at the start were made by this proxy.
NoOutsideBlock(requests) ==
    \A i \in DOMAIN requests :
        FromOutside(requests[i]) => VerdictOf(requests[i]) = Pass

ASSUME SavedAssumption ==
    \A id \in DOMAIN SavedRecordings :
        NoOutsideBlock(SavedRecordings[id].Requests)

\* The goroutine that sends on endReplayC and is not a connection's.
Nobody == "nobody"
ASSUME NobodyAssumption == Nobody \notin Conns

VARIABLES
    mu,             \* "leaked" once a handler returned without unlocking
    isRecording, isReplaying, isInspecting,
    blockConfig,    \* p.blockConfig, without its time stamp
    recording,      \* p.recording: requests and block configurations
    replayingFrom,  \* p.replayingFrom
    seen,           \* p.matcher's marks, as indices of replayingFrom.Requests
    replayTimer,    \* p.replayTimer: a timer, or NoTimer for nil
    armed,          \* the timers that are running
    timers,         \* the number of timers made so far
    endReplayC,     \* the token in the channel's buffer, then the senders
    disk,           \* /recordings/<id>.json, by id
    lastSavedId,    \* p.lastSavedId
    pc,             \* where the goroutine of each connection is
    loaded,         \* the timer ResetReplayTimer has read, per connection
    goroutines      \* how many other goroutines are at each of Places

userVars == <<isRecording, isInspecting, blockConfig>>
replayVars == <<isReplaying, replayingFrom, seen, replayTimer, armed, timers>>
fileVars == <<disk, lastSavedId>>
connVars == <<pc, loaded>>
vars == <<mu, userVars, recording, replayVars, endReplayC, fileVars,
          connVars, goroutines>>

NoTimer == 0

\* kick: StartReplayHandler, before its nextOutsideRequest; fired: EndReplay,
\* before it locks; next: EndReplay, before its nextOutsideRequest; sleep:
\* EndReplay in its last 100 ms; offer: any of them, sending on endReplayC.
Places == {"kick", "fired", "next", "sleep", "offer"}

Matcher == blockConfig.Matcher

TypeOK ==
    /\ mu \in {"free", "leaked"}
    /\ isRecording \in BOOLEAN
    /\ isReplaying \in BOOLEAN
    /\ isInspecting \in BOOLEAN
    /\ blockConfig \in [Mode : Modes, Partitions : SUBSET SUBSET Nodes,
                        Percentage : Int, Matcher : Kinds, previousMode : Modes]
    /\ recording \in Recordings
    /\ replayingFrom \in Recordings
    /\ seen \subseteq DOMAIN replayingFrom.Requests
    /\ timers \in Nat
    /\ replayTimer \in 0..timers
    /\ armed \subseteq 1..timers
    /\ endReplayC \in Seq(Conns \cup {Nobody})
    /\ disk \in Seq(Recordings)
    /\ lastSavedId \in Nat
    /\ pc \in [Conns -> {"idle", "forward", "withhold", "check", "next",
                         "offer", "sending", "reset", "load", "rearm"}]
    /\ loaded \in [Conns -> 0..timers]
    /\ \A c \in Conns : pc[c] = "rearm" => loaded[c] # NoTimer
    /\ goroutines \in [Places -> Nat]

\* InitProxy.
Init ==
    /\ mu = "free"
    /\ isRecording = FALSE /\ isReplaying = FALSE /\ isInspecting = FALSE
    /\ blockConfig = [Mode |-> "none", Partitions |-> {Nodes},
                      Percentage |-> 50, Matcher |-> "heuristic",
                      previousMode |-> ""]
    /\ recording = NoRecording
    /\ replayingFrom = NoRecording
    /\ seen = {}
    /\ replayTimer = NoTimer /\ armed = {} /\ timers = 0
    /\ endReplayC = <<>>
    /\ disk = SavedRecordings /\ lastSavedId = 0
    /\ pc = [c \in Conns |-> "idle"]
    /\ loaded = [c \in Conns |-> NoTimer]
    /\ goroutines = [place \in Places |-> 0]

-----------------------------------------------------------------------------
(* Helpers of the actions.                                                 *)

Goto(c, place) == pc' = [pc EXCEPT ![c] = place]

\* One of the other goroutines starts at, moves between, or leaves a place.
Spawn(place) ==
    /\ goroutines[place] < MaxGoroutines
    /\ goroutines' = [goroutines EXCEPT ![place] = @ + 1]
Move(from, to) ==
    /\ goroutines[from] > 0 /\ goroutines[to] < MaxGoroutines
    /\ goroutines' = [goroutines EXCEPT ![from] = @ - 1, ![to] = @ + 1]
Leave(place) ==
    /\ goroutines[place] > 0
    /\ goroutines' = [goroutines EXCEPT ![place] = @ - 1]

record(r) == recording' = [recording EXCEPT !.Requests = Append(@, r)]

\* The number of the last file is remembered.
FaultyWriteRecording ==
    /\ lastSavedId' = Len(disk)
    /\ disk' = IF Len(disk) < MaxSaved THEN Append(disk, recording) ELSE disk

\* The file gets the next free id, which is remembered before it is written.
\* Nothing is written to a disk that is full.
writeRecording ==
    /\ lastSavedId' = Len(disk) + 1
    /\ \/ Len(disk) < MaxSaved /\ disk' = Append(disk, recording)
       \/ Len(disk) >= MaxSaved /\ disk' = disk
       \/ "write_error" \in Events /\ disk' = disk

\* p.replayTimer is not reset.
FaultyStopTimer ==
    /\ armed' = armed \ {replayTimer}
    /\ UNCHANGED replayTimer

\* What the cancelling handlers do to the timer.
StopTimer ==
    /\ armed' = armed \ {replayTimer}
    /\ replayTimer' = NoTimer

\* A send on endReplayC by who: the buffer holds one token, and who waits
\* behind it when it is full.  A receive lets the first waiting sender go on.
Offer(who) ==
    endReplayC' = Append(endReplayC, IF endReplayC = <<>> THEN Nobody ELSE who)

Receive ==
    /\ endReplayC # <<>>
    /\ endReplayC' = IF Len(endReplayC) = 1 THEN <<>>
                     ELSE <<Nobody>> \o Tail(Tail(endReplayC))
    /\ pc' = [c \in Conns |->
                 IF Len(endReplayC) > 1 /\ c = endReplayC[2]
                 THEN "idle" ELSE pc[c]]

-----------------------------------------------------------------------------
(* The decision on a message (BlockConfig.Block, Proxy.replayBlock): the   *)
(* verdict, and the marks the matcher sets on the way.                     *)

replayBlock(m) ==
    LET rec == replayingFrom.Requests
        configs == replayingFrom.BlockConfigs
        match == Match(Matcher, m, recording.Requests, rec, seen)
    IN  IF Matcher = "timing"
        THEN [verdict : UNION {TimingVerdicts(configs, n, m) : n \in 0..Len(configs)},
              marks : {TimingMarks(rec, k) : k \in 0..Len(rec)}]
        ELSE {[verdict |-> IF match = NoMatch THEN Pass ELSE VerdictOf(rec[match]),
               marks |-> MatchMarks(Matcher, match)]}

Decisions(m) ==
    IF blockConfig.Mode = "replay" /\ ~IsOutside(m)
    THEN replayBlock(m)
    ELSE [verdict : Block(blockConfig, m, {}), marks : {{}}]

-----------------------------------------------------------------------------
(* nextOutsideRequest.  The loop runs over the unseen requests of the      *)
(* replayed recording, takes those from outside, and stops at the first of *)
(* Stops: an inside request, unless alwaysSend, or an outside request that *)
(* is not the first unseen one.  To take a request is to mark it, to       *)
(* record it, and to start a goroutine that sends it.  What is modelled is *)
(* the marks and the records, which the lock protects: the goroutines      *)
(* touch nothing but the response in the record, and nothing orders them,  *)
(* so in which order requests reach the system is not said anywhere.       *)

Unseen == DOMAIN replayingFrom.Requests \ seen

UnseenOutside == {i \in Unseen : FromOutside(replayingFrom.Requests[i])}

Stops(alwaysSend) ==
    {i \in Unseen : IF i \in UnseenOutside THEN \E j \in Unseen : j < i
                                          ELSE ~alwaysSend}

\* The loop runs backwards.
FaultyDue(alwaysSend) ==
    {i \in UnseenOutside : \A e \in Unseen : i >= e}

Due(alwaysSend) ==
    {i \in UnseenOutside : \A e \in Stops(alwaysSend) : i <= e}

\* The one enumeration of S in ascending order.
Ascending(S) ==
    {s \in [1..Cardinality(S) -> S] :
        \A j, k \in 1..Cardinality(S) : j < k => s[j] < s[k]}

\* MarkSeen gets the request after it.
FaultyMarkDue(alwaysSend) ==
    /\ seen' = seen \cup {i + 1 : i \in Due(alwaysSend)}
    /\ \E batch \in Ascending(Due(alwaysSend)) :
          recording' = [recording EXCEPT !.Requests =
              @ \o [k \in DOMAIN batch |-> replayingFrom.Requests[batch[k]]]]

\* MarkSeen is forgotten.
FaultySendDue(alwaysSend) ==
    /\ UNCHANGED seen
    /\ \E batch \in Ascending(Due(alwaysSend)) :
          recording' = [recording EXCEPT !.Requests =
              @ \o [k \in DOMAIN batch |-> replayingFrom.Requests[batch[k]]]]

\* What the loop does.  It records what it takes, inspecting or not.
SendDue(alwaysSend) ==
    /\ seen' = seen \cup Due(alwaysSend)
    /\ \E batch \in Ascending(Due(alwaysSend)) :
          recording' = [recording EXCEPT !.Requests =
              @ \o [k \in DOMAIN batch |-> replayingFrom.Requests[batch[k]]]]

-----------------------------------------------------------------------------
(* Handler, on connection c.                                               *)

\* A message arrives, is decided on and recorded.  A blocked one ends here:
\* the panic closes the connection.
HandlerDecide(c) ==
    /\ pc[c] = "idle" /\ mu = "free"
    /\ Len(recording.Requests) < MaxRequests
    /\ \E m \in Arriving : \E d \in Decisions(m) :
          /\ seen' = seen \cup d.marks
          /\ IF isInspecting THEN UNCHANGED recording
                             ELSE record(NewRequest(m, d.verdict))
          /\ Goto(c, IF d.verdict.Blocked THEN "idle"
                     ELSE IF d.verdict.BlockedResponse THEN "withhold" ELSE "forward")
    /\ UNCHANGED <<mu, userVars, isReplaying, replayingFrom, replayTimer, armed,
                   timers, endReplayC, fileVars, loaded, goroutines>>

\* The body cannot be read: the handler answers and returns, still locked.
HandlerReadError(c) ==
    /\ "body_error" \in Events
    /\ pc[c] = "idle" /\ mu = "free"
    /\ mu' = "leaked"
    /\ UNCHANGED <<userVars, recording, replayVars, endReplayC, fileVars,
                   connVars, goroutines>>

\* The upstream's response comes back through ModifyResponse, which locks to
\* store it and panics if the response is to be blocked.
HandlerResponse(c) ==
    /\ pc[c] \in {"forward", "withhold"} /\ mu = "free"
    /\ Goto(c, IF pc[c] = "withhold" THEN "idle" ELSE "check")
    /\ UNCHANGED <<mu, userVars, recording, replayVars, endReplayC, fileVars,
                   loaded, goroutines>>

\* No upstream: a host that does not parse, or a round trip that fails.
HandlerUpstreamError(c) ==
    /\ "upstream_error" \in Events
    /\ pc[c] \in {"forward", "withhold"}
    /\ \E place \in {"idle", "check"} : Goto(c, place)
    /\ UNCHANGED <<mu, userVars, recording, replayVars, endReplayC, fileVars,
                   loaded, goroutines>>

\* isReplaying is read without the lock.
HandlerCheck(c) ==
    /\ pc[c] = "check"
    /\ Goto(c, IF isReplaying THEN "next" ELSE "idle")
    /\ UNCHANGED <<mu, userVars, recording, replayVars, endReplayC, fileVars,
                   loaded, goroutines>>

HandlerNext(c) ==
    /\ pc[c] = "next" /\ mu = "free"
    /\ SendDue(FALSE)
    /\ Goto(c, IF Stops(FALSE) = {} THEN "offer" ELSE "reset")
    /\ UNCHANGED <<mu, userVars, isReplaying, replayingFrom, replayTimer, armed,
                   timers, endReplayC, fileVars, loaded, goroutines>>

\* The token of nextOutsideRequest.  Its false makes the handler return.
HandlerOffer(c) ==
    /\ pc[c] = "offer"
    /\ Offer(c)
    /\ Goto(c, IF endReplayC = <<>> THEN "idle" ELSE "sending")
    /\ UNCHANGED <<mu, userVars, recording, replayVars, fileVars, loaded,
                   goroutines>>

\* ResetReplayTimer without the lock reads the field, first to test it for nil.
HandlerTestTimer(c) ==
    /\ pc[c] = "reset"
    /\ Goto(c, IF replayTimer = NoTimer THEN "idle" ELSE "load")
    /\ UNCHANGED <<mu, userVars, recording, replayVars, endReplayC, fileVars,
                   loaded, goroutines>>

\* It reads the field once more.  The timer that is then there is set again,
\* whatever became of it; nil, which the end of the replay or its cancellation
\* may have put there since the test, makes Reset panic: net/http recovers, and
\* closes the connection.
HandlerLoadTimer(c) ==
    /\ pc[c] = "load"
    /\ loaded' = [loaded EXCEPT ![c] = replayTimer]
    /\ Goto(c, IF replayTimer = NoTimer THEN "idle" ELSE "rearm")
    /\ UNCHANGED <<mu, userVars, recording, replayVars, endReplayC, fileVars,
                   goroutines>>

HandlerRearm(c) ==
    /\ pc[c] = "rearm"
    /\ armed' = armed \cup {loaded[c]}
    /\ loaded' = [loaded EXCEPT ![c] = NoTimer]
    /\ Goto(c, "idle")
    /\ UNCHANGED <<mu, userVars, recording, isReplaying, replayingFrom, seen,
                   replayTimer, timers, endReplayC, fileVars, goroutines>>

-----------------------------------------------------------------------------
(* The user's handlers.  Those that only read are left out.                *)

\* The first lines of HomeHandler and InspectHandler.
CancelReplay ==
    /\ isReplaying' = FALSE
    /\ IF isReplaying THEN StopTimer ELSE UNCHANGED <<armed, replayTimer>>

HomeHandler ==
    /\ "home" \in Events /\ mu = "free"
    /\ CancelReplay
    /\ recording' = NoRecording
    /\ isInspecting' = FALSE
    /\ UNCHANGED <<mu, isRecording, blockConfig, replayingFrom, seen, timers,
                   endReplayC, fileVars, connVars, goroutines>>

\* A recording that cannot be loaded is answered with 404 and nothing else.
InspectHandler(id) ==
    /\ "inspect" \in Events /\ mu = "free"
    /\ CancelReplay
    /\ isRecording' = FALSE
    /\ isInspecting' = TRUE
    /\ recording' = disk[id]
    /\ UNCHANGED <<mu, blockConfig, replayingFrom, seen, timers, endReplayC,
                   fileVars, connVars, goroutines>>

\* The configuration after form was posted.
Configured(form) ==
    LET Field(name, old) == IF name \in DOMAIN form THEN form[name] ELSE old
    IN  [Mode |-> IF Field("mode", "") # "" THEN form.mode ELSE blockConfig.Mode,
         previousMode |-> IF Field("mode", "") # "" THEN blockConfig.Mode
                                                    ELSE blockConfig.previousMode,
         Partitions |-> Field("partitions", blockConfig.Partitions),
         Percentage |-> Field("percentage", blockConfig.Percentage),
         Matcher |-> Field("matcher", Matcher)]

\* What is recorded of a configuration.
Settings(conf) ==
    [Mode |-> conf.Mode, Partitions |-> conf.Partitions,
     Percentage |-> conf.Percentage]

recordBlockConfig(rec, conf) ==
    recording' = [rec EXCEPT !.BlockConfigs = Append(@, Settings(conf))]

\* The configuration is recorded before it is changed.
FaultyBlockConfigHandler(form) ==
    /\ "block_config" \in Events /\ mu = "free"
    /\ ~isReplaying
    /\ Len(recording.BlockConfigs) < MaxConfigs
    /\ blockConfig' = Configured(form)
    /\ seen' = IF "matcher" \in DOMAIN form THEN {} ELSE seen
    /\ recordBlockConfig(recording, blockConfig)
    /\ UNCHANGED <<mu, isRecording, isInspecting, isReplaying, replayingFrom,
                   replayTimer, armed, timers, endReplayC, fileVars, connVars,
                   goroutines>>

\* A matcher that is posted is a new one, with no marks.
BlockConfigHandler(form) ==
    /\ "block_config" \in Events /\ mu = "free"
    /\ ~isReplaying
    /\ Len(recording.BlockConfigs) < MaxConfigs
    /\ blockConfig' = Configured(form)
    /\ seen' = IF "matcher" \in DOMAIN form THEN {} ELSE seen
    /\ recordBlockConfig(recording, Configured(form))
    /\ UNCHANGED <<mu, isRecording, isInspecting, isReplaying, replayingFrom,
                   replayTimer, armed, timers, endReplayC, fileVars, connVars,
                   goroutines>>

\* During a replay it returns at once, still locked.
BlockConfigRefused ==
    /\ "block_config" \in Events /\ mu = "free"
    /\ isReplaying
    /\ mu' = "leaked"
    /\ UNCHANGED <<userVars, recording, replayVars, endReplayC, fileVars,
                   connVars, goroutines>>

\* The volumes are saved too: see module Files.
StartRecordingHandler ==
    /\ "start_recording" \in Events /\ mu = "free"
    /\ isRecording' = TRUE
    /\ isInspecting' = FALSE
    /\ recordBlockConfig(NoRecording, blockConfig)
    /\ replayingFrom' = NoRecording
    /\ seen' = {}
    /\ UNCHANGED <<mu, blockConfig, isReplaying, replayTimer, armed, timers,
                   endReplayC, fileVars, connVars, goroutines>>

EndRecordingHandler ==
    /\ "end_recording" \in Events /\ mu = "free"
    /\ writeRecording
    /\ recording' = NoRecording
    /\ isRecording' = FALSE
    /\ UNCHANGED <<mu, isInspecting, blockConfig, replayVars, endReplayC,
                   connVars, goroutines>>

\* Loading makes new requests, none of which is marked.  A timer of an
\* earlier replay keeps running.
StartReplayHandler(id, keepMode) ==
    /\ "start_replay" \in Events /\ mu = "free"
    /\ timers < MaxReplays
    /\ isRecording' = FALSE
    /\ replayingFrom' = disk[id]
    /\ seen' = {}
    /\ recording' = NoRecording
    /\ isReplaying' = TRUE
    /\ isInspecting' = FALSE
    /\ blockConfig' = [blockConfig EXCEPT
                          !.previousMode = blockConfig.Mode,
                          !.Mode = IF keepMode THEN @ ELSE "replay"]
    /\ timers' = timers + 1
    /\ replayTimer' = timers'
    /\ armed' = armed \cup {timers'}
    /\ Spawn("kick")
    /\ UNCHANGED <<mu, endReplayC, fileVars, connVars>>

\* The recording cannot be loaded: the nil pointer it gets is dereferenced,
\* and net/http recovers the panic of a handler that still holds the lock.
StartReplayMissing ==
    /\ "missing_recording" \in Events /\ mu = "free"
    /\ isRecording' = FALSE
    /\ mu' = "leaked"
    /\ UNCHANGED <<isInspecting, blockConfig, recording, replayVars, endReplayC,
                   fileVars, connVars, goroutines>>

-----------------------------------------------------------------------------
(* The goroutines that are not a connection's.                             *)

\* No token is sent when nothing is left to send.
FaultyGoroutineNext(place) ==
    /\ mu = "free"
    /\ SendDue(TRUE)
    /\ Leave(place)
    /\ UNCHANGED <<mu, userVars, isReplaying, replayingFrom, replayTimer, armed,
                   timers, endReplayC, fileVars, connVars>>

\* StartReplayHandler after its sleep, or EndReplay, calls
\* nextOutsideRequest(true).
GoroutineNext(place) ==
    /\ mu = "free"
    /\ SendDue(TRUE)
    /\ IF Stops(TRUE) = {} THEN Move(place, "offer") ELSE Leave(place)
    /\ UNCHANGED <<mu, userVars, isReplaying, replayingFrom, replayTimer, armed,
                   timers, endReplayC, fileVars, connVars>>

StartReplayKick == GoroutineNext("kick")

EndReplayNext == GoroutineNext("next")

GoroutineOffer ==
    /\ Len(endReplayC) <= MaxGoroutines
    /\ Leave("offer")
    /\ Offer(Nobody)
    /\ UNCHANGED <<mu, userVars, recording, replayVars, fileVars, connVars>>

\* A timer that fires runs EndReplay in a goroutine of its own.
TimerFires(t) ==
    /\ t \in armed
    /\ armed' = armed \ {t}
    /\ Spawn("fired")
    /\ UNCHANGED <<mu, userVars, recording, isReplaying, replayingFrom, seen,
                   replayTimer, timers, endReplayC, fileVars, connVars>>

\* The mode changes before the sleep.
FaultyEndReplayToken ==
    /\ mu = "free"
    /\ Move("fired", "sleep")
    /\ Receive
    /\ isReplaying' = FALSE /\ replayTimer' = NoTimer
    /\ UNCHANGED <<mu, userVars, recording, replayingFrom, seen, armed, timers,
                   fileVars, loaded>>

\* EndReplay finds a token: the replay is over.
EndReplayToken ==
    /\ mu = "free"
    /\ Move("fired", "sleep")
    /\ Receive
    /\ UNCHANGED <<mu, userVars, recording, replayVars, fileVars, loaded>>

\* The timer is not set again.
FaultyEndReplayContinue ==
    /\ mu = "free"
    /\ endReplayC = <<>> /\ Unseen # {}
    /\ Move("fired", "next")
    /\ UNCHANGED <<mu, userVars, recording, replayVars, endReplayC, fileVars,
                   connVars>>

\* No token, and something has not been seen: the replay goes on.
EndReplayContinue ==
    /\ mu = "free"
    /\ endReplayC = <<>> /\ Unseen # {}
    /\ Move("fired", "next")
    /\ armed' = IF replayTimer = NoTimer THEN armed ELSE armed \cup {replayTimer}
    /\ UNCHANGED <<mu, userVars, recording, isReplaying, replayingFrom, seen,
                   replayTimer, timers, endReplayC, fileVars, connVars>>

\* The loop over the unseen requests is missing.
FaultyEndReplayAllSeen ==
    /\ mu = "free"
    /\ endReplayC = <<>>
    /\ Move("fired", "sleep")
    /\ UNCHANGED <<mu, userVars, recording, replayVars, endReplayC, fileVars,
                   connVars>>

\* No token, and everything has been seen.
EndReplayAllSeen ==
    /\ mu = "free"
    /\ endReplayC = <<>> /\ Unseen = {}
    /\ Move("fired", "sleep")
    /\ UNCHANGED <<mu, userVars, recording, replayVars, endReplayC, fileVars,
                   connVars>>

\* The mode is not put back.
FaultyEndReplayFinish ==
    /\ mu = "free"
    /\ Leave("sleep")
    /\ writeRecording
    /\ isReplaying' = FALSE
    /\ replayTimer' = NoTimer
    /\ UNCHANGED <<mu, userVars, recording, replayingFrom, seen, armed, timers,
                   endReplayC, connVars>>

\* After its sleep EndReplay does not look again whether there is a replay.
EndReplayFinish ==
    /\ mu = "free"
    /\ Leave("sleep")
    /\ writeRecording
    /\ isReplaying' = FALSE
    /\ blockConfig' = [blockConfig EXCEPT !.Mode = blockConfig.previousMode]
    /\ replayTimer' = NoTimer
    /\ UNCHANGED <<mu, isRecording, isInspecting, recording, replayingFrom, seen,
                   armed, timers, endReplayC, connVars>>

-----------------------------------------------------------------------------
HandlerSteps(c) ==
    \/ HandlerDecide(c) \/ HandlerReadError(c)
    \/ HandlerResponse(c) \/ HandlerUpstreamError(c) \/ HandlerCheck(c)
    \/ HandlerNext(c) \/ HandlerOffer(c)
    \/ HandlerTestTimer(c) \/ HandlerLoadTimer(c) \/ HandlerRearm(c)

UserSteps ==
    \/ HomeHandler
    \/ \E id \in DOMAIN disk : InspectHandler(id)
    \/ \E form \in Forms : BlockConfigHandler(form)
    \/ BlockConfigRefused
    \/ StartRecordingHandler \/ EndRecordingHandler
    \/ \E id \in DOMAIN disk, keepMode \in BOOLEAN : StartReplayHandler(id, keepMode)
    \/ StartReplayMissing

ReplaySteps ==
    \/ StartReplayKick \/ GoroutineOffer
    \/ \E t \in 1..MaxReplays : TimerFires(t)
    \/ EndReplayToken \/ EndReplayContinue \/ EndReplayAllSeen
    \/ EndReplayNext \/ EndReplayFinish

Next == (\E c \in Conns : HandlerSteps(c)) \/ UserSteps \/ ReplaySteps

Spec == Init /\ [][Next]_vars

\* A goroutine that has begun goes on: Go's scheduler is fair, its mutex hands
\* the lock to a goroutine that has waited long, a send on a channel succeeds
\* in the order of the senders, and a timer that is set fires.  Nothing makes
\* a message arrive or the user act.
Fairness ==
    /\ \A c \in Conns :
          /\ WF_vars(HandlerResponse(c)) /\ WF_vars(HandlerCheck(c))
          /\ WF_vars(HandlerNext(c)) /\ WF_vars(HandlerOffer(c))
          /\ WF_vars(HandlerTestTimer(c)) /\ WF_vars(HandlerLoadTimer(c))
          /\ WF_vars(HandlerRearm(c))
    /\ WF_vars(StartReplayKick) /\ WF_vars(GoroutineOffer)
    /\ \A t \in 1..MaxReplays : WF_vars(TimerFires(t))
    /\ WF_vars(EndReplayToken \/ EndReplayContinue \/ EndReplayAllSeen)
    /\ WF_vars(EndReplayNext) /\ WF_vars(EndReplayFinish)

FairSpec == Spec /\ Fairness

-----------------------------------------------------------------------------
(* What a replay promises.                                                 *)

\* There is a replay timer exactly while a replay is on.  The cancelling
\* handlers stop p.replayTimer without testing it: with isReplaying set and a
\* nil timer they would panic and keep the lock.
TimerIffReplaying == isReplaying <=> replayTimer # NoTimer

\* A replay that is on has somebody who will end it: its timer is running, or
\* an EndReplay is about to look, or about to finish.  Whoever stops the timer
\* or lets it expire has to hand the replay on to another of them.
ReplayHasEnder ==
    isReplaying => \/ replayTimer \in armed
                   \/ goroutines["fired"] + goroutines["sleep"] > 0

Promise == INSTANCE OutsideReplay
    WITH runs <- timers, on <- isReplaying, left <- UnseenOutside

\* The callers of nextOutsideRequest, without knowing of one another, together
\* mark the requests from outside from the front of the recording, and none is
\* put back while the replay is on.
OutsideInTurn == Promise!Spec

\* A replay goes on until all of them are marked, and then ends.  (Where the user
\* neither cancels a replay, nor starts one during another.)
OutsideAllSent == Promise!CompleteSpec

\* The indices in reqs of the requests from outside.
OutsideIn(reqs) == {i \in DOMAIN reqs : FromOutside(reqs[i])}

\* While a replay is on, the recording it makes holds, of requests from
\* outside, those of the replayed recording that are marked: each once, none
\* missing, none from a cancelled replay, in the same order.  (Where no client
\* sends requests of its own, and no recording is ended meanwhile.)
OutsideReplayedOnce ==
    LET made == recording.Requests
        old == replayingFrom.Requests
    IN  isReplaying =>
            \E copies \in Ascending(OutsideIn(made)),
               taken \in Ascending(seen \cap OutsideIn(old)) :
                /\ DOMAIN copies = DOMAIN taken
                /\ \A k \in DOMAIN taken : made[copies[k]] = old[taken[k]]

\* How many requests of a stream are blocked, or their responses.
BlockedIn(reqs, stream) ==
    Cardinality({i \in DOMAIN reqs :
        StreamIdentifier(reqs[i].msg) = stream /\ VerdictOf(reqs[i]) # Pass})

\* A replay blocks no more requests of a stream than the recording has.
ReplayBlocksNoMore ==
    isReplaying /\ blockConfig.Mode = "replay" =>
        \A stream \in {StreamIdentifier(m) : m \in Traffic} :
            BlockedIn(recording.Requests, stream)
                <= BlockedIn(replayingFrom.Requests, stream)

\* ... which the counting matcher, the one that marks its answers, keeps.
CountingBlocksNoMore == Matcher = "counting" => ReplayBlocksNoMore

\* The replay that is on decides by a matcher of the given kinds.
ReplayedBy(kinds) == isReplaying /\ blockConfig.Mode = "replay" /\ Matcher \in kinds

\* The traffic that is recorded as it was before is blocked as it was before,
\* under every matcher that searches: an inside request whose message is also
\* the recorded one at its position of the stream got that one's verdict,
\* whatever came before and between.  (The counting matcher has marked its
\* answers, and when a recording is saved during a replay the positions start
\* anew: of it this is said as long as nothing has been saved.)
InPlaceSameVerdict ==
    LET made == recording.Requests
        old == replayingFrom.Requests
    IN  ReplayedBy(SearchKinds) /\ (Matcher = "counting" => lastSavedId = 0) =>
            \A i \in DOMAIN made, j \in DOMAIN old :
                /\ ~FromOutside(made[i])
                /\ made[i].msg = old[j].msg
                /\ Position(made, i) = Position(old, j)
                => made[i] = old[j]

\* The heuristic and the mix matcher also find a request whose message the
\* recording has once, in whatever order the nodes send: content outweighs
\* the distance to the recorded position.
UniqueSameVerdict ==
    LET made == recording.Requests
        old == replayingFrom.Requests
    IN  ReplayedBy({"heuristic", "mix"}) =>
            \A i \in DOMAIN made, j \in DOMAIN old :
                /\ ~FromOutside(made[i])
                /\ \A k \in DOMAIN old : old[k].msg = made[i].msg <=> k = j
                => made[i] = old[j]

\* A replay that ends by itself has marked and recorded every request from
\* outside.
CompletedReplayIsComplete ==
    [][isReplaying /\ EndReplayFinish => UnseenOutside = {}]_vars

\* Mode "replay" ends with the replay that set it: without a replay, nothing
\* is blocked after an old recording.  (Where the user neither cancels a
\* replay, nor starts one during another, nor posts that mode.)
ReplayModeEnds == blockConfig.Mode = "replay" => isReplaying

\* What is recorded tells which configuration blocked it: the last one in the
\* recording is the one in force, which is what the timing matcher replays.
\* (HomeHandler empties a recording that goes on; as long as no replay has been
\* started, which may change the mode later.)
RecordedConfigIsCurrent ==
    LET configs == recording.BlockConfigs
    IN  isRecording /\ timers = 0 /\ configs # <<>> =>
            configs[Len(configs)] = Settings(blockConfig)

\* A replay that is started ends.
ReplayEnds == isReplaying ~> ~isReplaying

-----------------------------------------------------------------------------
(* What is said of the proxy, and the code does not keep: a run of its own  *)
(* refutes each, and PROJECT.json quotes the text under "findings".  The    *)
(* others are ReplayBlocksNoMore under a matcher that does not mark, and    *)
(* CompletedReplayIsComplete with more than one replay.                     *)

\* The handler either proxies a request or closes its connection
\* (proxy.go:130-132), so a connection gets its answer.  The handler waits
\* inside nextOutsideRequest once endReplayC is full (proxy.go:245), and
\* net/http completes a response only when its handler returns.  (It waits as
\* well for a lock that BlockConfigHandler has kept, api.go:121.)
HandlerAnswers == \A c \in Conns : pc[c] # "idle" ~> pc[c] = "idle"

=============================================================================
