----------------------------- MODULE ProxyProofs ----------------------------
(***************************************************************************)
(* Theorems about module Proxy, for any nodes, connections, traffic, saved *)
(* recordings, forms and bounds.                                           *)
(***************************************************************************)
EXTENDS Proxy, FiniteSetTheorems, SequenceTheorems, TLAPS

-----------------------------------------------------------------------------
(* Lemmas about requests and matchers.                                     *)

\* What the proxy records of a message and a verdict is a request, with that
\* verdict.
LEMMA NewRequestType ==
    ASSUME NEW m \in Traffic, NEW v \in Verdict
    PROVE  /\ NewRequest(m, v) \in Request
           /\ VerdictOf(NewRequest(m, v)) = v
           /\ FromOutside(NewRequest(m, v)) = IsOutside(m)
  BY DEF NewRequest, Request, Verdict, VerdictOf, FromOutside

\* The verdict recorded in a request is one.
LEMMA VerdictType == ASSUME NEW r \in Request PROVE VerdictOf(r) \in Verdict
  BY DEF VerdictOf, Request, Verdict

\* To let a message pass is a verdict.
LEMMA PassType == Pass \in Verdict
  BY DEF Pass, Verdict

\* A configuration answers with verdicts, if what it asks does.
LEMMA BlockType ==
    ASSUME NEW conf, NEW m, NEW replayed \in SUBSET Verdict
    PROVE  Block(conf, m, replayed) \subseteq Verdict
<1>1. \A b \in BOOLEAN : [Blocked |-> b, BlockedResponse |-> FALSE] \in Verdict
  BY DEF Verdict
<1>2. RandomVerdicts(conf.Percentage) \subseteq Verdict
  BY DEF RandomVerdicts
<1>3. CASE ~IsOutside(m) /\ conf.Mode = "random"
  BY <1>2, <1>3 DEF Block
<1>4. CASE ~IsOutside(m) /\ conf.Mode = "partitions"
  <2> DEFINE b == ~checkPartitions(conf.Partitions, m)
  <2>1. b \in BOOLEAN
    OBVIOUS
  <2>2. Block(conf, m, replayed) = {[Blocked |-> b, BlockedResponse |-> FALSE]}
    BY <1>4 DEF Block
  <2> QED  BY <1>1, <2>1, <2>2
<1>5. CASE ~IsOutside(m) /\ conf.Mode = "replay"
  BY <1>5 DEF Block
<1>6. CASE IsOutside(m) \/ conf.Mode \notin {"random", "partitions", "replay"}
  BY <1>6, PassType DEF Block
<1> QED  BY <1>3, <1>4, <1>5, <1>6

\* Match answers with an index of the recording it searches; the counting
\* matcher with that of an inside request.
LEMMA MatchType ==
    ASSUME NEW kind, NEW m, NEW done, NEW rec \in Seq(Request), NEW seenSet,
           Match(kind, m, done, rec, seenSet) # NoMatch
    PROVE  LET match == Match(kind, m, done, rec, seenSet) IN
             /\ match \in DOMAIN rec
             /\ ~FromOutside(rec[match])
  BY DEF Match, CountingMatches, BestMatches, Candidates, getStream, NoMatch

\* What is decided on a message: a verdict, passing if the message is from
\* outside, and marks of inside requests only.
LEMMA DecisionType ==
    ASSUME TypeOK, NEW m \in Arriving, NEW d \in Decisions(m)
    PROVE  /\ d.verdict \in Verdict
           /\ IsOutside(m) => d.verdict = Pass
           /\ d.marks \subseteq DOMAIN replayingFrom.Requests
           /\ \A j \in d.marks : ~FromOutside(replayingFrom.Requests[j])
<1> DEFINE rec == replayingFrom.Requests
           configs == replayingFrom.BlockConfigs
           match == Match(Matcher, m, recording.Requests, rec, seen)
<1>1. rec \in Seq(Request)
  BY DEF TypeOK, Recordings
<1>2. CASE ~(blockConfig.Mode = "replay" /\ ~IsOutside(m))
  <2>1. d \in [verdict : Block(blockConfig, m, {}), marks : {{}}]
    BY <1>2 DEF Decisions
  <2>2. d.verdict \in Block(blockConfig, m, {}) /\ d.marks = {}
    BY <2>1
  <2>3. d.verdict \in Verdict
    BY <2>2, BlockType
  <2>4. IsOutside(m) => d.verdict = Pass
    BY <2>2 DEF Block
  <2> QED  BY <2>2, <2>3, <2>4
<1>3. CASE blockConfig.Mode = "replay" /\ ~IsOutside(m) /\ Matcher = "timing"
  <2>1. d \in [verdict : UNION {TimingVerdicts(configs, n, m) : n \in 0..Len(configs)},
               marks : {TimingMarks(rec, k) : k \in 0..Len(rec)}]
    BY <1>3 DEF Decisions, replayBlock
  <2>2. PICK n \in 0..Len(configs) : d.verdict \in TimingVerdicts(configs, n, m)
    BY <2>1
  <2>3. PICK k \in 0..Len(rec) : d.marks = TimingMarks(rec, k)
    BY <2>1
  <2>4. d.verdict \in Verdict
    <3>1. Block(configs[n], m, {Pass}) \subseteq Verdict
      BY BlockType, PassType
    <3> QED  BY <2>2, <3>1, PassType DEF TimingVerdicts
  <2>5. d.marks \subseteq DOMAIN rec /\ \A j \in d.marks : ~FromOutside(rec[j])
    BY <2>3 DEF TimingMarks
  <2> QED  BY <1>3, <2>4, <2>5
<1>4. CASE blockConfig.Mode = "replay" /\ ~IsOutside(m) /\ Matcher # "timing"
  <2>1. d = [verdict |-> IF match = NoMatch THEN Pass ELSE VerdictOf(rec[match]),
             marks |-> MatchMarks(Matcher, match)]
    BY <1>4 DEF Decisions, replayBlock
  <2>2. match # NoMatch => match \in DOMAIN rec /\ ~FromOutside(rec[match])
    BY <1>1, MatchType
  <2>3. match # NoMatch => rec[match] \in Request
    BY <1>1, <2>2
  <2>4. d.verdict \in Verdict
    BY <2>1, <2>3, PassType, VerdictType
  <2>5. d.marks \subseteq DOMAIN rec /\ \A j \in d.marks : ~FromOutside(rec[j])
    BY <2>1, <2>2 DEF MatchMarks
  <2> QED  BY <1>4, <2>4, <2>5
<1> QED  BY <1>2, <1>3, <1>4

\* What is sent is made of requests of the replayed recording.
LEMMA BatchType ==
    ASSUME NEW rs \in Seq(Request), NEW S \in SUBSET DOMAIN rs,
           NEW batch \in Ascending(S)
    PROVE  LET copies == [k \in DOMAIN batch |-> rs[batch[k]]] IN
             /\ copies \in Seq(Request)
             /\ \A k \in DOMAIN copies : \E i \in S : copies[k] = rs[i]
<1>1. IsFiniteSet(S)
  BY FS_Interval, FS_Subset
<1>2. Cardinality(S) \in Nat
  BY <1>1, FS_CardinalityType
<1>3. batch \in [1..Cardinality(S) -> S]
  BY DEF Ascending
<1>4. \A k \in 1..Cardinality(S) : batch[k] \in S /\ rs[batch[k]] \in Request
  BY <1>3
<1> QED  BY <1>2, <1>3, <1>4

-----------------------------------------------------------------------------
(* Type correctness.  One lemma per group of actions.                      *)

\* The initial state, given recordings of this proxy on disk.
LEMMA InitType == Init => TypeOK
<1> SUFFICES ASSUME Init PROVE TypeOK
  OBVIOUS
<1>1. NoRecording \in Recordings /\ DOMAIN NoRecording.Requests = {}
  BY DEF NoRecording, Recordings
<1>2. disk \in Seq(Recordings)
  BY ProxyAssumption DEF Init
<1>3. blockConfig \in [Mode : Modes, Partitions : SUBSET SUBSET Nodes,
                       Percentage : Int, Matcher : Kinds, previousMode : Modes]
  <2>1. "none" \in Modes /\ "" \in Modes /\ "heuristic" \in Kinds
    BY DEF Modes, Kinds
  <2>2. {Nodes} \in SUBSET SUBSET Nodes /\ 50 \in Int
    OBVIOUS
  <2> QED  BY <2>1, <2>2 DEF Init
<1>4. /\ endReplayC \in Seq(Conns \cup {Nobody})
      /\ goroutines \in [Places -> Nat]
      /\ loaded \in [Conns -> 0..timers]
      /\ pc \in [Conns -> {"idle"}]
  <2>1. /\ endReplayC = <<>>
        /\ goroutines = [place \in Places |-> 0]
        /\ loaded = [c \in Conns |-> 0] /\ timers = 0
        /\ pc = [c \in Conns |-> "idle"]
    BY DEF Init, NoTimer
  <2> QED  BY <2>1
<1>5. /\ mu \in {"free", "leaked"} /\ lastSavedId \in Nat /\ timers \in Nat
      /\ replayTimer \in 0..timers /\ armed \subseteq 1..timers
  <2>1. replayTimer = 0 /\ armed = {} /\ timers = 0 /\ lastSavedId = 0 /\ mu = "free"
    BY DEF Init, NoTimer
  <2> QED  BY <2>1
<1>8. isRecording \in BOOLEAN /\ isReplaying \in BOOLEAN /\ isInspecting \in BOOLEAN
  BY DEF Init
<1>6. recording \in Recordings /\ replayingFrom \in Recordings
      /\ seen \subseteq DOMAIN replayingFrom.Requests
  BY <1>1 DEF Init
<1>7. pc \in [Conns -> {"idle", "forward", "withhold", "check", "next",
                        "offer", "sending", "reset", "load", "rearm"}]
      /\ \A c \in Conns : pc[c] = "rearm" => loaded[c] # NoTimer
  BY <1>4
<1> QED  BY <1>2, <1>3, <1>4, <1>5, <1>6, <1>7, <1>8 DEF TypeOK

\* A recording to which requests are appended is a recording.
LEMMA AppendedType ==
    ASSUME NEW rec \in Recordings, NEW more \in Seq(Request)
    PROVE  [rec EXCEPT !.Requests = @ \o more] \in Recordings
<1>1. rec.Requests \in Seq(Request) /\ rec.BlockConfigs \in Seq(BlockConfigs)
  BY DEF Recordings
<1>2. rec.Requests \o more \in Seq(Request)
  BY <1>1
<1> QED  BY <1>1, <1>2 DEF Recordings

\* ... and so is one to which a single request is appended.
LEMMA RecordedType ==
    ASSUME recording \in Recordings, NEW r \in Request, record(r)
    PROVE  recording' \in Recordings
<1>1. recording.Requests \in Seq(Request) /\ recording.BlockConfigs \in Seq(BlockConfigs)
  BY DEF Recordings
<1>2. Append(recording.Requests, r) \in Seq(Request)
  BY <1>1
<1>3. recording' = [Requests |-> Append(recording.Requests, r),
                    BlockConfigs |-> recording.BlockConfigs]
  BY DEF Recordings, record
<1> QED  BY <1>1, <1>2, <1>3 DEF Recordings

\* nextOutsideRequest marks requests of the replayed recording and appends
\* requests to the one being made.
LEMMA SendDueType ==
    ASSUME TypeOK, NEW alwaysSend \in BOOLEAN, SendDue(alwaysSend)
    PROVE  /\ recording' \in Recordings
           /\ seen' \subseteq DOMAIN replayingFrom.Requests
<1> DEFINE rs == replayingFrom.Requests
<1>1. rs \in Seq(Request) /\ recording \in Recordings /\ seen \subseteq DOMAIN rs
  BY DEF TypeOK, Recordings
<1>2. Due(alwaysSend) \in SUBSET DOMAIN rs
  BY DEF Due, UnseenOutside, Unseen
<1>3. PICK batch \in Ascending(Due(alwaysSend)) :
         recording' = [recording EXCEPT !.Requests =
             @ \o [k \in DOMAIN batch |-> rs[batch[k]]]]
  BY DEF SendDue
<1>4. [k \in DOMAIN batch |-> rs[batch[k]]] \in Seq(Request)
  BY <1>1, <1>2, BatchType
<1>5. recording' \in Recordings
  BY <1>1, <1>3, <1>4, AppendedType
<1> QED  BY <1>1, <1>2, <1>5 DEF SendDue

\* The goroutines that are not a connection's are counted by natural numbers.
LEMMA GoroutinesType ==
    ASSUME TypeOK, NEW from \in Places, NEW to \in Places,
           Spawn(from) \/ Move(from, to) \/ Leave(from)
    PROVE  goroutines' \in [Places -> Nat]
<1>1. goroutines \in [Places -> Nat]
  BY DEF TypeOK
<1>2. CASE Spawn(from)
  BY <1>1, <1>2 DEF Spawn
<1>3. CASE Move(from, to)
  <2>1. goroutines[from] - 1 \in Nat /\ goroutines[to] + 1 \in Nat
    BY <1>1, <1>3 DEF Move
  <2> QED  BY <1>1, <1>3, <2>1 DEF Move
<1>4. CASE Leave(from)
  BY <1>1, <1>4 DEF Leave
<1> QED  BY <1>2, <1>3, <1>4

\* The steps of a connection's goroutine.
LEMMA HandlerType ==
    ASSUME TypeOK, NEW c \in Conns, HandlerSteps(c)
    PROVE  TypeOK'
<1>1. CASE HandlerDecide(c)
  <2> PICK m \in Arriving : \E d \in Decisions(m) :
          /\ seen' = seen \cup d.marks
          /\ IF isInspecting THEN UNCHANGED recording
                             ELSE record(NewRequest(m, d.verdict))
          /\ Goto(c, IF d.verdict.Blocked THEN "idle"
                     ELSE IF d.verdict.BlockedResponse THEN "withhold" ELSE "forward")
    BY <1>1 DEF HandlerDecide
  <2>1. PICK d \in Decisions(m) :
          /\ seen' = seen \cup d.marks
          /\ IF isInspecting THEN UNCHANGED recording
                             ELSE record(NewRequest(m, d.verdict))
          /\ Goto(c, IF d.verdict.Blocked THEN "idle"
                     ELSE IF d.verdict.BlockedResponse THEN "withhold" ELSE "forward")
    OBVIOUS
  <2>2. seen' \subseteq DOMAIN replayingFrom.Requests
    BY <2>1, DecisionType DEF TypeOK
  <2>3. NewRequest(m, d.verdict) \in Request
    BY DecisionType, NewRequestType, ProxyAssumption
  <2>4. recording' \in Recordings
    BY <2>1, <2>3, RecordedType DEF TypeOK
  <2> QED  BY <1>1, <2>1, <2>2, <2>4
           DEF HandlerDecide, TypeOK, Goto, userVars, fileVars
<1>2. CASE HandlerReadError(c)
  BY <1>2 DEF HandlerReadError, TypeOK, userVars, replayVars, fileVars, connVars
<1>3. CASE HandlerResponse(c)
  BY <1>3 DEF HandlerResponse, TypeOK, Goto, userVars, replayVars, fileVars
<1>4. CASE HandlerUpstreamError(c)
  BY <1>4 DEF HandlerUpstreamError, TypeOK, Goto, userVars, replayVars, fileVars
<1>5. CASE HandlerCheck(c)
  BY <1>5 DEF HandlerCheck, TypeOK, Goto, userVars, replayVars, fileVars
<1>6. CASE HandlerNext(c)
  <2>1. recording' \in Recordings /\ seen' \subseteq DOMAIN replayingFrom.Requests
    BY <1>6, SendDueType DEF HandlerNext
  <2> QED  BY <1>6, <2>1 DEF HandlerNext, TypeOK, Goto, userVars, fileVars
<1>7. CASE HandlerOffer(c)
  BY <1>7 DEF HandlerOffer, Offer, TypeOK, Goto, userVars, replayVars, fileVars
<1>8. CASE HandlerLoadTimer(c)
  BY <1>8 DEF HandlerLoadTimer, TypeOK, Goto, userVars, replayVars, fileVars
<1>10. CASE HandlerTestTimer(c)
  BY <1>10 DEF HandlerTestTimer, TypeOK, Goto, userVars, replayVars, fileVars
<1>9. CASE HandlerRearm(c)
  <2>1. loaded[c] \in 1..timers /\ timers' = timers
    BY <1>9 DEF HandlerRearm, TypeOK, NoTimer
  <2>2. armed' \subseteq 1..timers'
    BY <1>9, <2>1 DEF HandlerRearm, TypeOK
  <2>3. loaded' \in [Conns -> 0..timers'] /\ \A o \in Conns \ {c} : loaded'[o] = loaded[o]
    BY <1>9, <2>1 DEF HandlerRearm, TypeOK, NoTimer
  <2>4. pc' = [pc EXCEPT ![c] = "idle"]
    BY <1>9 DEF HandlerRearm, Goto
  <2>5. \A o \in Conns : pc'[o] = "rearm" => loaded'[o] # NoTimer
    BY <2>3, <2>4 DEF TypeOK
  <2> QED  BY <1>9, <2>1, <2>2, <2>3, <2>4, <2>5
           DEF HandlerRearm, TypeOK, userVars, fileVars
<1> QED  BY <1>1, <1>2, <1>3, <1>4, <1>5, <1>6, <1>7, <1>8, <1>9, <1>10
         DEF HandlerSteps

\* The loaded recording is one, and what a form makes of the configuration.
LEMMA LoadedType ==
    ASSUME TypeOK, NEW id \in DOMAIN disk
    PROVE  disk[id] \in Recordings
  BY DEF TypeOK

\* What BlockConfigHandler makes of the configuration is one, and what of it
\* is recorded is what a recording may hold.
LEMMA ConfiguredType ==
    ASSUME TypeOK, NEW form \in Forms
    PROVE  /\ Configured(form) \in
                  [Mode : Modes, Partitions : SUBSET SUBSET Nodes,
                   Percentage : Int, Matcher : Kinds, previousMode : Modes]
           /\ Settings(Configured(form)) \in BlockConfigs
<1>1. /\ blockConfig.Mode \in Modes /\ blockConfig.previousMode \in Modes
      /\ blockConfig.Partitions \in SUBSET SUBSET Nodes
      /\ blockConfig.Percentage \in Int /\ blockConfig.Matcher \in Kinds
  BY DEF TypeOK
<1>2. /\ "mode" \in DOMAIN form => form.mode \in Modes
      /\ "partitions" \in DOMAIN form => form.partitions \in SUBSET SUBSET Nodes
      /\ "percentage" \in DOMAIN form => form.percentage \in Int
      /\ "matcher" \in DOMAIN form => form.matcher \in Kinds
  BY ProxyAssumption
<1>3. Configured(form) \in
         [Mode : Modes, Partitions : SUBSET SUBSET Nodes,
          Percentage : Int, Matcher : Kinds, previousMode : Modes]
  BY <1>1, <1>2 DEF Configured, Matcher
<1> QED  BY <1>3 DEF Settings, BlockConfigs

\* A recording whose configuration is recorded is a recording.
LEMMA RecordedConfigType ==
    ASSUME NEW rec \in Recordings, NEW conf, Settings(conf) \in BlockConfigs,
           recordBlockConfig(rec, conf)
    PROVE  recording' \in Recordings /\ recording'.Requests = rec.Requests
<1>1. rec.Requests \in Seq(Request) /\ rec.BlockConfigs \in Seq(BlockConfigs)
  BY DEF Recordings
<1>2. Append(rec.BlockConfigs, Settings(conf)) \in Seq(BlockConfigs)
  BY <1>1
<1>3. recording' = [Requests |-> rec.Requests,
                    BlockConfigs |-> Append(rec.BlockConfigs, Settings(conf))]
  BY DEF Recordings, recordBlockConfig
<1> QED  BY <1>1, <1>2, <1>3 DEF Recordings

\* The empty recording is a recording.
LEMMA NoRecordingType == NoRecording \in Recordings
  BY DEF NoRecording, Recordings

\* Saving keeps the disk a list of recordings.
LEMMA WriteType ==
    ASSUME TypeOK, writeRecording
    PROVE  disk' \in Seq(Recordings) /\ lastSavedId' \in Nat
<1>1. disk \in Seq(Recordings) /\ recording \in Recordings
  BY DEF TypeOK
<1>2. Append(disk, recording) \in Seq(Recordings) /\ Len(disk) + 1 \in Nat
  BY <1>1
<1> QED  BY <1>1, <1>2 DEF writeRecording

\* What cancels a replay leaves the timers in their types.
LEMMA CancelType ==
    ASSUME TypeOK, CancelReplay
    PROVE  /\ isReplaying' \in BOOLEAN
           /\ replayTimer' \in 0..timers /\ armed' \subseteq 1..timers
<1>1. isReplaying' \in BOOLEAN
  BY DEF CancelReplay
<1>2. timers \in Nat /\ replayTimer \in 0..timers /\ armed \subseteq 1..timers
  BY DEF TypeOK
<1>3. \/ armed' = armed \ {replayTimer} /\ replayTimer' = 0
      \/ armed' = armed /\ replayTimer' = replayTimer
  BY DEF CancelReplay, StopTimer, NoTimer
<1>4. replayTimer' \in 0..timers
  BY <1>2, <1>3
<1>5. armed' \subseteq armed
  BY <1>3
<1>6. armed' \subseteq 1..timers
  BY <1>2, <1>5
<1> QED  BY <1>1, <1>4, <1>6

\* What the user does.
LEMMA UserType == ASSUME TypeOK, UserSteps PROVE TypeOK'
<1>1. CASE HomeHandler
  <2>1. isReplaying' \in BOOLEAN /\ replayTimer' \in 0..timers /\ armed' \subseteq 1..timers
    BY <1>1, CancelType DEF HomeHandler
  <2> QED  BY <1>1, <2>1, NoRecordingType DEF HomeHandler, TypeOK, fileVars, connVars
<1>2. ASSUME NEW id \in DOMAIN disk, InspectHandler(id) PROVE TypeOK'
  <2>1. isReplaying' \in BOOLEAN /\ replayTimer' \in 0..timers /\ armed' \subseteq 1..timers
    BY <1>2, CancelType DEF InspectHandler
  <2> QED  BY <1>2, <2>1, LoadedType DEF InspectHandler, TypeOK, fileVars, connVars
<1>3. ASSUME NEW form \in Forms, BlockConfigHandler(form) PROVE TypeOK'
  <2>1. recording' \in Recordings
    BY <1>3, ConfiguredType, RecordedConfigType DEF BlockConfigHandler, TypeOK
  <2>2. blockConfig' \in [Mode : Modes, Partitions : SUBSET SUBSET Nodes,
                          Percentage : Int, Matcher : Kinds, previousMode : Modes]
    BY <1>3, ConfiguredType DEF BlockConfigHandler
  <2>3. seen' \subseteq DOMAIN replayingFrom'.Requests
    BY <1>3 DEF BlockConfigHandler, TypeOK
  <2> QED  BY <1>3, <2>1, <2>2, <2>3 DEF BlockConfigHandler, TypeOK, fileVars, connVars
<1>4. CASE BlockConfigRefused
  BY <1>4 DEF BlockConfigRefused, TypeOK, userVars, replayVars, fileVars, connVars
<1>5. CASE StartRecordingHandler
  <2>1. Settings(blockConfig) \in BlockConfigs
    BY DEF TypeOK, Settings, BlockConfigs
  <2>2. recording' \in Recordings
    BY <1>5, <2>1, NoRecordingType, RecordedConfigType DEF StartRecordingHandler
  <2> QED  BY <1>5, <2>2, NoRecordingType
           DEF StartRecordingHandler, TypeOK, fileVars, connVars
<1>6. CASE EndRecordingHandler
  BY <1>6, NoRecordingType, WriteType
     DEF EndRecordingHandler, TypeOK, replayVars, connVars
<1>7. ASSUME NEW id \in DOMAIN disk, NEW keepMode \in BOOLEAN,
             StartReplayHandler(id, keepMode)
      PROVE  TypeOK'
  <2>1. goroutines' \in [Places -> Nat]
    BY <1>7, GoroutinesType DEF StartReplayHandler, Places
  <2>2. blockConfig' \in [Mode : Modes, Partitions : SUBSET SUBSET Nodes,
                          Percentage : Int, Matcher : Kinds, previousMode : Modes]
    BY <1>7 DEF StartReplayHandler, TypeOK, Modes
  <2>3. recording' \in Recordings /\ replayingFrom' \in Recordings /\ seen' = {}
    BY <1>7, NoRecordingType, LoadedType DEF StartReplayHandler
  <2>4. /\ timers' \in Nat /\ replayTimer' \in 0..timers' /\ armed' \subseteq 1..timers'
        /\ loaded' \in [Conns -> 0..timers']
    BY <1>7 DEF StartReplayHandler, TypeOK, connVars
  <2> QED  BY <1>7, <2>1, <2>2, <2>3, <2>4
           DEF StartReplayHandler, TypeOK, fileVars, connVars
<1>8. CASE StartReplayMissing
  BY <1>8 DEF StartReplayMissing, TypeOK, replayVars, fileVars, connVars
<1> QED  BY <1>1, <1>2, <1>3, <1>4, <1>5, <1>6, <1>7, <1>8 DEF UserSteps

\* What the goroutines of a replay do.
LEMMA ReplayType == ASSUME TypeOK, ReplaySteps PROVE TypeOK'
<1>1. ASSUME NEW place \in {"kick", "next"}, GoroutineNext(place) PROVE TypeOK'
  <2>1. recording' \in Recordings /\ seen' \subseteq DOMAIN replayingFrom.Requests
    BY <1>1, SendDueType DEF GoroutineNext
  <2>2. goroutines' \in [Places -> Nat]
    BY <1>1, GoroutinesType DEF GoroutineNext, Places
  <2> QED  BY <1>1, <2>1, <2>2 DEF GoroutineNext, TypeOK, userVars, fileVars, connVars
<1>2. CASE GoroutineOffer
  <2>1. goroutines' \in [Places -> Nat]
    BY <1>2, GoroutinesType DEF GoroutineOffer, Places
  <2>2. endReplayC' \in Seq(Conns \cup {Nobody})
    BY <1>2 DEF GoroutineOffer, Offer, TypeOK
  <2> QED  BY <1>2, <2>1, <2>2
           DEF GoroutineOffer, TypeOK, userVars, replayVars, fileVars, connVars
<1>3. ASSUME NEW t \in 1..MaxReplays, TimerFires(t) PROVE TypeOK'
  <2>1. goroutines' \in [Places -> Nat]
    BY <1>3, GoroutinesType DEF TimerFires, Places
  <2> QED  BY <1>3, <2>1 DEF TimerFires, TypeOK, userVars, fileVars, connVars
<1>4. CASE EndReplayToken
  <2>1. goroutines' \in [Places -> Nat]
    BY <1>4, GoroutinesType DEF EndReplayToken, Places
  <2>2. endReplayC' \in Seq(Conns \cup {Nobody})
    <3>1. endReplayC \in Seq(Conns \cup {Nobody}) /\ endReplayC # <<>>
      BY <1>4 DEF EndReplayToken, Receive, TypeOK
    <3>2. CASE Len(endReplayC) = 1
      BY <1>4, <3>2 DEF EndReplayToken, Receive
    <3>3. CASE Len(endReplayC) # 1
      <4>1. Tail(endReplayC) \in Seq(Conns \cup {Nobody}) /\ Tail(endReplayC) # <<>>
        <5>1. Len(endReplayC) \in Nat \ {0} /\ Len(endReplayC) # 1
          BY <3>1, <3>3, EmptySeq
        <5>2. /\ Tail(endReplayC) \in Seq(Conns \cup {Nobody})
              /\ Len(Tail(endReplayC)) = Len(endReplayC) - 1
          BY <3>1, HeadTailProperties
        <5>3. Len(Tail(endReplayC)) # 0
          BY <5>1, <5>2
        <5>4. Len(<<>>) = 0
          OBVIOUS
        <5>5. Tail(endReplayC) # <<>>
          BY <5>3, <5>4, Zenon
        <5> QED  BY <5>2, <5>5
      <4>2. Tail(Tail(endReplayC)) \in Seq(Conns \cup {Nobody})
        BY <4>1, HeadTailProperties
      <4>3. <<Nobody>> \in Seq(Conns \cup {Nobody})
        OBVIOUS
      <4> QED  BY <1>4, <3>3, <4>2, <4>3 DEF EndReplayToken, Receive
    <3> QED  BY <3>2, <3>3
  <2>3. /\ pc' \in [Conns -> {"idle", "forward", "withhold", "check", "next",
                              "offer", "sending", "reset", "load", "rearm"}]
        /\ \A c \in Conns : pc'[c] = "rearm" => pc[c] = "rearm"
    BY <1>4 DEF EndReplayToken, Receive, TypeOK
  <2> QED  BY <1>4, <2>1, <2>2, <2>3 DEF EndReplayToken, TypeOK, userVars, replayVars, fileVars
<1>5. CASE EndReplayContinue
  <2>1. goroutines' \in [Places -> Nat]
    BY <1>5, GoroutinesType DEF EndReplayContinue, Places
  <2>2. armed' \subseteq 1..timers
    BY <1>5 DEF EndReplayContinue, TypeOK, NoTimer
  <2> QED  BY <1>5, <2>1, <2>2 DEF EndReplayContinue, TypeOK, userVars, fileVars, connVars
<1>6. CASE EndReplayAllSeen
  <2>1. goroutines' \in [Places -> Nat]
    BY <1>6, GoroutinesType DEF EndReplayAllSeen, Places
  <2> QED  BY <1>6, <2>1
           DEF EndReplayAllSeen, TypeOK, userVars, replayVars, fileVars, connVars
<1>7. CASE EndReplayFinish
  <2>1. goroutines' \in [Places -> Nat]
    BY <1>7, GoroutinesType DEF EndReplayFinish, Places
  <2>2. blockConfig' \in [Mode : Modes, Partitions : SUBSET SUBSET Nodes,
                          Percentage : Int, Matcher : Kinds, previousMode : Modes]
    BY <1>7 DEF EndReplayFinish, TypeOK
  <2>3. disk' \in Seq(Recordings) /\ lastSavedId' \in Nat
    BY <1>7, WriteType DEF EndReplayFinish
  <2>4. timers' = timers /\ armed' = armed /\ replayTimer' \in 0..timers
    BY <1>7 DEF EndReplayFinish, TypeOK, NoTimer
  <2>5. isReplaying' \in BOOLEAN
    BY <1>7 DEF EndReplayFinish
  <2> QED  BY <1>7, <2>1, <2>2, <2>3, <2>4, <2>5 DEF EndReplayFinish, TypeOK, connVars
<1> QED  BY <1>1, <1>2, <1>3, <1>4, <1>5, <1>6, <1>7
         DEF ReplaySteps, StartReplayKick, EndReplayNext

\* Every variable keeps its type, whatever the user, the traffic and the
\* failures do: no index the code uses is outside the list it is used on.
THEOREM TypeCorrect == Spec => []TypeOK
<1>1. Init => TypeOK
  BY InitType
<1>2. TypeOK /\ [Next]_vars => TypeOK'
  <2> SUFFICES ASSUME TypeOK, [Next]_vars PROVE TypeOK'
    OBVIOUS
  <2>1. CASE Next
    BY <2>1, HandlerType, UserType, ReplayType DEF Next
  <2>2. CASE UNCHANGED vars
    BY <2>2 DEF TypeOK, vars, userVars, replayVars, fileVars, connVars
  <2> QED  BY <2>1, <2>2
<1> QED  BY <1>1, <1>2, PTL DEF Spec

-----------------------------------------------------------------------------
(* The replay timer.                                                       *)

\* The second property needs the first: the timer that EndReplay sets again
\* while a replay is on has to be there.
TimerInv == TypeOK /\ TimerIffReplaying /\ ReplayHasEnder

\* A step that changes neither the replay, nor its timer, nor who is to end
\* it, keeps the invariant.
LEMMA TimerUntouched ==
    ASSUME TimerInv, TypeOK', isReplaying' = isReplaying,
           replayTimer' = replayTimer, armed \subseteq armed',
           goroutines'["fired"] = goroutines["fired"],
           goroutines'["sleep"] = goroutines["sleep"]
    PROVE  TimerInv'
  BY DEF TimerInv, TimerIffReplaying, ReplayHasEnder, NoTimer

\* A connection's goroutine may only set a timer again.
LEMMA HandlerTimer ==
    ASSUME TimerInv, TypeOK', NEW c \in Conns, HandlerSteps(c)
    PROVE  TimerInv'
<1>1. CASE HandlerRearm(c)
  BY <1>1, TimerUntouched DEF HandlerRearm
<1>2. CASE ~HandlerRearm(c)
  <2>1. /\ isReplaying' = isReplaying /\ replayTimer' = replayTimer
        /\ armed' = armed /\ goroutines' = goroutines
    BY <1>2 DEF HandlerSteps, HandlerDecide, HandlerReadError, HandlerResponse,
                HandlerUpstreamError, HandlerCheck, HandlerNext, HandlerOffer,
                HandlerTestTimer, HandlerLoadTimer, replayVars
  <2> QED  BY <2>1, TimerUntouched
<1> QED  BY <1>1, <1>2

\* The user's handlers stop the timer with the replay, and make a new one with
\* a new replay.
LEMMA UserTimer == ASSUME TimerInv, TypeOK', UserSteps PROVE TimerInv'
<1>1. CASE CancelReplay
  <2>1. isReplaying' = FALSE
    BY <1>1 DEF CancelReplay
  <2>2. replayTimer' = NoTimer
    BY <1>1 DEF CancelReplay, StopTimer, TimerInv, TimerIffReplaying
  <2> QED  BY <2>1, <2>2 DEF TimerInv, TimerIffReplaying, ReplayHasEnder
<1>2. ASSUME NEW id \in DOMAIN disk, NEW keepMode \in BOOLEAN,
             StartReplayHandler(id, keepMode)
      PROVE  TimerInv'
  <2>1. isReplaying' = TRUE /\ replayTimer' \in armed'
    BY <1>2 DEF StartReplayHandler
  <2>2. replayTimer' # NoTimer
    BY <1>2 DEF StartReplayHandler, NoTimer, TimerInv, TypeOK
  <2> QED  BY <2>1, <2>2 DEF TimerInv, TimerIffReplaying, ReplayHasEnder
<1>3. CASE \/ \E form \in Forms : BlockConfigHandler(form)
           \/ BlockConfigRefused \/ StartReplayMissing
           \/ StartRecordingHandler \/ EndRecordingHandler
  <2>1. /\ isReplaying' = isReplaying /\ replayTimer' = replayTimer
        /\ armed' = armed /\ goroutines' = goroutines
    BY <1>3 DEF BlockConfigHandler, BlockConfigRefused, StartReplayMissing,
                StartRecordingHandler, EndRecordingHandler, replayVars
  <2> QED  BY <2>1, TimerUntouched
<1> QED  BY <1>1, <1>2, <1>3 DEF UserSteps, HomeHandler, InspectHandler

\* Of the other goroutines, whoever gives the replay up hands it on.
LEMMA ReplayStepsTimer == ASSUME TimerInv, TypeOK', ReplaySteps PROVE TimerInv'
<1> USE DEF Places
<1>0. goroutines \in [Places -> Nat] /\ goroutines' \in [Places -> Nat]
  BY DEF TimerInv, TypeOK
<1>1. ASSUME NEW place \in {"kick", "next"}, GoroutineNext(place) PROVE TimerInv'
  <2>1. /\ isReplaying' = isReplaying /\ replayTimer' = replayTimer
        /\ armed' = armed
    BY <1>1 DEF GoroutineNext
  <2>2. /\ goroutines'["fired"] = goroutines["fired"]
        /\ goroutines'["sleep"] = goroutines["sleep"]
    BY <1>0, <1>1 DEF GoroutineNext, Move, Leave
  <2> QED  BY <2>1, <2>2, TimerUntouched
<1>2. CASE GoroutineOffer
  <2>1. /\ isReplaying' = isReplaying /\ replayTimer' = replayTimer
        /\ armed' = armed
    BY <1>2 DEF GoroutineOffer, replayVars
  <2>2. /\ goroutines'["fired"] = goroutines["fired"]
        /\ goroutines'["sleep"] = goroutines["sleep"]
    BY <1>0, <1>2 DEF GoroutineOffer, Leave
  <2> QED  BY <2>1, <2>2, TimerUntouched
<1>3. ASSUME NEW t \in 1..MaxReplays, TimerFires(t) PROVE TimerInv'
  <2>1. isReplaying' = isReplaying /\ replayTimer' = replayTimer
    BY <1>3 DEF TimerFires
  <2>2. goroutines'["fired"] = goroutines["fired"] + 1
    BY <1>0, <1>3 DEF TimerFires, Spawn
  <2>3. goroutines'["fired"] + goroutines'["sleep"] > 0
    BY <1>0, <2>2
  <2> QED  BY <2>1, <2>3 DEF TimerInv, TimerIffReplaying, ReplayHasEnder
<1>4. CASE EndReplayToken \/ EndReplayAllSeen
  <2>1. isReplaying' = isReplaying /\ replayTimer' = replayTimer
    BY <1>4 DEF EndReplayToken, EndReplayAllSeen, replayVars
  <2>2. goroutines'["sleep"] = goroutines["sleep"] + 1
    BY <1>0, <1>4 DEF EndReplayToken, EndReplayAllSeen, Move
  <2>3. goroutines'["fired"] + goroutines'["sleep"] > 0
    BY <1>0, <2>2
  <2> QED  BY <2>1, <2>3 DEF TimerInv, TimerIffReplaying, ReplayHasEnder
<1>5. CASE EndReplayContinue
  <2>1. /\ isReplaying' = isReplaying /\ replayTimer' = replayTimer
        /\ replayTimer # NoTimer => replayTimer \in armed'
    BY <1>5 DEF EndReplayContinue
  <2> QED  BY <2>1 DEF TimerInv, TimerIffReplaying, ReplayHasEnder
<1>6. CASE EndReplayFinish
  <2>1. isReplaying' = FALSE /\ replayTimer' = NoTimer
    BY <1>6 DEF EndReplayFinish
  <2> QED  BY <2>1 DEF TimerInv, TimerIffReplaying, ReplayHasEnder
<1> QED  BY <1>1, <1>2, <1>3, <1>4, <1>5, <1>6
         DEF ReplaySteps, StartReplayKick, EndReplayNext

\* The invariant holds throughout.
LEMMA TimerInvariant == Spec => []TimerInv
<1>1. Init => TimerInv
  BY InitType DEF Init, TimerInv, TimerIffReplaying, ReplayHasEnder
<1>2. TimerInv /\ TypeOK' /\ [Next]_vars => TimerInv'
  <2> SUFFICES ASSUME TimerInv, TypeOK', [Next]_vars PROVE TimerInv'
    OBVIOUS
  <2>1. CASE Next
    BY <2>1, HandlerTimer, UserTimer, ReplayStepsTimer DEF Next
  <2>2. CASE UNCHANGED vars
    BY <2>2, TimerUntouched DEF vars, replayVars
  <2> QED  BY <2>1, <2>2
<1> QED  BY <1>1, <1>2, TypeCorrect, PTL DEF Spec

\* A replay has a timer exactly while it is on: no handler stops a nil one.
THEOREM ReplayTimer == Spec => []TimerIffReplaying
<1>1. TimerInv => TimerIffReplaying
  BY DEF TimerInv
<1> QED  BY <1>1, TimerInvariant, PTL

\* There is always somebody who will end a replay, however users, handlers and
\* timers interleave.
THEOREM ReplayEnder == Spec => []ReplayHasEnder
<1>1. TimerInv => ReplayHasEnder
  BY DEF TimerInv
<1> QED  BY <1>1, TimerInvariant, PTL

-----------------------------------------------------------------------------
(* The requests from outside.                                              *)

\* nextOutsideRequest marks and records the requests from outside in the order
\* of the recording, whoever calls it: none is marked while an earlier one is
\* not.
OutsideSeenInOrder ==
    \A i \in seen, j \in Unseen :
        FromOutside(replayingFrom.Requests[i]) /\ FromOutside(replayingFrom.Requests[j])
            => i < j

\* nextOutsideRequest keeps the order: what it marks comes before a stop, and
\* an outside request it leaves unmarked comes after one.
LEMMA SendDueOrder ==
    ASSUME TypeOK, OutsideSeenInOrder, NEW alwaysSend \in BOOLEAN,
           SendDue(alwaysSend), replayingFrom' = replayingFrom
    PROVE  OutsideSeenInOrder'
<1> DEFINE rs == replayingFrom.Requests
<1>1. DOMAIN rs \subseteq Nat
  BY DEF TypeOK, Recordings
<1>2. seen' = seen \cup Due(alwaysSend) /\ Unseen' = Unseen \ Due(alwaysSend)
  BY DEF SendDue, Unseen
<1> SUFFICES ASSUME NEW i \in seen', NEW j \in Unseen',
                    FromOutside(rs[i]), FromOutside(rs[j])
             PROVE  i < j
  BY DEF OutsideSeenInOrder
<1>3. j \in Unseen /\ j \in UnseenOutside /\ j \notin Due(alwaysSend)
  BY <1>2 DEF UnseenOutside
<1>4. CASE i \in seen
  BY <1>3, <1>4 DEF OutsideSeenInOrder
<1>5. CASE i \in Due(alwaysSend)
  <2>1. PICK e \in Stops(alwaysSend) : ~(j <= e)
    BY <1>3 DEF Due
  <2>2. i <= e
    BY <1>5 DEF Due
  <2>3. i \in Nat /\ j \in Nat /\ e \in Nat
    BY <1>1, <1>3, <1>5 DEF Due, Stops, UnseenOutside, Unseen
  <2> QED  BY <2>1, <2>2, <2>3
<1> QED  BY <1>2, <1>4, <1>5

\* The order is kept by a step that takes nothing: it marks inside requests
\* only, or starts with no marks.
LEMMA NothingTakenOrder ==
    ASSUME OutsideSeenInOrder,
           \/ /\ replayingFrom' = replayingFrom
              /\ seen \subseteq seen'
              /\ \A i \in seen' \ seen : ~FromOutside(replayingFrom.Requests[i])
           \/ seen' = {}
    PROVE  OutsideSeenInOrder'
  BY DEF OutsideSeenInOrder, Unseen

\* A connection's goroutine keeps the order.
LEMMA HandlerOrder ==
    ASSUME TypeOK, OutsideSeenInOrder, NEW c \in Conns, HandlerSteps(c)
    PROVE  OutsideSeenInOrder'
<1>1. CASE HandlerDecide(c)
  <2>1. PICK m \in Arriving : \E d \in Decisions(m) : seen' = seen \cup d.marks
    BY <1>1 DEF HandlerDecide
  <2>2. PICK d \in Decisions(m) : seen' = seen \cup d.marks
    BY <2>1
  <2>3. \A i \in d.marks : ~FromOutside(replayingFrom.Requests[i])
    BY DecisionType
  <2> QED  BY <1>1, <2>2, <2>3, NothingTakenOrder DEF HandlerDecide
<1>2. CASE HandlerNext(c)
  BY <1>2, SendDueOrder DEF HandlerNext
<1>3. CASE ~HandlerDecide(c) /\ ~HandlerNext(c)
  <2>1. replayingFrom' = replayingFrom /\ seen' = seen
    BY <1>3 DEF HandlerSteps, HandlerReadError, HandlerResponse,
                HandlerUpstreamError, HandlerCheck, HandlerOffer,
                HandlerTestTimer, HandlerLoadTimer, HandlerRearm, replayVars
  <2> QED  BY <2>1, NothingTakenOrder
<1> QED  BY <1>1, <1>2, <1>3

\* The user's handlers take nothing: they keep the marks or take them all away.
LEMMA UserOrder == ASSUME OutsideSeenInOrder, UserSteps PROVE OutsideSeenInOrder'
<1>1. \/ replayingFrom' = replayingFrom /\ seen' = seen
      \/ seen' = {}
  BY DEF UserSteps, HomeHandler, InspectHandler, BlockConfigHandler,
         BlockConfigRefused, StartRecordingHandler, EndRecordingHandler,
         StartReplayHandler, StartReplayMissing, replayVars
<1> QED  BY <1>1, NothingTakenOrder

\* StartReplayHandler and EndReplay keep the order.
LEMMA ReplayStepsOrder ==
    ASSUME TypeOK, OutsideSeenInOrder, ReplaySteps PROVE OutsideSeenInOrder'
<1>1. ASSUME NEW place \in {"kick", "next"}, GoroutineNext(place)
      PROVE  OutsideSeenInOrder'
  BY <1>1, SendDueOrder DEF GoroutineNext
<1>2. CASE \/ GoroutineOffer \/ \E t \in 1..MaxReplays : TimerFires(t)
           \/ EndReplayToken \/ EndReplayContinue \/ EndReplayAllSeen
           \/ EndReplayFinish
  <2>1. replayingFrom' = replayingFrom /\ seen' = seen
    BY <1>2 DEF GoroutineOffer, TimerFires, EndReplayToken, EndReplayContinue,
                EndReplayAllSeen, EndReplayFinish, replayVars
  <2> QED  BY <2>1, NothingTakenOrder
<1> QED  BY <1>1, <1>2 DEF ReplaySteps, StartReplayKick, EndReplayNext

\* The requests from outside are marked in the order of the recording, in any
\* interleaving of the callers of nextOutsideRequest.
LEMMA OutsideOrder == Spec => []OutsideSeenInOrder
<1>1. Init => OutsideSeenInOrder
  BY DEF Init, OutsideSeenInOrder
<1>2. TypeOK /\ OutsideSeenInOrder /\ [Next]_vars => OutsideSeenInOrder'
  <2> SUFFICES ASSUME TypeOK, OutsideSeenInOrder, [Next]_vars
               PROVE  OutsideSeenInOrder'
    OBVIOUS
  <2>1. CASE Next
    BY <2>1, HandlerOrder, UserOrder, ReplayStepsOrder DEF Next
  <2>2. CASE UNCHANGED vars
    BY <2>2, NothingTakenOrder DEF vars, replayVars
  <2> QED  BY <2>1, <2>2
<1> QED  BY <1>1, <1>2, TypeCorrect, PTL DEF Spec

\* Block lets every request from outside pass (proxy.go:102): none is ever in a
\* recording as blocked, be it made, saved or replayed.
OutsideNeverBlocked ==
    /\ NoOutsideBlock(recording.Requests)
    /\ NoOutsideBlock(replayingFrom.Requests)
    /\ \A id \in DOMAIN disk : NoOutsideBlock(disk[id].Requests)

\* Appending requests that are not blocked from outside.
LEMMA NoOutsideBlockConcat ==
    ASSUME NEW s \in Seq(Request), NEW t \in Seq(Request),
           NoOutsideBlock(s), NoOutsideBlock(t)
    PROVE  NoOutsideBlock(s \o t)
<1>1. /\ s \o t \in Seq(Request) /\ Len(s \o t) = Len(s) + Len(t)
      /\ \A i \in 1 .. Len(s) + Len(t) :
            (s \o t)[i] = IF i <= Len(s) THEN s[i] ELSE t[i - Len(s)]
  BY ConcatProperties
<1>2. /\ DOMAIN (s \o t) = 1 .. Len(s) + Len(t)
      /\ DOMAIN s = 1 .. Len(s) /\ DOMAIN t = 1 .. Len(t)
      /\ Len(s) \in Nat /\ Len(t) \in Nat
  BY <1>1, LenProperties
<1> SUFFICES ASSUME NEW i \in 1 .. Len(s) + Len(t), FromOutside((s \o t)[i])
             PROVE  VerdictOf((s \o t)[i]) = Pass
  BY <1>2 DEF NoOutsideBlock
<1>3. CASE i <= Len(s)
  <2>1. i \in DOMAIN s /\ (s \o t)[i] = s[i]
    BY <1>1, <1>2, <1>3
  <2> QED  BY <2>1 DEF NoOutsideBlock
<1>4. CASE ~(i <= Len(s))
  <2>1. i - Len(s) \in DOMAIN t /\ (s \o t)[i] = t[i - Len(s)]
    BY <1>1, <1>2, <1>4
  <2> QED  BY <2>1 DEF NoOutsideBlock
<1> QED  BY <1>3, <1>4

\* A recording without blocked outside requests stays one when a
\* request is appended that is no blocked one from outside.
LEMMA NoOutsideBlockAppend ==
    ASSUME NEW s \in Seq(Request), NEW r \in Request, NoOutsideBlock(s),
           FromOutside(r) => VerdictOf(r) = Pass
    PROVE  NoOutsideBlock(Append(s, r))
<1>1. <<r>> \in Seq(Request) /\ Append(s, r) = s \o <<r>>
  BY AppendIsConcat
<1>2. NoOutsideBlock(<<r>>)
  BY DEF NoOutsideBlock
<1> QED  BY <1>1, <1>2, NoOutsideBlockConcat

\* What nextOutsideRequest records is as it was recorded before.
LEMMA SendDueNotBlocked ==
    ASSUME TypeOK, OutsideNeverBlocked, NEW alwaysSend \in BOOLEAN,
           SendDue(alwaysSend)
    PROVE  NoOutsideBlock(recording'.Requests)
<1> DEFINE rs == replayingFrom.Requests
<1>1. rs \in Seq(Request) /\ recording.Requests \in Seq(Request) /\ recording \in Recordings
  BY DEF TypeOK, Recordings
<1>2. Due(alwaysSend) \in SUBSET DOMAIN rs
  BY DEF Due, UnseenOutside, Unseen
<1>3. PICK batch \in Ascending(Due(alwaysSend)) :
         recording' = [recording EXCEPT !.Requests =
             @ \o [k \in DOMAIN batch |-> rs[batch[k]]]]
  BY DEF SendDue
<1> DEFINE copies == [k \in DOMAIN batch |-> rs[batch[k]]]
<1>4. /\ copies \in Seq(Request)
      /\ \A k \in DOMAIN copies : \E i \in DOMAIN rs : copies[k] = rs[i]
  BY <1>1, <1>2, BatchType
<1>5. recording'.Requests = recording.Requests \o copies
  BY <1>1, <1>3 DEF Recordings
<1> HIDE DEF copies
<1>6. NoOutsideBlock(rs)
  BY DEF OutsideNeverBlocked
<1>7. NoOutsideBlock(copies)
  BY <1>4, <1>6 DEF NoOutsideBlock
<1>8. NoOutsideBlock(recording.Requests)
  BY DEF OutsideNeverBlocked
<1> QED  BY <1>1, <1>4, <1>5, <1>7, <1>8, NoOutsideBlockConcat

\* A recording that is saved was not blocked either.
LEMMA WriteNotBlocked ==
    ASSUME TypeOK, OutsideNeverBlocked, writeRecording
    PROVE  \A id \in DOMAIN disk' : NoOutsideBlock(disk'[id].Requests)
<1>1. disk \in Seq(Recordings) /\ recording \in Recordings
  BY DEF TypeOK
<1>2. CASE disk' = disk
  BY <1>2 DEF OutsideNeverBlocked
<1>3. CASE disk' = Append(disk, recording)
  <2>1. \A id \in DOMAIN disk' : id \in DOMAIN disk \/ disk'[id] = recording
    BY <1>1, <1>3
  <2>2. \A id \in DOMAIN disk' : id \in DOMAIN disk => disk'[id] = disk[id]
    BY <1>1, <1>3
  <2> QED  BY <2>1, <2>2 DEF OutsideNeverBlocked
<1> QED  BY <1>2, <1>3 DEF writeRecording

\* The empty recording has no blocked request.
LEMMA NoRecordingNotBlocked == NoOutsideBlock(NoRecording.Requests)
  BY DEF NoRecording, NoOutsideBlock

\* A step that changes none of the three lists.
LEMMA NotBlockedUntouched ==
    ASSUME OutsideNeverBlocked, recording'.Requests = recording.Requests,
           replayingFrom' = replayingFrom, disk' = disk
    PROVE  OutsideNeverBlocked'
  BY DEF OutsideNeverBlocked

\* A connection's goroutine records no outside request as blocked.
LEMMA HandlerNotBlocked ==
    ASSUME TypeOK, OutsideNeverBlocked, NEW c \in Conns, HandlerSteps(c)
    PROVE  OutsideNeverBlocked'
<1>1. CASE HandlerDecide(c)
  <2>1. PICK m \in Arriving : \E d \in Decisions(m) :
          IF isInspecting THEN UNCHANGED recording
                          ELSE record(NewRequest(m, d.verdict))
    BY <1>1 DEF HandlerDecide
  <2>2. PICK d \in Decisions(m) :
          IF isInspecting THEN UNCHANGED recording
                          ELSE record(NewRequest(m, d.verdict))
    BY <2>1
  <2> DEFINE r == NewRequest(m, d.verdict)
  <2>3. m \in Traffic /\ d.verdict \in Verdict /\ (IsOutside(m) => d.verdict = Pass)
    BY DecisionType, ProxyAssumption
  <2>4. r \in Request /\ (FromOutside(r) => VerdictOf(r) = Pass)
    BY <2>3, NewRequestType
  <2>5. recording \in Recordings /\ recording.Requests \in Seq(Request)
    BY DEF TypeOK, Recordings
  <2>6. CASE UNCHANGED recording
    BY <1>1, <2>6, NotBlockedUntouched DEF HandlerDecide, fileVars
  <2>7. CASE record(r)
    <3>1. recording'.Requests = Append(recording.Requests, r)
      BY <2>5, <2>7 DEF record, Recordings
    <3> HIDE DEF r
    <3>2. NoOutsideBlock(recording'.Requests)
      BY <2>4, <2>5, <3>1, NoOutsideBlockAppend DEF OutsideNeverBlocked
    <3>3. replayingFrom' = replayingFrom /\ disk' = disk
      BY <1>1 DEF HandlerDecide, fileVars
    <3> QED  BY <3>2, <3>3 DEF OutsideNeverBlocked
  <2> QED  BY <2>2, <2>6, <2>7
<1>2. CASE HandlerNext(c)
  <2>1. NoOutsideBlock(recording'.Requests)
    BY <1>2, SendDueNotBlocked DEF HandlerNext
  <2>2. replayingFrom' = replayingFrom /\ disk' = disk
    BY <1>2 DEF HandlerNext, fileVars
  <2> QED  BY <2>1, <2>2 DEF OutsideNeverBlocked
<1>3. CASE ~HandlerDecide(c) /\ ~HandlerNext(c)
  <2>1. recording' = recording /\ replayingFrom' = replayingFrom /\ disk' = disk
    BY <1>3 DEF HandlerSteps, HandlerReadError, HandlerResponse,
                HandlerUpstreamError, HandlerCheck, HandlerOffer,
                HandlerTestTimer, HandlerLoadTimer, HandlerRearm, replayVars, fileVars
  <2> QED  BY <2>1, NotBlockedUntouched
<1> QED  BY <1>1, <1>2, <1>3

\* The user's handlers copy recordings, or empty them.
LEMMA UserNotBlocked ==
    ASSUME TypeOK, OutsideNeverBlocked, UserSteps PROVE OutsideNeverBlocked'
<1>0. NoOutsideBlock(NoRecording.Requests)
  BY NoRecordingNotBlocked
<1>1. CASE HomeHandler
  BY <1>0, <1>1 DEF HomeHandler, OutsideNeverBlocked, fileVars
<1>2. ASSUME NEW id \in DOMAIN disk, InspectHandler(id) PROVE OutsideNeverBlocked'
  BY <1>2 DEF InspectHandler, OutsideNeverBlocked, fileVars
<1>3. ASSUME NEW form \in Forms, BlockConfigHandler(form) PROVE OutsideNeverBlocked'
  <2>1. recording'.Requests = recording.Requests
    BY <1>3, ConfiguredType, RecordedConfigType DEF BlockConfigHandler, TypeOK
  <2> QED  BY <1>3, <2>1, NotBlockedUntouched DEF BlockConfigHandler, fileVars
<1>4. CASE BlockConfigRefused \/ StartReplayMissing
  BY <1>4, NotBlockedUntouched
     DEF BlockConfigRefused, StartReplayMissing, replayVars, fileVars
<1>5. CASE StartRecordingHandler
  <2>1. Settings(blockConfig) \in BlockConfigs
    BY DEF TypeOK, Settings, BlockConfigs
  <2>2. recording'.Requests = NoRecording.Requests
    BY <1>5, <2>1, NoRecordingType, RecordedConfigType DEF StartRecordingHandler
  <2> QED  BY <1>0, <1>5, <2>2 DEF StartRecordingHandler, OutsideNeverBlocked, fileVars
<1>6. CASE EndRecordingHandler
  BY <1>0, <1>6, WriteNotBlocked DEF EndRecordingHandler, OutsideNeverBlocked, replayVars
<1>7. ASSUME NEW id \in DOMAIN disk, NEW keepMode \in BOOLEAN,
             StartReplayHandler(id, keepMode)
      PROVE  OutsideNeverBlocked'
  BY <1>0, <1>7 DEF StartReplayHandler, OutsideNeverBlocked, fileVars
<1> QED  BY <1>1, <1>2, <1>3, <1>4, <1>5, <1>6, <1>7 DEF UserSteps

\* What the goroutines of a replay send again is recorded as it was, and what
\* they save is the recording made.
LEMMA ReplayStepsNotBlocked ==
    ASSUME TypeOK, OutsideNeverBlocked, ReplaySteps PROVE OutsideNeverBlocked'
<1>1. ASSUME NEW place \in {"kick", "next"}, GoroutineNext(place)
      PROVE  OutsideNeverBlocked'
  <2>1. NoOutsideBlock(recording'.Requests)
    BY <1>1, SendDueNotBlocked DEF GoroutineNext
  <2> QED  BY <1>1, <2>1 DEF GoroutineNext, OutsideNeverBlocked, fileVars
<1>2. CASE \/ GoroutineOffer \/ \E t \in 1..MaxReplays : TimerFires(t)
           \/ EndReplayToken \/ EndReplayContinue \/ EndReplayAllSeen
  <2>1. recording' = recording /\ replayingFrom' = replayingFrom /\ disk' = disk
    BY <1>2 DEF GoroutineOffer, TimerFires, EndReplayToken, EndReplayContinue,
                EndReplayAllSeen, replayVars, fileVars
  <2> QED  BY <2>1, NotBlockedUntouched
<1>3. CASE EndReplayFinish
  BY <1>3, WriteNotBlocked DEF EndReplayFinish, OutsideNeverBlocked
<1> QED  BY <1>1, <1>2, <1>3 DEF ReplaySteps, StartReplayKick, EndReplayNext

\* No request from outside is ever blocked, in no recording that is being
\* made, saved or replayed, whatever modes and matchers are chosen.
LEMMA OutsidePasses == Spec => []OutsideNeverBlocked
<1>1. Init => OutsideNeverBlocked
  BY NoRecordingNotBlocked, SavedAssumption DEF Init, OutsideNeverBlocked
<1>2. TypeOK /\ OutsideNeverBlocked /\ [Next]_vars => OutsideNeverBlocked'
  <2> SUFFICES ASSUME TypeOK, OutsideNeverBlocked, [Next]_vars
               PROVE  OutsideNeverBlocked'
    OBVIOUS
  <2>1. CASE Next
    BY <2>1, HandlerNotBlocked, UserNotBlocked, ReplayStepsNotBlocked DEF Next
  <2>2. CASE UNCHANGED vars
    BY <2>2, NotBlockedUntouched DEF vars, replayVars, fileVars
  <2> QED  BY <2>1, <2>2
<1> QED  BY <1>1, <1>2, TypeCorrect, PTL DEF Spec
=============================================================================
