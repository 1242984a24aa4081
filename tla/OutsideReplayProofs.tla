------------------------- MODULE OutsideReplayProofs ------------------------
(***************************************************************************)
(* The proxy implements the abstract replay of module OutsideReplay: every *)
(* step of Proxy is one of its steps, or leaves what it sees unchanged.    *)
(***************************************************************************)
EXTENDS ProxyProofs

\* What a step of the abstract replay may be.
Step == [Promise!Start \/ Promise!Advance \/ Promise!Cancel \/ Promise!Forget]_<<timers, isReplaying, UnseenOutside>>

\* nextOutsideRequest takes from the front of what is left: a stop comes after
\* everything it sends, and not after anything it leaves.
LEMMA SendDueAdvances ==
    ASSUME TypeOK, NEW alwaysSend \in BOOLEAN, SendDue(alwaysSend),
           timers' = timers, isReplaying' = isReplaying,
           replayingFrom' = replayingFrom
    PROVE  Step
<1>1. UnseenOutside' = UnseenOutside \ Due(alwaysSend)
  BY DEF SendDue, UnseenOutside, Unseen
<1>2. ASSUME NEW i \in UnseenOutside, i \in Due(alwaysSend),
             NEW j \in UnseenOutside, j \notin Due(alwaysSend)
      PROVE  i < j
  <2>1. PICK e \in Stops(alwaysSend) : ~(j <= e)
    BY <1>2 DEF Due
  <2>2. i <= e
    BY <1>2 DEF Due
  <2>3. i \in Nat /\ j \in Nat /\ e \in Nat
    BY <1>2 DEF TypeOK, Recordings, Stops, UnseenOutside, Unseen
  <2> QED  BY <2>1, <2>2, <2>3
<1>3. CASE UnseenOutside' = UnseenOutside
  BY <1>3 DEF Step
<1>4. CASE UnseenOutside' # UnseenOutside
  BY <1>1, <1>2, <1>4 DEF Step, Promise!Advance
<1> QED  BY <1>3, <1>4

\* A step that sends nothing and neither begins nor ends a replay is not seen,
\* though it may mark inside requests.
LEMMA NothingSent ==
    ASSUME timers' = timers, isReplaying' = isReplaying,
           replayingFrom' = replayingFrom,
           seen \subseteq seen',
           \A i \in seen' \ seen : ~FromOutside(replayingFrom.Requests[i])
    PROVE  Step
<1>1. UnseenOutside' = UnseenOutside
  BY DEF UnseenOutside, Unseen
<1> QED  BY <1>1 DEF Step

\* A connection's goroutine sends what is due, or nothing.
LEMMA HandlerStep ==
    ASSUME TypeOK, NEW c \in Conns, HandlerSteps(c) PROVE Step
<1>1. CASE HandlerDecide(c)
  <2>1. PICK m \in Arriving : \E d \in Decisions(m) : seen' = seen \cup d.marks
    BY <1>1 DEF HandlerDecide
  <2>2. PICK d \in Decisions(m) : seen' = seen \cup d.marks
    BY <2>1
  <2>3. \A i \in d.marks : ~FromOutside(replayingFrom.Requests[i])
    BY DecisionType
  <2>4. /\ timers' = timers /\ isReplaying' = isReplaying
        /\ replayingFrom' = replayingFrom
    BY <1>1 DEF HandlerDecide
  <2> QED  BY <2>2, <2>3, <2>4, NothingSent
<1>2. CASE HandlerNext(c)
  BY <1>2, SendDueAdvances DEF HandlerNext
<1>3. CASE ~HandlerDecide(c) /\ ~HandlerNext(c)
  <2>1. /\ timers' = timers /\ isReplaying' = isReplaying
        /\ replayingFrom' = replayingFrom /\ seen' = seen
    BY <1>3 DEF HandlerSteps, HandlerReadError, HandlerResponse,
                HandlerUpstreamError, HandlerCheck, HandlerOffer,
                HandlerTestTimer, HandlerLoadTimer, HandlerRearm, replayVars
  <2> QED  BY <2>1, NothingSent
<1> QED  BY <1>1, <1>2, <1>3

\* The user starts replays, cancels them, or takes away what is replayed; a new
\* matcher, which forgets the marks, is refused while a replay is on.
LEMMA UserStep == ASSUME TypeOK, TypeOK', UserSteps PROVE Step
<1>0. UnseenOutside' \subseteq Nat
  <2>1. DOMAIN replayingFrom'.Requests \subseteq Nat
    BY DEF TypeOK, Recordings
  <2> QED  BY <2>1 DEF UnseenOutside, Unseen
<1>1. CASE HomeHandler \/ \E id \in DOMAIN disk : InspectHandler(id)
  <2>1. isReplaying' = FALSE /\ timers' = timers
    BY <1>1 DEF HomeHandler, InspectHandler, CancelReplay
  <2>2. UnseenOutside' = UnseenOutside
    BY <1>1 DEF HomeHandler, InspectHandler, UnseenOutside, Unseen
  <2> QED  BY <2>1, <2>2 DEF Step, Promise!Cancel
<1>2. ASSUME NEW form \in Forms, BlockConfigHandler(form) PROVE Step
  <2>1. ~isReplaying /\ isReplaying' = isReplaying /\ timers' = timers
    BY <1>2 DEF BlockConfigHandler
  <2> QED  BY <1>0, <2>1 DEF Step, Promise!Forget
<1>3. CASE StartRecordingHandler
  <2>1. /\ timers' = timers /\ isReplaying' = isReplaying
        /\ replayingFrom'.Requests = <<>>
    BY <1>3 DEF StartRecordingHandler, NoRecording
  <2>2. UnseenOutside' = {}
    BY <2>1 DEF UnseenOutside, Unseen
  <2>3. CASE UnseenOutside = {}
    BY <2>1, <2>2, <2>3 DEF Step
  <2>4. CASE UnseenOutside # {}
    BY <2>1, <2>2, <2>4 DEF Step, Promise!Advance
  <2> QED  BY <2>3, <2>4
<1>4. ASSUME NEW id \in DOMAIN disk, NEW keepMode \in BOOLEAN,
             StartReplayHandler(id, keepMode)
      PROVE  Step
  <2>1. timers' = timers + 1 /\ isReplaying' = TRUE
    BY <1>4 DEF StartReplayHandler
  <2> QED  BY <1>0, <2>1 DEF Step, Promise!Start
<1>5. CASE BlockConfigRefused \/ EndRecordingHandler \/ StartReplayMissing
  BY <1>5, NothingSent DEF BlockConfigRefused, EndRecordingHandler,
                           StartReplayMissing, replayVars
<1> QED  BY <1>1, <1>2, <1>3, <1>4, <1>5 DEF UserSteps

\* The goroutines of a replay send what is due, or end the replay.
LEMMA ReplayStep == ASSUME TypeOK, ReplaySteps PROVE Step
<1>1. ASSUME NEW place \in {"kick", "next"}, GoroutineNext(place) PROVE Step
  BY <1>1, SendDueAdvances DEF GoroutineNext
<1>2. CASE EndReplayFinish
  <2>1. isReplaying' = FALSE /\ timers' = timers
    BY <1>2 DEF EndReplayFinish
  <2>2. UnseenOutside' = UnseenOutside
    BY <1>2 DEF EndReplayFinish, UnseenOutside, Unseen
  <2> QED  BY <2>1, <2>2 DEF Step, Promise!Cancel
<1>3. CASE \/ GoroutineOffer \/ \E t \in 1..MaxReplays : TimerFires(t)
           \/ EndReplayToken \/ EndReplayContinue \/ EndReplayAllSeen
  BY <1>3, NothingSent DEF GoroutineOffer, TimerFires, EndReplayToken,
                           EndReplayContinue, EndReplayAllSeen, replayVars
<1> QED  BY <1>1, <1>2, <1>3 DEF ReplaySteps, StartReplayKick, EndReplayNext

\* Whoever calls nextOutsideRequest marks and records requests from outside from
\* the front, and none is put back while a replay is on: the proxy implements
\* OutsideReplay.
THEOREM InTurn == Spec => OutsideInTurn
<1>1. Init => Promise!Init
  <2> SUFFICES ASSUME Init PROVE Promise!Init
    OBVIOUS
  <2>1. timers = 0 /\ isReplaying = FALSE /\ replayingFrom.Requests = <<>>
    BY DEF Init, NoRecording
  <2>2. UnseenOutside = {}
    BY <2>1 DEF UnseenOutside, Unseen
  <2> QED  BY <2>1, <2>2 DEF Promise!Init
<1>2. TypeOK /\ TypeOK' /\ [Next]_vars => Step
  <2> SUFFICES ASSUME TypeOK, TypeOK', [Next]_vars PROVE Step
    OBVIOUS
  <2>1. CASE Next
    BY <2>1, HandlerStep, UserStep, ReplayStep DEF Next
  <2>2. CASE UNCHANGED vars
    BY <2>2, NothingSent DEF vars, replayVars
  <2> QED  BY <2>1, <2>2
<1>3. Step <=> [Promise!Start \/ Promise!Advance \/ Promise!Cancel \/ Promise!Forget]_(Promise!vars)
  BY DEF Step, Promise!vars
<1> QED  BY <1>1, <1>2, <1>3, TypeCorrect, PTL DEF Spec, OutsideInTurn, Promise!Spec

=============================================================================
