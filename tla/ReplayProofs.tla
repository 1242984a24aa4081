---------------------------- MODULE ReplayProofs ----------------------------
(***************************************************************************)
(* What a replay promises, proved of module Proxy for any traffic, any     *)
(* recordings and any interleaving: which verdicts it repeats, how many    *)
(* requests it blocks, which requests from outside it sends again.         *)
(***************************************************************************)
EXTENDS ProxyProofs, RequestMatcherProofs

-----------------------------------------------------------------------------
(* The verdicts that are repeated.                                         *)

\* What the matchers that search have marked by now: requests from outside,
\* and, if it is the counting one, requests the recording has gone past.
MarksBehind ==
    LET made == recording.Requests
        old == replayingFrom.Requests
    IN  isReplaying => \A j \in seen :
            \/ FromOutside(old[j])
            \/ Matcher = "timing"
            \/ /\ Matcher = "counting"
               /\ lastSavedId = 0 => Position(old, j) < NextPosition(made, old[j].msg)

\* The two properties need to know what is marked, since the matchers skip it,
\* and that a replay records what it decides.
VerdictInv ==
    /\ isReplaying => ~isInspecting
    /\ MarksBehind
    /\ InPlaceSameVerdict
    /\ UniqueSameVerdict

\* Where no replay is on, or nothing is made and marked yet, there is nothing
\* to show.
LEMMA NoVerdictYet ==
    ASSUME \/ ~isReplaying'
           \/ seen' = {} /\ recording'.Requests = <<>> /\ ~isInspecting'
    PROVE  VerdictInv'
  BY DEF VerdictInv, MarksBehind, InPlaceSameVerdict, UniqueSameVerdict, ReplayedBy

\* A step that changes neither recording, and forgets no mark's reason.
LEMMA VerdictsUntouched ==
    ASSUME VerdictInv, recording'.Requests = recording.Requests,
           replayingFrom' = replayingFrom, blockConfig' = blockConfig,
           isReplaying' = isReplaying, isInspecting' = isInspecting,
           seen' = seen, lastSavedId' = lastSavedId
    PROVE  VerdictInv'
  BY DEF VerdictInv, MarksBehind, InPlaceSameVerdict, UniqueSameVerdict,
         ReplayedBy, Matcher

\* A recorded request is the message with its verdict.
LEMMA RequestParts ==
    ASSUME NEW r \in Request
    PROVE  NewRequest(r.msg, VerdictOf(r)) = r
  BY DEF NewRequest, Request, VerdictOf

\* What appending requests does to the requests there are.
LEMMA GrownRecording ==
    ASSUME NEW made \in Seq(Request), NEW more \in Seq(Request), NEW new,
           new = made \o more
    PROVE  /\ \A i \in DOMAIN made : i \in DOMAIN new /\ new[i] = made[i]
           /\ \A i \in DOMAIN new \ DOMAIN made : \E k \in DOMAIN more : new[i] = more[k]
           /\ \A m : NextPosition(made, m) \in Nat /\ NextPosition(new, m) \in Nat
           /\ \A m : NextPosition(made, m) <= NextPosition(new, m)
<1>1. /\ new \in Seq(Request)
      /\ DOMAIN new = 1 .. Len(made) + Len(more)
      /\ DOMAIN made = 1 .. Len(made) /\ DOMAIN more = 1 .. Len(more)
      /\ Len(made) \in Nat /\ Len(more) \in Nat
      /\ \A i \in 1 .. Len(made) + Len(more) :
            new[i] = IF i <= Len(made) THEN made[i] ELSE more[i - Len(made)]
  BY ConcatProperties, LenProperties
<1>2. \A i \in DOMAIN made : i \in DOMAIN new /\ new[i] = made[i]
  BY <1>1
<1>3. \A i \in DOMAIN new \ DOMAIN made : \E k \in DOMAIN more : new[i] = more[k]
  <2> SUFFICES ASSUME NEW i \in DOMAIN new \ DOMAIN made
               PROVE  \E k \in DOMAIN more : new[i] = more[k]
    OBVIOUS
  <2>1. i - Len(made) \in DOMAIN more /\ new[i] = more[i - Len(made)]
    BY <1>1
  <2> QED  BY <2>1
<1>4. \A m : NextPosition(made, m) \in Nat /\ NextPosition(new, m) \in Nat
  BY <1>1, StreamType
<1>5. \A m : NextPosition(made, m) <= NextPosition(new, m)
  BY StreamGrows
<1> QED  BY <1>2, <1>3, <1>4, <1>5

\* nextOutsideRequest sends again requests from outside only, whose verdicts
\* nobody asks for, and which have passed.
LEMMA SendDueParts ==
    ASSUME TypeOK, NEW alwaysSend \in BOOLEAN, SendDue(alwaysSend)
    PROVE  \E more \in Seq(Request) :
              /\ recording'.Requests = recording.Requests \o more
              /\ \A k \in DOMAIN more :
                    /\ FromOutside(more[k])
                    /\ OutsideNeverBlocked => VerdictOf(more[k]) = Pass
<1> DEFINE rs == replayingFrom.Requests
<1>1. rs \in Seq(Request) /\ recording \in Recordings
  BY DEF TypeOK, Recordings
<1>2. Due(alwaysSend) \in SUBSET DOMAIN rs
  BY DEF Due, UnseenOutside, Unseen
<1>3. PICK batch \in Ascending(Due(alwaysSend)) :
         recording' = [recording EXCEPT !.Requests =
             @ \o [k \in DOMAIN batch |-> rs[batch[k]]]]
  BY DEF SendDue
<1> DEFINE copies == [k \in DOMAIN batch |-> rs[batch[k]]]
<1>4. /\ copies \in Seq(Request)
      /\ \A k \in DOMAIN copies : \E i \in Due(alwaysSend) : copies[k] = rs[i]
  BY <1>1, <1>2, BatchType
<1>5. recording'.Requests = recording.Requests \o copies
  BY <1>1, <1>3 DEF Recordings
<1> HIDE DEF copies
<1>6. \A k \in DOMAIN copies : FromOutside(copies[k])
  BY <1>4 DEF Due, UnseenOutside
<1>7. OutsideNeverBlocked => \A k \in DOMAIN copies : VerdictOf(copies[k]) = Pass
  BY <1>2, <1>4, <1>6 DEF OutsideNeverBlocked, NoOutsideBlock
<1> QED  BY <1>4, <1>5, <1>6, <1>7

\* What it sends leaves the verdicts on inside requests as they were.
LEMMA SendDueVerdicts ==
    ASSUME TypeOK, VerdictInv, NEW alwaysSend \in BOOLEAN, SendDue(alwaysSend),
           replayingFrom' = replayingFrom, blockConfig' = blockConfig,
           isReplaying' = isReplaying, isInspecting' = isInspecting,
           lastSavedId' = lastSavedId
    PROVE  VerdictInv'
<1> DEFINE made == recording.Requests
           new == recording'.Requests
           old == replayingFrom.Requests
<1>1. made \in Seq(Request) /\ old \in Seq(Request)
  BY DEF TypeOK, Recordings
<1>2. PICK more \in Seq(Request) :
         /\ new = made \o more
         /\ \A k \in DOMAIN more : FromOutside(more[k])
  BY SendDueParts
<1>3. /\ \A i \in DOMAIN made : i \in DOMAIN new /\ new[i] = made[i]
      /\ \A i \in DOMAIN made : Position(new, i) = Position(made, i)
      /\ \A m : NextPosition(made, m) \in Nat /\ NextPosition(new, m) \in Nat
      /\ \A m : NextPosition(made, m) <= NextPosition(new, m)
  <2> HIDE DEF made, new
  <2>1. \A i \in DOMAIN made : i \in DOMAIN new /\ new[i] = made[i]
    BY <1>1, <1>2, GrownRecording
  <2>2. \A i \in DOMAIN made : Position(made \o more, i) = Position(made, i)
    BY <1>1, PositionAppend
  <2>3. /\ \A m : NextPosition(made, m) \in Nat /\ NextPosition(new, m) \in Nat
        /\ \A m : NextPosition(made, m) <= NextPosition(new, m)
    BY <1>1, <1>2, GrownRecording
  <2> QED  BY <1>2, <2>1, <2>2, <2>3
<1>4. \A i \in DOMAIN new : ~FromOutside(new[i]) => i \in DOMAIN made
  <2> HIDE DEF made, new
  <2>1. \A i \in DOMAIN new \ DOMAIN made : \E k \in DOMAIN more : new[i] = more[k]
    BY <1>1, <1>2, GrownRecording
  <2> QED  BY <1>2, <2>1
<1>5. seen' = seen \cup Due(alwaysSend) /\ \A j \in Due(alwaysSend) : FromOutside(old[j])
  BY DEF SendDue, Due, UnseenOutside
<1>6. MarksBehind'
  <2> SUFFICES ASSUME isReplaying, NEW j \in seen
               PROVE  \/ FromOutside(old[j])
                      \/ Matcher = "timing"
                      \/ /\ Matcher = "counting"
                         /\ lastSavedId = 0 => Position(old, j) < NextPosition(new, old[j].msg)
    BY <1>5 DEF MarksBehind, Matcher
  <2>1. \/ FromOutside(old[j])
        \/ Matcher = "timing"
        \/ /\ Matcher = "counting"
           /\ lastSavedId = 0 => Position(old, j) < NextPosition(made, old[j].msg)
    BY DEF VerdictInv, MarksBehind
  <2>2. Position(old, j) \in Nat
    <3>1. j \in getStream(old, old[j].msg)
      BY DEF TypeOK, getStream
    <3> QED  BY <1>1, <3>1, PositionType
  <2>3. /\ NextPosition(made, old[j].msg) \in Nat /\ NextPosition(new, old[j].msg) \in Nat
        /\ NextPosition(made, old[j].msg) <= NextPosition(new, old[j].msg)
    BY <1>3
  <2>4. Position(old, j) < NextPosition(made, old[j].msg)
            => Position(old, j) < NextPosition(new, old[j].msg)
    BY <2>2, <2>3
  <2> QED  BY <2>1, <2>4
<1>7. InPlaceSameVerdict'
  <2> HIDE DEF made, new
  <2> SUFFICES ASSUME ReplayedBy(SearchKinds), Matcher = "counting" => lastSavedId = 0,
                      NEW i \in DOMAIN new, NEW j \in DOMAIN old,
                      ~FromOutside(new[i]), new[i].msg = old[j].msg,
                      Position(new, i) = Position(old, j)
               PROVE  new[i] = old[j]
    BY DEF InPlaceSameVerdict, ReplayedBy, Matcher, new
  <2> QED  BY <1>3, <1>4 DEF VerdictInv, InPlaceSameVerdict, made
<1>8. UniqueSameVerdict'
  <2> HIDE DEF made, new
  <2> SUFFICES ASSUME ReplayedBy({"heuristic", "mix"}),
                      NEW i \in DOMAIN new, NEW j \in DOMAIN old,
                      ~FromOutside(new[i]),
                      \A k \in DOMAIN old : old[k].msg = new[i].msg <=> k = j
               PROVE  new[i] = old[j]
    BY DEF UniqueSameVerdict, ReplayedBy, Matcher, new
  <2> QED  BY <1>3, <1>4 DEF VerdictInv, UniqueSameVerdict, made
<1> QED  BY <1>6, <1>7, <1>8 DEF VerdictInv

\* What a replay decides on a message: the verdict of the recorded request it
\* is bound to find.  A search that marks its answer has found it at the
\* message's own position.
LEMMA ReplayedDecision ==
    ASSUME TypeOK, MarksBehind, isReplaying, NEW m \in Arriving, NEW d \in Decisions(m)
    PROVE  LET made == recording.Requests
               old == replayingFrom.Requests
           IN  /\ \A j \in d.marks :
                     \/ Matcher = "timing"
                     \/ /\ Matcher = "counting"
                        /\ j \in getStream(old, m)
                        /\ Position(old, j) = NextPosition(made, m)
               /\ ReplayedBy(SearchKinds) /\ (Matcher = "counting" => lastSavedId = 0)
                  /\ ~IsOutside(m) =>
                     \A j \in DOMAIN old :
                         old[j].msg = m /\ Position(old, j) = NextPosition(made, m)
                             => d.verdict = VerdictOf(old[j])
               /\ ReplayedBy({"heuristic", "mix"}) /\ ~IsOutside(m) =>
                     \A j \in DOMAIN old :
                         (\A k \in DOMAIN old : old[k].msg = m <=> k = j)
                             => d.verdict = VerdictOf(old[j])
<1> DEFINE made == recording.Requests
           old == replayingFrom.Requests
           match == Match(Matcher, m, made, old, seen)
<1>1. made \in Seq(Request) /\ old \in Seq(Request) /\ m \in Traffic
  BY ProxyAssumption DEF TypeOK, Recordings
<1>2. /\ blockConfig.Mode = "replay" /\ ~IsOutside(m) /\ Matcher # "timing" =>
            /\ d.verdict = IF match = NoMatch THEN Pass ELSE VerdictOf(old[match])
            /\ d.marks = MatchMarks(Matcher, match)
      /\ ~(blockConfig.Mode = "replay" /\ ~IsOutside(m)) => d.marks = {}
  BY DEF Decisions, replayBlock
<1>3. ASSUME NEW j \in d.marks, Matcher # "timing"
      PROVE  /\ Matcher = "counting" /\ j \in getStream(old, m)
             /\ Position(old, j) = NextPosition(made, m)
  <2>1. Matcher = "counting" /\ match # NoMatch /\ j = match
    BY <1>2, <1>3 DEF MatchMarks
  <2>2. j \in CountingMatches(m, made, old, seen)
    BY <2>1 DEF Match
  <2> QED  BY <2>1, <2>2 DEF CountingMatches
<1>4. Matcher # "timing" => Matcher \in SearchKinds
  BY DEF SearchKinds, TypeOK, Matcher
<1>5. ASSUME NEW kinds, kinds \subseteq SearchKinds, ReplayedBy(kinds), ~IsOutside(m),
             NEW j \in DOMAIN old, match = j
      PROVE  d.verdict = VerdictOf(old[j])
  <2>1. Matcher # "timing"
    BY <1>5 DEF ReplayedBy, SearchKinds
  <2>2. j # NoMatch
    BY <1>1 DEF NoMatch
  <2> QED  BY <1>2, <1>5, <2>1, <2>2 DEF ReplayedBy
<1>6. ASSUME ReplayedBy(SearchKinds), Matcher = "counting" => lastSavedId = 0, ~IsOutside(m),
             NEW j \in DOMAIN old, old[j].msg = m, Position(old, j) = NextPosition(made, m)
      PROVE  d.verdict = VerdictOf(old[j])
  <2>1. ~FromOutside(old[j]) /\ Matcher \in SearchKinds /\ Matcher # "timing"
    BY <1>6 DEF FromOutside, ReplayedBy, SearchKinds
  <2>2. j \notin seen
    <3>1. Position(old, j) \in Nat
      BY <1>1, <1>6, StreamType
    <3>2. ~(Position(old, j) < NextPosition(made, old[j].msg))
      BY <1>6, <3>1
    <3> QED  BY <1>6, <2>1, <3>2 DEF MarksBehind
  <2>3. match = j
    <3> HIDE DEF made, old
    <3> QED  BY <1>1, <1>6, <2>1, <2>2, MatchInPlace DEF match
  <2> QED  BY <1>5, <1>6, <2>3
<1>7. ASSUME ReplayedBy({"heuristic", "mix"}), ~IsOutside(m), NEW j \in DOMAIN old,
             \A k \in DOMAIN old : old[k].msg = m <=> k = j
      PROVE  d.verdict = VerdictOf(old[j])
  <2>1. ~FromOutside(old[j]) /\ Matcher \in {"heuristic", "mix"}
    BY <1>7 DEF FromOutside, ReplayedBy
  <2>2. j \notin seen
    BY <2>1 DEF MarksBehind
  <2>3. match = j
    <3> HIDE DEF made, old
    <3> QED  BY <1>1, <1>7, <2>1, <2>2, MatchUnique DEF match
  <2>4. {"heuristic", "mix"} \subseteq SearchKinds
    BY DEF SearchKinds, Kinds
  <2> QED  BY <1>5, <1>7, <2>3, <2>4
<1> QED  BY <1>3, <1>6, <1>7

\* The verdict on a message that arrives during a replay is the recorded one.
LEMMA DecideVerdicts ==
    ASSUME TypeOK, VerdictInv, isReplaying, NEW c \in Conns, HandlerDecide(c)
    PROVE  VerdictInv'
<1> DEFINE made == recording.Requests
           new == recording'.Requests
           old == replayingFrom.Requests
<1>1. made \in Seq(Request) /\ old \in Seq(Request)
  BY DEF TypeOK, Recordings
<1>2. PICK m \in Arriving : \E d \in Decisions(m) :
        /\ seen' = seen \cup d.marks
        /\ record(NewRequest(m, d.verdict))
  BY DEF HandlerDecide, VerdictInv
<1>3. PICK d \in Decisions(m) :
        /\ seen' = seen \cup d.marks
        /\ record(NewRequest(m, d.verdict))
  BY <1>2
<1> DEFINE r == NewRequest(m, d.verdict)
<1>4. m \in Traffic /\ d.verdict \in Verdict /\ r \in Request /\ r.msg = m
      /\ VerdictOf(r) = d.verdict
  <2>1. m \in Traffic /\ d.verdict \in Verdict
    BY DecisionType, ProxyAssumption
  <2> QED  BY <2>1, NewRequestType DEF NewRequest
<1>5. new = Append(made, r)
  <2>1. recording \in Recordings
    BY DEF TypeOK
  <2> QED  BY <1>3, <2>1 DEF record, Recordings
<1> HIDE DEF r
<1>6. PICK more \in Seq(Request) :
         new = made \o more /\ Len(more) = 1 /\ more[1] = r /\ DOMAIN more = {1}
  <2>1. <<r>> \in Seq(Request) /\ Len(<<r>>) = 1 /\ <<r>>[1] = r /\ DOMAIN <<r>> = {1}
    BY <1>4
  <2>2. new = made \o <<r>>
    <3> HIDE DEF made, new
    <3> QED  BY <1>1, <1>4, <1>5, AppendIsConcat
  <2> QED  BY <2>1, <2>2
<1>7. UNCHANGED <<replayingFrom, blockConfig, isReplaying, isInspecting, lastSavedId>>
  BY DEF HandlerDecide, userVars, fileVars
<1>8. /\ \A i \in DOMAIN made : i \in DOMAIN new /\ new[i] = made[i]
      /\ \A i \in DOMAIN made : Position(new, i) = Position(made, i)
      /\ \A n : NextPosition(made, n) \in Nat /\ NextPosition(new, n) \in Nat
      /\ \A n : NextPosition(made, n) <= NextPosition(new, n)
  <2> HIDE DEF made, new
  <2>1. \A i \in DOMAIN made : i \in DOMAIN new /\ new[i] = made[i]
    BY <1>1, <1>6, GrownRecording
  <2>2. \A i \in DOMAIN made : Position(made \o more, i) = Position(made, i)
    BY <1>1, <1>6, PositionAppend
  <2>3. /\ \A n : NextPosition(made, n) \in Nat /\ NextPosition(new, n) \in Nat
        /\ \A n : NextPosition(made, n) <= NextPosition(new, n)
    BY <1>1, <1>6, GrownRecording
  <2> QED  BY <1>6, <2>1, <2>2, <2>3
<1>9. \A i \in DOMAIN new \ DOMAIN made :
         new[i] = r /\ Position(new, i) = NextPosition(made, m)
  <2> HIDE DEF made, new
  <2>0. new = made \o more
    BY <1>6
  <2>1. \A i \in DOMAIN new \ DOMAIN made : \E k \in DOMAIN more : new[i] = more[k]
    BY <1>1, <2>0, GrownRecording
  <2>2. \A i \in DOMAIN new \ DOMAIN made : i = Len(made) + 1
    <3>1. /\ DOMAIN new = 1 .. Len(made) + Len(more) /\ DOMAIN made = 1 .. Len(made)
          /\ Len(made) \in Nat
      BY <1>1, <2>0, ConcatProperties, LenProperties
    <3> QED  BY <1>6, <3>1
  <2>3. Position(made \o more, Len(made) + 1) = NextPosition(made, more[1].msg)
    BY <1>1, <1>6, PositionAppend
  <2> QED  BY <1>4, <1>6, <2>1, <2>2, <2>3
<1>10. \A n : StreamIdentifier(n) = StreamIdentifier(m)
                => NextPosition(made, n) < NextPosition(new, n)
  <2> HIDE DEF made, new
  <2> SUFFICES ASSUME NEW n, StreamIdentifier(n) = StreamIdentifier(m)
               PROVE  NextPosition(made, n) < NextPosition(made \o more, n)
    BY <1>6
  <2>1. StreamIdentifier(more[1].msg) = StreamIdentifier(n)
    BY <1>4, <1>6
  <2> QED  BY <1>1, <1>6, <2>1, StreamGrows
<1>11. /\ \A j \in d.marks :
             \/ Matcher = "timing"
             \/ /\ Matcher = "counting"
                /\ j \in getStream(old, m)
                /\ Position(old, j) = NextPosition(made, m)
       /\ ReplayedBy(SearchKinds) /\ (Matcher = "counting" => lastSavedId = 0)
          /\ ~IsOutside(m) =>
             \A j \in DOMAIN old :
                 old[j].msg = m /\ Position(old, j) = NextPosition(made, m)
                     => d.verdict = VerdictOf(old[j])
       /\ ReplayedBy({"heuristic", "mix"}) /\ ~IsOutside(m) =>
             \A j \in DOMAIN old :
                 (\A k \in DOMAIN old : old[k].msg = m <=> k = j)
                     => d.verdict = VerdictOf(old[j])
  BY ReplayedDecision DEF VerdictInv
<1>12. \A j \in DOMAIN old : d.verdict = VerdictOf(old[j]) /\ old[j].msg = m => r = old[j]
  BY <1>1, RequestParts DEF r
<1>13. MarksBehind'
  <2> HIDE DEF made, new, old
  <2> SUFFICES ASSUME NEW j \in seen \cup d.marks
               PROVE  \/ FromOutside(old[j])
                      \/ Matcher = "timing"
                      \/ /\ Matcher = "counting"
                         /\ lastSavedId = 0 => Position(old, j) < NextPosition(new, old[j].msg)
    BY <1>3, <1>7 DEF MarksBehind, Matcher, old, new
  <2>1. Position(old, j) \in Nat
    <3>1. j \in DOMAIN old
      BY DecisionType DEF TypeOK, old
    <3>2. j \in getStream(old, old[j].msg)
      BY <3>1 DEF getStream
    <3> QED  BY <1>1, <3>2, PositionType
  <2>2. CASE j \in seen
    <3>1. \/ FromOutside(old[j])
          \/ Matcher = "timing"
          \/ /\ Matcher = "counting"
             /\ lastSavedId = 0 => Position(old, j) < NextPosition(made, old[j].msg)
      BY <2>2 DEF VerdictInv, MarksBehind, old, made
    <3>2. Position(old, j) < NextPosition(made, old[j].msg)
             => Position(old, j) < NextPosition(new, old[j].msg)
      <4>1. /\ NextPosition(made, old[j].msg) \in Nat /\ NextPosition(new, old[j].msg) \in Nat
            /\ NextPosition(made, old[j].msg) <= NextPosition(new, old[j].msg)
        BY <1>8
      <4> QED  BY <2>1, <4>1
    <3> QED  BY <3>1, <3>2
  <2>3. CASE j \in d.marks
    <3>1. \/ Matcher = "timing"
          \/ /\ Matcher = "counting"
             /\ j \in getStream(old, m)
             /\ Position(old, j) = NextPosition(made, m)
      BY <1>11, <2>3
    <3>2. ASSUME j \in getStream(old, m), Position(old, j) = NextPosition(made, m)
          PROVE  Position(old, j) < NextPosition(new, old[j].msg)
      <4>1. StreamIdentifier(old[j].msg) = StreamIdentifier(m)
        BY <3>2 DEF getStream
      <4>2. NextPosition(made, old[j].msg) = NextPosition(made, m)
        BY <4>1 DEF NextPosition, getStream
      <4> QED  BY <1>10, <3>2, <4>1, <4>2
    <3> QED  BY <3>1, <3>2
  <2> QED  BY <2>2, <2>3
<1>14. InPlaceSameVerdict'
  <2> HIDE DEF made, new
  <2> SUFFICES ASSUME ReplayedBy(SearchKinds), Matcher = "counting" => lastSavedId = 0,
                      NEW i \in DOMAIN new, NEW j \in DOMAIN old,
                      ~FromOutside(new[i]), new[i].msg = old[j].msg,
                      Position(new, i) = Position(old, j)
               PROVE  new[i] = old[j]
    BY <1>7 DEF InPlaceSameVerdict, ReplayedBy, Matcher, new
  <2>1. CASE i \in DOMAIN made
    BY <1>8, <2>1 DEF VerdictInv, InPlaceSameVerdict, made
  <2>2. CASE i \notin DOMAIN made
    <3>1. new[i] = r /\ Position(old, j) = NextPosition(made, m)
      BY <1>9, <2>2
    <3>2. ~IsOutside(m) /\ old[j].msg = m
      BY <1>4, <3>1 DEF FromOutside
    <3>3. d.verdict = VerdictOf(old[j])
      BY <1>11, <3>1, <3>2 DEF made
    <3> QED  BY <1>12, <3>1, <3>2, <3>3
  <2> QED  BY <2>1, <2>2
<1>15. UniqueSameVerdict'
  <2> HIDE DEF made, new
  <2> SUFFICES ASSUME ReplayedBy({"heuristic", "mix"}),
                      NEW i \in DOMAIN new, NEW j \in DOMAIN old,
                      ~FromOutside(new[i]),
                      \A k \in DOMAIN old : old[k].msg = new[i].msg <=> k = j
               PROVE  new[i] = old[j]
    BY <1>7 DEF UniqueSameVerdict, ReplayedBy, Matcher, new
  <2>1. CASE i \in DOMAIN made
    BY <1>8, <2>1 DEF VerdictInv, UniqueSameVerdict, made
  <2>2. CASE i \notin DOMAIN made
    <3>1. new[i] = r /\ new[i].msg = m
      BY <1>4, <1>9, <2>2
    <3>2. ~IsOutside(m) /\ old[j].msg = m
      BY <3>1 DEF FromOutside
    <3>3. d.verdict = VerdictOf(old[j])
      BY <1>11, <3>1, <3>2
    <3> QED  BY <1>12, <3>1, <3>2, <3>3
  <2> QED  BY <2>1, <2>2
<1> QED  BY <1>7, <1>13, <1>14, <1>15 DEF VerdictInv

\* A connection's goroutine repeats the recorded verdicts.
LEMMA HandlerVerdicts ==
    ASSUME TypeOK, VerdictInv, NEW c \in Conns, HandlerSteps(c) PROVE VerdictInv'
<1>1. CASE HandlerDecide(c)
  <2>1. CASE isReplaying
    BY <1>1, <2>1, DecideVerdicts
  <2>2. CASE ~isReplaying
    BY <1>1, <2>2, NoVerdictYet DEF HandlerDecide
  <2> QED  BY <2>1, <2>2
<1>2. CASE HandlerNext(c)
  BY <1>2, SendDueVerdicts DEF HandlerNext, userVars, fileVars
<1>3. CASE ~HandlerDecide(c) /\ ~HandlerNext(c)
  <2>1. UNCHANGED <<recording, replayingFrom, blockConfig, isReplaying,
                    isInspecting, seen, lastSavedId>>
    BY <1>3 DEF HandlerSteps, HandlerReadError, HandlerResponse,
                HandlerUpstreamError, HandlerCheck, HandlerOffer,
                HandlerTestTimer, HandlerLoadTimer, HandlerRearm, replayVars, userVars, fileVars
  <2> QED  BY <2>1, VerdictsUntouched
<1> QED  BY <1>1, <1>2, <1>3

\* The user's handlers end the replay, or start it anew; the one that saves
\* the recording made so far leaves it empty.
LEMMA UserVerdicts == ASSUME TypeOK, VerdictInv, UserSteps PROVE VerdictInv'
<1>1. CASE CancelReplay
  BY <1>1, NoVerdictYet DEF CancelReplay
<1>2. CASE \E form \in Forms : BlockConfigHandler(form)
  BY <1>2, NoVerdictYet DEF BlockConfigHandler
<1>3. CASE BlockConfigRefused \/ StartReplayMissing
  BY <1>3, VerdictsUntouched
     DEF BlockConfigRefused, StartReplayMissing, replayVars, userVars, fileVars
<1>4. CASE StartRecordingHandler
  <2>1. Settings(blockConfig) \in BlockConfigs
    BY DEF TypeOK, Settings, BlockConfigs
  <2>2. recording'.Requests = <<>>
    BY <1>4, <2>1, NoRecordingType, RecordedConfigType
       DEF StartRecordingHandler, NoRecording
  <2> QED  BY <1>4, <2>2, NoVerdictYet DEF StartRecordingHandler
<1>5. CASE EndRecordingHandler
  <2>1. recording'.Requests = <<>> /\ lastSavedId' # 0
    BY <1>5 DEF EndRecordingHandler, NoRecording, writeRecording, TypeOK
  <2>2. UNCHANGED <<replayingFrom, blockConfig, isReplaying, isInspecting, seen>>
    BY <1>5 DEF EndRecordingHandler, replayVars
  <2>3. (isReplaying => ~isInspecting)'
    BY <2>2 DEF VerdictInv
  <2>4. MarksBehind'
    BY <2>1, <2>2 DEF VerdictInv, MarksBehind, Matcher
  <2>5. InPlaceSameVerdict' /\ UniqueSameVerdict'
    BY <2>1 DEF InPlaceSameVerdict, UniqueSameVerdict
  <2> QED  BY <2>3, <2>4, <2>5 DEF VerdictInv
<1>6. CASE \E id \in DOMAIN disk, keepMode \in BOOLEAN : StartReplayHandler(id, keepMode)
  BY <1>6, NoVerdictYet DEF StartReplayHandler, NoRecording
<1> QED  BY <1>1, <1>2, <1>3, <1>4, <1>5, <1>6
         DEF UserSteps, HomeHandler, InspectHandler

\* The goroutines of a replay decide nothing.
LEMMA ReplayStepsVerdicts ==
    ASSUME TypeOK, VerdictInv, ReplaySteps PROVE VerdictInv'
<1>1. ASSUME NEW place \in {"kick", "next"}, GoroutineNext(place) PROVE VerdictInv'
  BY <1>1, SendDueVerdicts DEF GoroutineNext, userVars, fileVars
<1>2. CASE \/ GoroutineOffer \/ \E t \in 1..MaxReplays : TimerFires(t)
           \/ EndReplayToken \/ EndReplayContinue \/ EndReplayAllSeen
  <2>1. UNCHANGED <<recording, replayingFrom, blockConfig, isReplaying,
                    isInspecting, seen, lastSavedId>>
    BY <1>2 DEF GoroutineOffer, TimerFires, EndReplayToken, EndReplayContinue,
                EndReplayAllSeen, replayVars, userVars, fileVars
  <2> QED  BY <2>1, VerdictsUntouched
<1>3. CASE EndReplayFinish
  BY <1>3, NoVerdictYet DEF EndReplayFinish
<1> QED  BY <1>1, <1>2, <1>3 DEF ReplaySteps, StartReplayKick, EndReplayNext

\* The invariant holds throughout.
LEMMA VerdictInvariant == Spec => []VerdictInv
<1>1. Init => VerdictInv
  BY DEF Init, VerdictInv, MarksBehind, InPlaceSameVerdict, UniqueSameVerdict, ReplayedBy
<1>2. TypeOK /\ VerdictInv /\ [Next]_vars => VerdictInv'
  <2> SUFFICES ASSUME TypeOK, VerdictInv, [Next]_vars PROVE VerdictInv'
    OBVIOUS
  <2>1. CASE Next
    BY <2>1, HandlerVerdicts, UserVerdicts, ReplayStepsVerdicts DEF Next
  <2>2. CASE UNCHANGED vars
    BY <2>2, VerdictsUntouched DEF vars, replayVars, userVars, fileVars
  <2> QED  BY <2>1, <2>2
<1> QED  BY <1>1, <1>2, TypeCorrect, PTL DEF Spec

\* Traffic that is recorded as it was before is blocked as it was before, by
\* every matcher that searches, whatever came before and between.
THEOREM SameInPlace == Spec => []InPlaceSameVerdict
<1>1. VerdictInv => InPlaceSameVerdict
  BY DEF VerdictInv
<1> QED  BY <1>1, VerdictInvariant, PTL

\* By the heuristic and the mix matcher a message that the recording has once
\* is blocked as it was, in whatever order the nodes send.
THEOREM SameWhereUnique == Spec => []UniqueSameVerdict
<1>1. VerdictInv => UniqueSameVerdict
  BY DEF VerdictInv
<1> QED  BY <1>1, VerdictInvariant, PTL

-----------------------------------------------------------------------------
(* How many requests the counting matcher blocks.                          *)

\* The blocked requests of a stream that are marked.
BlockedAmong(marks, reqs, stream) ==
    {j \in marks : StreamIdentifier(reqs[j].msg) = stream /\ VerdictOf(reqs[j]) # Pass}

\* A request blocked again has taken a mark, on one that was blocked.
BlockedAreMarked ==
    isReplaying /\ blockConfig.Mode = "replay" /\ Matcher = "counting" =>
        \A stream \in {StreamIdentifier(m) : m \in Traffic} :
            BlockedIn(recording.Requests, stream)
                <= Cardinality(BlockedAmong(seen, replayingFrom.Requests, stream))

\* Both counts are numbers, and the marked ones are among the recorded ones.
LEMMA BlockedAmongType ==
    ASSUME NEW reqs \in Seq(Request), NEW marks \in SUBSET DOMAIN reqs, NEW stream
    PROVE  /\ IsFiniteSet(BlockedAmong(marks, reqs, stream))
           /\ Cardinality(BlockedAmong(marks, reqs, stream)) \in Nat
           /\ BlockedIn(reqs, stream) \in Nat
           /\ Cardinality(BlockedAmong(marks, reqs, stream)) <= BlockedIn(reqs, stream)
<1> DEFINE blocked == {i \in DOMAIN reqs :
                          StreamIdentifier(reqs[i].msg) = stream /\ VerdictOf(reqs[i]) # Pass}
<1>1. IsFiniteSet(blocked)
  <2>1. blocked \subseteq 1..Len(reqs) /\ Len(reqs) \in Int
    OBVIOUS
  <2> HIDE DEF blocked
  <2>2. IsFiniteSet(1..Len(reqs))
    BY <2>1, FS_Interval
  <2> QED  BY <2>1, <2>2, FS_Subset
<1>2. BlockedAmong(marks, reqs, stream) \in SUBSET blocked
  BY DEF BlockedAmong
<1> HIDE DEF blocked
<1>3. /\ IsFiniteSet(BlockedAmong(marks, reqs, stream))
      /\ Cardinality(BlockedAmong(marks, reqs, stream)) <= Cardinality(blocked)
  BY <1>1, <1>2, FS_Subset
<1>4. Cardinality(BlockedAmong(marks, reqs, stream)) \in Nat /\ Cardinality(blocked) \in Nat
  BY <1>1, <1>3, FS_CardinalityType
<1> QED  BY <1>3, <1>4 DEF blocked, BlockedIn

\* The empty recording blocks nothing.
LEMMA NothingBlocked == ASSUME NEW stream PROVE BlockedIn(<<>>, stream) = 0
<1>1. {i \in DOMAIN <<>> :
          StreamIdentifier(<<>>[i].msg) = stream /\ VerdictOf(<<>>[i]) # Pass} = {}
  OBVIOUS
<1> QED  BY <1>1, FS_EmptySet DEF BlockedIn

\* What is appended is counted if it is blocked, and of the stream.
LEMMA BlockedGrows ==
    ASSUME NEW reqs \in Seq(Request), NEW more \in Seq(Request), NEW stream
    PROVE  /\ BlockedIn(reqs, stream) \in Nat
           /\ BlockedIn(reqs \o more, stream) \in Nat
           /\ (\A k \in DOMAIN more : \/ VerdictOf(more[k]) = Pass
                                      \/ StreamIdentifier(more[k].msg) # stream)
                 => BlockedIn(reqs \o more, stream) = BlockedIn(reqs, stream)
           /\ Len(more) = 1
                 => BlockedIn(reqs \o more, stream) <= BlockedIn(reqs, stream) + 1
<1> DEFINE all == reqs \o more
           Counts(r) == StreamIdentifier(r.msg) = stream /\ VerdictOf(r) # Pass
           before == {i \in DOMAIN reqs : Counts(reqs[i])}
           after == {i \in DOMAIN all : Counts(all[i])}
<1>1. /\ DOMAIN all = 1 .. Len(reqs) + Len(more)
      /\ DOMAIN reqs = 1 .. Len(reqs) /\ DOMAIN more = 1 .. Len(more)
      /\ Len(reqs) \in Nat /\ Len(more) \in Nat
      /\ \A i \in 1 .. Len(reqs) + Len(more) :
            all[i] = IF i <= Len(reqs) THEN reqs[i] ELSE more[i - Len(reqs)]
  BY ConcatProperties, LenProperties
<1> HIDE DEF all, Counts
<1>2. IsFiniteSet(before) /\ IsFiniteSet(after)
  <2>1. IsFiniteSet(1..Len(reqs)) /\ IsFiniteSet(1 .. Len(reqs) + Len(more))
    BY <1>1, FS_Interval
  <2>2. before \subseteq 1..Len(reqs) /\ after \subseteq 1 .. Len(reqs) + Len(more)
    BY <1>1
  <2> HIDE DEF before, after
  <2> QED  BY <2>1, <2>2, FS_Subset
<1>3. Cardinality(before) \in Nat /\ Cardinality(after) \in Nat
  BY <1>2, FS_CardinalityType
<1>4. \A i \in after : i \in before \/ (i - Len(reqs) \in DOMAIN more /\ Counts(more[i - Len(reqs)]))
  BY <1>1
<1>5. before \subseteq after
  BY <1>1
<1>6. ASSUME \A k \in DOMAIN more : ~Counts(more[k])
      PROVE  Cardinality(after) = Cardinality(before)
  <2>1. after = before
    BY <1>4, <1>5, <1>6
  <2> QED  BY <2>1
<1>7. ASSUME Len(more) = 1
      PROVE  Cardinality(after) <= Cardinality(before) + 1
  <2>1. after \subseteq before \cup {Len(reqs) + 1}
    BY <1>1, <1>4, <1>7
  <2> HIDE DEF before, after
  <2>2. /\ IsFiniteSet(before \cup {Len(reqs) + 1})
        /\ Cardinality(before \cup {Len(reqs) + 1}) <= Cardinality(before) + 1
    <3>1. /\ IsFiniteSet(before \cup {Len(reqs) + 1})
          /\ \/ Cardinality(before \cup {Len(reqs) + 1}) = Cardinality(before)
             \/ Cardinality(before \cup {Len(reqs) + 1}) = Cardinality(before) + 1
      BY <1>2, FS_AddElement
    <3> QED  BY <1>3, <3>1
  <2>3. Cardinality(after) <= Cardinality(before \cup {Len(reqs) + 1})
    BY <2>1, <2>2, FS_Subset
  <2>4. Cardinality(before \cup {Len(reqs) + 1}) \in Nat
    BY <2>2, FS_CardinalityType
  <2> QED  BY <1>3, <2>2, <2>3, <2>4
<1>8. /\ BlockedIn(reqs, stream) = Cardinality(before)
      /\ BlockedIn(reqs \o more, stream) = Cardinality(after)
  BY DEF BlockedIn, all, Counts
<1>9. \A k \in DOMAIN more :
          (VerdictOf(more[k]) = Pass \/ StreamIdentifier(more[k].msg) # stream)
              => ~Counts(more[k])
  BY DEF Counts
<1> HIDE DEF before, after
<1> QED  BY <1>3, <1>6, <1>7, <1>8, <1>9

\* Where no replay is on, or nothing is recorded yet, nothing is blocked.
LEMMA NoBlockYet ==
    ASSUME TypeOK', ~isReplaying' \/ recording'.Requests = <<>>
    PROVE  BlockedAreMarked'
<1>1. CASE ~isReplaying'
  BY <1>1 DEF BlockedAreMarked
<1>2. CASE recording'.Requests = <<>>
  <2> DEFINE old == replayingFrom'.Requests
             marks == seen'
  <2>1. old \in Seq(Request) /\ marks \in SUBSET DOMAIN old
    BY DEF TypeOK, Recordings
  <2> HIDE DEF old, marks
  <2>2. \A stream : Cardinality(BlockedAmong(marks, old, stream)) \in Nat
    BY <2>1, BlockedAmongType
  <2>3. \A stream : BlockedIn(<<>>, stream) <= Cardinality(BlockedAmong(marks, old, stream))
    BY <2>2, NothingBlocked
  <2> QED  BY <1>2, <2>3 DEF BlockedAreMarked, old, marks
<1> QED  BY <1>1, <1>2

\* A step that decides and sends nothing.
LEMMA BlockedUntouched ==
    ASSUME BlockedAreMarked, recording'.Requests = recording.Requests,
           replayingFrom' = replayingFrom, blockConfig' = blockConfig,
           isReplaying' = isReplaying, seen' = seen
    PROVE  BlockedAreMarked'
  BY DEF BlockedAreMarked, Matcher

\* What is sent again is from outside, and has passed.
LEMMA SendDueBlocked ==
    ASSUME TypeOK, TypeOK', OutsideNeverBlocked, BlockedAreMarked,
           NEW alwaysSend \in BOOLEAN, SendDue(alwaysSend),
           replayingFrom' = replayingFrom, blockConfig' = blockConfig,
           isReplaying' = isReplaying
    PROVE  BlockedAreMarked'
<1> DEFINE made == recording.Requests
           new == recording'.Requests
           old == replayingFrom.Requests
<1>1. made \in Seq(Request) /\ old \in Seq(Request) /\ seen \subseteq DOMAIN old
  BY DEF TypeOK, Recordings
<1>2. PICK more \in Seq(Request) :
         new = made \o more /\ \A k \in DOMAIN more : VerdictOf(more[k]) = Pass
  BY SendDueParts
<1>3. \A stream : BlockedAmong(seen', old, stream) = BlockedAmong(seen, old, stream)
  <2>1. seen' = seen \cup Due(alwaysSend)
    BY DEF SendDue
  <2>2. \A j \in Due(alwaysSend) : VerdictOf(old[j]) = Pass
    BY DEF Due, UnseenOutside, Unseen, OutsideNeverBlocked, NoOutsideBlock
  <2> QED  BY <2>1, <2>2 DEF BlockedAmong
<1>4. \A stream : BlockedIn(new, stream) = BlockedIn(made, stream)
  <2> SUFFICES ASSUME NEW stream PROVE BlockedIn(new, stream) = BlockedIn(made, stream)
    OBVIOUS
  <2> HIDE DEF made, new
  <2>1. BlockedIn(made \o more, stream) = BlockedIn(made, stream)
    BY <1>1, <1>2, BlockedGrows
  <2> QED  BY <1>2, <2>1
<1> QED  BY <1>3, <1>4 DEF BlockedAreMarked, Matcher

\* The counting matcher marks a request and repeats its verdict, or marks none
\* and lets the message pass.
LEMMA CountingDecision ==
    ASSUME TypeOK, blockConfig.Mode = "replay", Matcher = "counting",
           NEW m \in Arriving, NEW d \in Decisions(m)
    PROVE  LET old == replayingFrom.Requests
           IN  \/ d.verdict = Pass /\ d.marks = {}
               \/ \E j \in DOMAIN old \ seen :
                     /\ d.marks = {j} /\ d.verdict = VerdictOf(old[j])
                     /\ StreamIdentifier(old[j].msg) = StreamIdentifier(m)
<1> DEFINE old == replayingFrom.Requests
           match == Match("counting", m, recording.Requests, old, seen)
<1>1. CASE IsOutside(m)
  <2>1. d \in [verdict : Block(blockConfig, m, {}), marks : {{}}]
    BY <1>1 DEF Decisions
  <2>2. d.verdict \in Block(blockConfig, m, {}) /\ d.marks = {}
    BY <2>1
  <2> QED  BY <1>1, <2>2 DEF Block
<1>2. CASE ~IsOutside(m)
  <2>1. d = [verdict |-> IF match = NoMatch THEN Pass ELSE VerdictOf(old[match]),
             marks |-> MatchMarks("counting", match)]
    BY <1>2 DEF Decisions, replayBlock
  <2>2. match = NoMatch => d.verdict = Pass /\ d.marks = {}
    BY <2>1 DEF MatchMarks
  <2>3. match # NoMatch => d.verdict = VerdictOf(old[match]) /\ d.marks = {match}
    BY <2>1 DEF MatchMarks
  <2>4. match # NoMatch => match \in getStream(old, m) \ seen
    BY DEF Match, CountingMatches
  <2> QED  BY <2>2, <2>3, <2>4 DEF getStream
<1> QED  BY <1>1, <1>2

\* A decision of the counting matcher that blocks costs a mark.
LEMMA DecideBlocked ==
    ASSUME TypeOK, TypeOK', BlockedAreMarked, NEW c \in Conns, HandlerDecide(c)
    PROVE  BlockedAreMarked'
<1> DEFINE made == recording.Requests
           new == recording'.Requests
           old == replayingFrom.Requests
<1>1. made \in Seq(Request) /\ old \in Seq(Request) /\ seen \in SUBSET DOMAIN old
      /\ seen' \in SUBSET DOMAIN old
  BY DEF TypeOK, Recordings, HandlerDecide
<1>2. PICK m \in Arriving : \E d \in Decisions(m) :
        /\ seen' = seen \cup d.marks
        /\ IF isInspecting THEN UNCHANGED recording
                           ELSE record(NewRequest(m, d.verdict))
  BY DEF HandlerDecide
<1>3. PICK d \in Decisions(m) :
        /\ seen' = seen \cup d.marks
        /\ IF isInspecting THEN UNCHANGED recording
                           ELSE record(NewRequest(m, d.verdict))
  BY <1>2
<1> DEFINE r == NewRequest(m, d.verdict)
<1>4. r \in Request /\ r.msg = m /\ VerdictOf(r) = d.verdict
  <2>1. m \in Traffic /\ d.verdict \in Verdict
    BY DecisionType, ProxyAssumption
  <2> QED  BY <2>1, NewRequestType DEF NewRequest
<1>5. UNCHANGED <<replayingFrom, blockConfig, isReplaying>>
  BY DEF HandlerDecide, userVars
<1> HIDE DEF r
<1>6. new = made \/ new = made \o <<r>>
  <2>1. recording \in Recordings
    BY DEF TypeOK
  <2>2. new = made \/ new = Append(made, r)
    BY <1>3, <2>1 DEF record, Recordings, r
  <2> HIDE DEF made, new
  <2> QED  BY <1>1, <1>4, <2>2, AppendIsConcat
<1>7. <<r>> \in Seq(Request) /\ Len(<<r>>) = 1 /\ DOMAIN <<r>> = {1} /\ <<r>>[1] = r
  BY <1>4
<1> SUFFICES ASSUME isReplaying, blockConfig.Mode = "replay", Matcher = "counting",
                    NEW stream, stream \in {StreamIdentifier(n) : n \in Traffic}
             PROVE  BlockedIn(new, stream) <= Cardinality(BlockedAmong(seen', old, stream))
  BY <1>5 DEF BlockedAreMarked, Matcher
<1>8. BlockedIn(made, stream) <= Cardinality(BlockedAmong(seen, old, stream))
  BY DEF BlockedAreMarked
<1> DEFINE before == BlockedAmong(seen, old, stream)
           after == BlockedAmong(seen', old, stream)
<1>9. /\ IsFiniteSet(before) /\ Cardinality(before) \in Nat
      /\ IsFiniteSet(after) /\ Cardinality(after) \in Nat
  <2> HIDE DEF old
  <2> QED  BY <1>1, BlockedAmongType
<1>10. before \in SUBSET after
  BY <1>3 DEF BlockedAmong
<1>11. /\ BlockedIn(made, stream) \in Nat /\ BlockedIn(new, stream) \in Nat
       /\ BlockedIn(new, stream) <= BlockedIn(made, stream) + 1
       /\ d.verdict = Pass \/ StreamIdentifier(m) # stream
             => BlockedIn(new, stream) = BlockedIn(made, stream)
  <2> HIDE DEF made, new
  <2>1. /\ BlockedIn(made, stream) \in Nat
        /\ BlockedIn(made \o <<r>>, stream) \in Nat
    BY <1>1, <1>7, BlockedGrows
  <2>2. BlockedIn(made \o <<r>>, stream) <= BlockedIn(made, stream) + 1
    BY <1>1, <1>7, BlockedGrows
  <2>3. ASSUME d.verdict = Pass \/ StreamIdentifier(m) # stream
        PROVE  BlockedIn(made \o <<r>>, stream) = BlockedIn(made, stream)
    <3>1. \A k \in DOMAIN <<r>> : \/ VerdictOf(<<r>>[k]) = Pass
                                  \/ StreamIdentifier(<<r>>[k].msg) # stream
      BY <1>4, <1>7, <2>3
    <3> QED  BY <1>1, <1>7, <3>1, BlockedGrows
  <2>4. CASE new = made
    BY <2>1, <2>4
  <2>5. CASE new = made \o <<r>>
    BY <2>1, <2>2, <2>3, <2>5
  <2> QED  BY <1>6, <2>4, <2>5
<1> HIDE DEF before, after
<1>12. Cardinality(before) <= Cardinality(after)
  BY <1>9, <1>10, FS_Subset
<1>13. CASE d.verdict = Pass \/ StreamIdentifier(m) # stream
  BY <1>8, <1>9, <1>11, <1>12, <1>13 DEF before, after
<1>14. CASE d.verdict # Pass /\ StreamIdentifier(m) = stream
  <2>1. PICK j \in DOMAIN old \ seen :
           /\ d.marks = {j} /\ d.verdict = VerdictOf(old[j])
           /\ StreamIdentifier(old[j].msg) = StreamIdentifier(m)
    BY <1>14, CountingDecision
  <2>2. j \in after /\ j \notin before
    BY <1>3, <1>14, <2>1 DEF before, after, BlockedAmong
  <2>3. Cardinality(before) < Cardinality(after)
    BY <1>9, <1>10, <2>2, FS_Subset
  <2> QED  BY <1>8, <1>9, <1>11, <2>3 DEF before, after
<1> QED  BY <1>13, <1>14

\* The user's handlers start the counts anew, or end the replay.
LEMMA UserBlocked ==
    ASSUME TypeOK, TypeOK', BlockedAreMarked, UserSteps PROVE BlockedAreMarked'
<1>1. CASE CancelReplay
  BY <1>1, NoBlockYet DEF CancelReplay
<1>2. CASE \E form \in Forms : BlockConfigHandler(form)
  BY <1>2, NoBlockYet DEF BlockConfigHandler
<1>3. CASE BlockConfigRefused \/ StartReplayMissing
  BY <1>3, BlockedUntouched
     DEF BlockConfigRefused, StartReplayMissing, replayVars, userVars
<1>4. CASE StartRecordingHandler
  <2>1. Settings(blockConfig) \in BlockConfigs
    BY DEF TypeOK, Settings, BlockConfigs
  <2>2. recording'.Requests = <<>>
    BY <1>4, <2>1, NoRecordingType, RecordedConfigType
       DEF StartRecordingHandler, NoRecording
  <2> QED  BY <2>2, NoBlockYet
<1>5. CASE EndRecordingHandler
  BY <1>5, NoBlockYet DEF EndRecordingHandler, NoRecording
<1>6. CASE \E id \in DOMAIN disk, keepMode \in BOOLEAN : StartReplayHandler(id, keepMode)
  BY <1>6, NoBlockYet DEF StartReplayHandler, NoRecording
<1> QED  BY <1>1, <1>2, <1>3, <1>4, <1>5, <1>6
         DEF UserSteps, HomeHandler, InspectHandler

\* The other goroutines send what has passed, or end the replay.
LEMMA ReplayStepsBlocked ==
    ASSUME TypeOK, TypeOK', OutsideNeverBlocked, BlockedAreMarked, ReplaySteps
    PROVE  BlockedAreMarked'
<1>1. ASSUME NEW place \in {"kick", "next"}, GoroutineNext(place)
      PROVE  BlockedAreMarked'
  BY <1>1, SendDueBlocked DEF GoroutineNext, userVars
<1>2. CASE \/ GoroutineOffer \/ \E t \in 1..MaxReplays : TimerFires(t)
           \/ EndReplayToken \/ EndReplayContinue \/ EndReplayAllSeen
  <2>1. UNCHANGED <<recording, replayingFrom, blockConfig, isReplaying, seen>>
    BY <1>2 DEF GoroutineOffer, TimerFires, EndReplayToken, EndReplayContinue,
                EndReplayAllSeen, replayVars, userVars
  <2> QED  BY <2>1, BlockedUntouched
<1>3. CASE EndReplayFinish
  BY <1>3, NoBlockYet DEF EndReplayFinish
<1> QED  BY <1>1, <1>2, <1>3 DEF ReplaySteps, StartReplayKick, EndReplayNext

\* A replay by the counting matcher blocks no more requests of a stream than
\* the recording has, however the messages arrive and whatever is sent again.
THEOREM CountingBlocks == Spec => []CountingBlocksNoMore
<1>1. Init => BlockedAreMarked
  BY DEF Init, BlockedAreMarked
<1>2. ASSUME TypeOK, TypeOK', OutsideNeverBlocked, BlockedAreMarked, [Next]_vars
      PROVE  BlockedAreMarked'
  <2>1. ASSUME NEW c \in Conns, HandlerSteps(c) PROVE BlockedAreMarked'
    <3>1. CASE HandlerNext(c)
      BY <1>2, <3>1, SendDueBlocked DEF HandlerNext, userVars
    <3>2. CASE ~HandlerDecide(c) /\ ~HandlerNext(c)
      <4>1. UNCHANGED <<recording, replayingFrom, blockConfig, isReplaying, seen>>
        BY <2>1, <3>2 DEF HandlerSteps, HandlerReadError, HandlerResponse,
                          HandlerUpstreamError, HandlerCheck, HandlerOffer,
                          HandlerTestTimer, HandlerLoadTimer, HandlerRearm, replayVars, userVars
      <4> QED  BY <1>2, <4>1, BlockedUntouched
    <3> QED  BY <1>2, <3>1, <3>2, DecideBlocked
  <2>2. CASE UNCHANGED vars
    BY <1>2, <2>2, BlockedUntouched DEF vars, replayVars, userVars
  <2> QED  BY <1>2, <2>1, <2>2, UserBlocked, ReplayStepsBlocked DEF Next
<1>3. TypeOK /\ BlockedAreMarked => CountingBlocksNoMore
  <2> SUFFICES ASSUME TypeOK, BlockedAreMarked,
                      isReplaying, blockConfig.Mode = "replay", Matcher = "counting",
                      NEW stream, stream \in {StreamIdentifier(m) : m \in Traffic}
               PROVE  BlockedIn(recording.Requests, stream)
                        <= BlockedIn(replayingFrom.Requests, stream)
    BY DEF CountingBlocksNoMore, ReplayBlocksNoMore
  <2> DEFINE made == recording.Requests
             old == replayingFrom.Requests
             marked == Cardinality(BlockedAmong(seen, old, stream))
  <2>1. made \in Seq(Request) /\ old \in Seq(Request) /\ seen \in SUBSET DOMAIN old
    BY DEF TypeOK, Recordings
  <2>2. BlockedIn(made, stream) <= marked
    BY DEF BlockedAreMarked
  <2> HIDE DEF made, old
  <2>3. marked \in Nat /\ BlockedIn(old, stream) \in Nat /\ marked <= BlockedIn(old, stream)
    BY <2>1, BlockedAmongType
  <2>4. BlockedIn(made, stream) \in Nat
    <3>1. {} \in SUBSET DOMAIN made
      OBVIOUS
    <3> QED  BY <2>1, <3>1, BlockedAmongType
  <2> HIDE DEF marked
  <2> QED  BY <2>2, <2>3, <2>4 DEF made, old
<1> QED  BY <1>1, <1>2, <1>3, TypeCorrect, OutsidePasses, PTL DEF Spec

-----------------------------------------------------------------------------
(* The recorded configurations.                                            *)

\* As long as no replay was started nobody can end one, which is the only way
\* the mode changes without being recorded.
ConfigInv ==
    /\ timers = 0 => goroutines["fired"] = 0 /\ goroutines["sleep"] = 0
    /\ RecordedConfigIsCurrent

\* A step that changes neither a configuration, nor who may change one.
LEMMA ConfigUntouched ==
    ASSUME ConfigInv, recording'.BlockConfigs = recording.BlockConfigs,
           blockConfig' = blockConfig, isRecording' = isRecording, timers' = timers,
           timers = 0 => /\ goroutines'["fired"] = goroutines["fired"]
                         /\ goroutines'["sleep"] = goroutines["sleep"]
    PROVE  ConfigInv'
  BY DEF ConfigInv, RecordedConfigIsCurrent, Settings

\* ... nor is there anything to show where nothing is recorded, and of the
\* goroutines none but a timer's can appear.
LEMMA NothingRecorded ==
    ASSUME ConfigInv, ~isRecording' \/ recording'.BlockConfigs = <<>>, timers' = timers,
           goroutines' = goroutines
    PROVE  ConfigInv'
  BY DEF ConfigInv, RecordedConfigIsCurrent

\* The configuration that is recorded last is the one in force.
LEMMA ConfigRecorded ==
    ASSUME ConfigInv, NEW rec \in Recordings, NEW conf, Settings(conf) \in BlockConfigs,
           recordBlockConfig(rec, conf), Settings(blockConfig)' = Settings(conf),
           timers' = timers, goroutines' = goroutines
    PROVE  ConfigInv'
<1>1. recording'.BlockConfigs = Append(rec.BlockConfigs, Settings(conf))
      /\ rec.BlockConfigs \in Seq(BlockConfigs)
  BY DEF recordBlockConfig, Recordings
<1>2. recording'.BlockConfigs[Len(recording'.BlockConfigs)] = Settings(conf)
  BY <1>1, AppendProperties
<1> QED  BY <1>2 DEF ConfigInv, RecordedConfigIsCurrent

\* Requests that are appended leave the configurations alone.
LEMMA SendDueConfigs ==
    ASSUME TypeOK, NEW alwaysSend, SendDue(alwaysSend)
    PROVE  recording'.BlockConfigs = recording.BlockConfigs
  BY DEF SendDue, TypeOK, Recordings

\* A connection's goroutine changes no configuration.
LEMMA HandlerConfigs ==
    ASSUME TypeOK, ConfigInv, NEW c \in Conns, HandlerSteps(c) PROVE ConfigInv'
<1>1. recording'.BlockConfigs = recording.BlockConfigs
  <2>1. CASE HandlerDecide(c)
    <3>1. recording' = recording \/ \E r : record(r)
      BY <2>1 DEF HandlerDecide
    <3> QED  BY <3>1 DEF record, TypeOK, Recordings
  <2>2. CASE HandlerNext(c)
    BY <2>2, SendDueConfigs DEF HandlerNext
  <2>3. CASE ~HandlerDecide(c) /\ ~HandlerNext(c)
    BY <2>3 DEF HandlerSteps, HandlerReadError, HandlerResponse,
                HandlerUpstreamError, HandlerCheck, HandlerOffer,
                HandlerTestTimer, HandlerLoadTimer, HandlerRearm
  <2> QED  BY <2>1, <2>2, <2>3
<1>2. UNCHANGED <<blockConfig, isRecording, timers, goroutines>>
  BY DEF HandlerSteps, HandlerDecide, HandlerReadError, HandlerResponse,
         HandlerUpstreamError, HandlerCheck, HandlerNext, HandlerOffer,
         HandlerTestTimer, HandlerLoadTimer, HandlerRearm, userVars, replayVars
<1> QED  BY <1>1, <1>2, ConfigUntouched

\* The user's handlers record what they configure.
LEMMA UserConfigs == ASSUME TypeOK, ConfigInv, UserSteps PROVE ConfigInv'
<1>1. CASE HomeHandler
  BY <1>1, NothingRecorded DEF HomeHandler, NoRecording
<1>2. ASSUME NEW id \in DOMAIN disk, InspectHandler(id) PROVE ConfigInv'
  BY <1>2, NothingRecorded DEF InspectHandler
<1>3. ASSUME NEW form \in Forms, BlockConfigHandler(form) PROVE ConfigInv'
  BY <1>3, ConfiguredType, ConfigRecorded DEF BlockConfigHandler, TypeOK, Settings
<1>4. CASE BlockConfigRefused
  BY <1>4, ConfigUntouched DEF BlockConfigRefused, userVars, replayVars
<1>5. CASE StartRecordingHandler
  <2>1. Settings(blockConfig) \in BlockConfigs
    BY DEF TypeOK, Settings, BlockConfigs
  <2> QED  BY <1>5, <2>1, NoRecordingType, ConfigRecorded
           DEF StartRecordingHandler, Settings
<1>6. CASE EndRecordingHandler
  BY <1>6, NothingRecorded DEF EndRecordingHandler, replayVars
<1>7. CASE \E id \in DOMAIN disk, keepMode \in BOOLEAN : StartReplayHandler(id, keepMode)
  <2>1. timers' # 0
    BY <1>7 DEF StartReplayHandler, TypeOK
  <2> QED  BY <2>1 DEF ConfigInv, RecordedConfigIsCurrent
<1>8. CASE StartReplayMissing
  BY <1>8, NothingRecorded DEF StartReplayMissing, replayVars
<1> QED  BY <1>1, <1>2, <1>3, <1>4, <1>5, <1>6, <1>7, <1>8 DEF UserSteps

\* Without a replay there is no timer to fire, and no replay to finish.
LEMMA ReplayStepsConfigs ==
    ASSUME TypeOK, ConfigInv, ReplaySteps PROVE ConfigInv'
<1> USE DEF Places
<1>0. goroutines \in [Places -> Nat] /\ armed \subseteq 1..timers /\ timers \in Nat
  BY DEF TypeOK
<1>1. ASSUME NEW place \in {"kick", "next"}, GoroutineNext(place) PROVE ConfigInv'
  <2>1. recording'.BlockConfigs = recording.BlockConfigs
    BY <1>1, SendDueConfigs DEF GoroutineNext
  <2>2. /\ goroutines'["fired"] = goroutines["fired"]
        /\ goroutines'["sleep"] = goroutines["sleep"]
    BY <1>0, <1>1 DEF GoroutineNext, Move, Leave
  <2> QED  BY <1>1, <2>1, <2>2, ConfigUntouched DEF GoroutineNext, userVars
<1>2. CASE GoroutineOffer
  <2>1. /\ goroutines'["fired"] = goroutines["fired"]
        /\ goroutines'["sleep"] = goroutines["sleep"]
    BY <1>0, <1>2 DEF GoroutineOffer, Leave
  <2> QED  BY <1>2, <2>1, ConfigUntouched DEF GoroutineOffer, userVars, replayVars
<1>3. ASSUME NEW t \in 1..MaxReplays, TimerFires(t) PROVE ConfigInv'
  <2>1. timers # 0
    BY <1>0, <1>3 DEF TimerFires
  <2> QED  BY <1>3, <2>1, ConfigUntouched DEF TimerFires, userVars
<1>4. CASE EndReplayToken \/ EndReplayContinue \/ EndReplayAllSeen \/ EndReplayFinish
  <2>1. goroutines["fired"] > 0 \/ goroutines["sleep"] > 0
    BY <1>4 DEF EndReplayToken, EndReplayContinue, EndReplayAllSeen, EndReplayFinish,
                Move, Leave
  <2>2. timers # 0 /\ timers' = timers
    BY <1>4, <2>1 DEF ConfigInv, EndReplayToken, EndReplayContinue, EndReplayAllSeen,
                      EndReplayFinish, replayVars
  <2> QED  BY <2>2 DEF ConfigInv, RecordedConfigIsCurrent
<1> QED  BY <1>1, <1>2, <1>3, <1>4 DEF ReplaySteps, StartReplayKick, EndReplayNext

\* Before any replay, the last configuration in the recording is the one in
\* force, whatever forms are posted and however recordings begin and end.
THEOREM ConfigRecording == Spec => []RecordedConfigIsCurrent
<1>1. Init => ConfigInv
  BY DEF Init, ConfigInv, RecordedConfigIsCurrent, NoRecording, Places
<1>2. TypeOK /\ ConfigInv /\ [Next]_vars => ConfigInv'
  <2> SUFFICES ASSUME TypeOK, ConfigInv, [Next]_vars PROVE ConfigInv'
    OBVIOUS
  <2>1. CASE Next
    BY <2>1, HandlerConfigs, UserConfigs, ReplayStepsConfigs DEF Next
  <2>2. CASE UNCHANGED vars
    BY <2>2, ConfigUntouched DEF vars, userVars, replayVars
  <2> QED  BY <2>1, <2>2
<1>3. ConfigInv => RecordedConfigIsCurrent
  BY DEF ConfigInv
<1> QED  BY <1>1, <1>2, <1>3, TypeCorrect, PTL DEF Spec

-----------------------------------------------------------------------------
(* The end of a replay.                                                    *)

\* The user neither cancels a replay, nor starts one during another.
LeftAlone == isReplaying => timers' = timers /\ (isReplaying' \/ EndReplayFinish)

\* The mode to go back to is not the replay's own.
ModeInv == ReplayModeEnds /\ blockConfig.previousMode # "replay"

\* The first mode is another one.
LEMMA InitMode == Init => ModeInv
<1> SUFFICES ASSUME Init PROVE ModeInv
  OBVIOUS
<1>1. blockConfig = [Mode |-> "none", Partitions |-> {Nodes},
                     Percentage |-> 50, Matcher |-> "heuristic",
                     previousMode |-> ""]
  BY DEF Init
<1>2. blockConfig.Mode = "none" /\ blockConfig.previousMode = ""
  BY <1>1
<1> QED  BY <1>2 DEF ModeInv, ReplayModeEnds

\* A form that does not post the mode "replay" leaves the modes right.
LEMMA ConfiguredMode ==
    ASSUME TypeOK, NEW form \in Forms,
           "mode" \in DOMAIN form => form.mode # "replay",
           blockConfig.Mode # "replay", blockConfig.previousMode # "replay"
    PROVE  Configured(form).Mode # "replay" /\ Configured(form).previousMode # "replay"
<1>1. CASE "mode" \in DOMAIN form
  BY <1>1 DEF Configured
<1>2. CASE "mode" \notin DOMAIN form
  BY <1>2 DEF Configured
<1> QED  BY <1>1, <1>2

\* Only a start, a form and an end change the mode; the end puts back the one
\* there was.
LEMMA ModeStep ==
    ASSUME TypeOK, ModeInv, LeftAlone,
           \A form \in Forms : "mode" \in DOMAIN form => form.mode # "replay",
           [Next]_vars
    PROVE  ModeInv'
<1>0. blockConfig \in [Mode : Modes, Partitions : SUBSET SUBSET Nodes,
                       Percentage : Int, Matcher : Kinds, previousMode : Modes]
  BY DEF TypeOK
<1>1. ASSUME NEW form \in Forms, BlockConfigHandler(form) PROVE ModeInv'
  <2>1. blockConfig' = Configured(form) /\ ~isReplaying
    BY <1>1 DEF BlockConfigHandler
  <2> QED  BY <2>1, ConfiguredMode DEF ModeInv, ReplayModeEnds
<1>2. ASSUME NEW id \in DOMAIN disk, NEW keepMode \in BOOLEAN,
             StartReplayHandler(id, keepMode)
      PROVE  ModeInv'
  <2>1. isReplaying' /\ timers' # timers
    BY <1>2 DEF StartReplayHandler, TypeOK
  <2>2. ~isReplaying
    BY <2>1 DEF LeftAlone
  <2>3. blockConfig'.previousMode = blockConfig.Mode
    BY <1>0, <1>2 DEF StartReplayHandler
  <2> QED  BY <2>1, <2>2, <2>3 DEF ModeInv, ReplayModeEnds
<1>3. CASE EndReplayFinish
  <2>1. /\ blockConfig'.Mode = blockConfig.previousMode
        /\ blockConfig'.previousMode = blockConfig.previousMode
    BY <1>0, <1>3 DEF EndReplayFinish
  <2> QED  BY <2>1 DEF ModeInv, ReplayModeEnds
<1>4. CASE \/ \E c \in Conns : HandlerSteps(c)
           \/ HomeHandler \/ \E id \in DOMAIN disk : InspectHandler(id)
           \/ BlockConfigRefused \/ StartReplayMissing
           \/ StartRecordingHandler \/ EndRecordingHandler
           \/ StartReplayKick \/ GoroutineOffer
           \/ \E t \in 1..MaxReplays : TimerFires(t)
           \/ EndReplayToken \/ EndReplayContinue \/ EndReplayAllSeen \/ EndReplayNext
           \/ UNCHANGED vars
  <2>1. blockConfig' = blockConfig
    BY <1>4 DEF HandlerSteps, HandlerDecide, HandlerReadError, HandlerResponse,
         HandlerUpstreamError, HandlerCheck, HandlerNext, HandlerOffer,
         HandlerTestTimer, HandlerLoadTimer, HandlerRearm, HomeHandler, InspectHandler,
         BlockConfigRefused, StartReplayMissing, StartRecordingHandler,
         EndRecordingHandler, StartReplayKick, GoroutineNext, GoroutineOffer,
         TimerFires, EndReplayToken, EndReplayContinue, EndReplayAllSeen,
         EndReplayNext, vars, userVars
  <2>2. CASE isReplaying' = isReplaying
    BY <2>1, <2>2 DEF ModeInv, ReplayModeEnds
  <2>3. CASE EndReplayFinish
    BY <1>3, <2>3
  <2>4. isReplaying => isReplaying' \/ EndReplayFinish
    BY DEF LeftAlone
  <2> QED  BY <2>1, <2>3, <2>4 DEF ModeInv, ReplayModeEnds
<1> QED  BY <1>1, <1>2, <1>3, <1>4 DEF Next, UserSteps, ReplaySteps

\* Where replays are left alone and nobody posts the mode "replay", that mode
\* ends with the replay that set it, for any number of replays, though a timer
\* of an earlier one may end a later one.
THEOREM ModeEnds ==
    ASSUME \A form \in Forms : "mode" \in DOMAIN form => form.mode # "replay"
    PROVE  Spec /\ [][LeftAlone]_vars => []ReplayModeEnds
<1>1. Init => ModeInv
  BY InitMode
<1>2. TypeOK /\ ModeInv /\ [Next]_vars /\ [LeftAlone]_vars => ModeInv'
  <2>1. CASE UNCHANGED vars
    BY <2>1 DEF ModeInv, ReplayModeEnds, vars, userVars, replayVars
  <2>2. CASE LeftAlone
    BY <2>2, ModeStep
  <2> QED  BY <2>1, <2>2
<1>3. ModeInv => ReplayModeEnds
  BY DEF ModeInv
<1> QED  BY <1>1, <1>2, <1>3, TypeCorrect, PTL DEF Spec

-----------------------------------------------------------------------------
(* A replay that ends by itself.                                           *)

\* Without a replay so far there is nobody of a replay.
NobodyYet ==
    timers = 0 =>
        /\ ~isReplaying
        /\ \A c \in Conns : pc[c] \notin {"next", "offer", "sending"}
        /\ endReplayC = <<>>
        /\ \A place \in Places : goroutines[place] = 0

\* Somebody is about to say that nothing is left, has said so, or has heard it.
NothingLeftSaid ==
    \/ \E c \in Conns : pc[c] \in {"offer", "sending"}
    \/ goroutines["offer"] > 0
    \/ endReplayC # <<>>
    \/ goroutines["sleep"] > 0

\* Of the first replay that is true, as long as it is the only one: what is
\* said of a replay is not told apart from what is said of another.
SaidIsTrue == isReplaying /\ timers = 1 /\ NothingLeftSaid => UnseenOutside = {}

EndInv == NobodyYet /\ SaidIsTrue

\* What nextOutsideRequest has not sent when it does not stop: nothing.
LEMMA SendDueAll ==
    ASSUME NEW alwaysSend \in BOOLEAN, SendDue(alwaysSend),
           replayingFrom' = replayingFrom
    PROVE  /\ UnseenOutside' \subseteq UnseenOutside
           /\ Stops(alwaysSend) = {} => UnseenOutside' = {}
<1>1. seen' = seen \cup Due(alwaysSend)
  BY DEF SendDue
<1>2. UnseenOutside' = UnseenOutside \ Due(alwaysSend)
  BY <1>1 DEF UnseenOutside, Unseen
<1>3. Stops(alwaysSend) = {} => Due(alwaysSend) = UnseenOutside
  BY DEF Due
<1> QED  BY <1>2, <1>3

\* A step by which nobody new says that nothing is left.
LEMMA NothingSaid ==
    ASSUME EndInv, timers' = timers, isReplaying' => isReplaying,
           isReplaying' => UnseenOutside' \subseteq UnseenOutside,
           \A c \in Conns : pc'[c] \in {"next", "offer", "sending"}
                => pc[c] \in {"next", "offer", "sending"} \/ isReplaying,
           endReplayC' # <<>> => endReplayC # <<>> \/ timers # 0,
           \A place \in Places : goroutines'[place] = 0 \/ timers # 0,
           NothingLeftSaid' => NothingLeftSaid
    PROVE  EndInv'
<1>1. NobodyYet'
  BY DEF EndInv, NobodyYet
<1>2. SaidIsTrue'
  <2> SUFFICES ASSUME isReplaying', timers' = 1, NothingLeftSaid'
               PROVE  UnseenOutside' = {}
    BY DEF SaidIsTrue
  <2> QED  BY DEF EndInv, SaidIsTrue
<1> QED  BY <1>1, <1>2 DEF EndInv

\* A connection's goroutine says that nothing is left when that is so.
LEMMA HandlerEnd ==
    ASSUME TypeOK, EndInv, NEW c \in Conns, HandlerSteps(c) PROVE EndInv'
<1>0. pc \in [Conns -> {"idle", "forward", "withhold", "check", "next",
                        "offer", "sending", "reset", "load", "rearm"}]
  BY DEF TypeOK
<1>1. CASE HandlerNext(c)
  <2>1. /\ UnseenOutside' \subseteq UnseenOutside
        /\ Stops(FALSE) = {} => UnseenOutside' = {}
    BY <1>1, SendDueAll DEF HandlerNext
  <2>2. UNCHANGED <<timers, isReplaying, endReplayC, goroutines>> /\ pc[c] = "next"
    BY <1>1 DEF HandlerNext
  <2>3. timers # 0
    BY <2>2 DEF EndInv, NobodyYet
  <2>4. \A o \in Conns : pc'[o] \in {"offer", "sending"}
            => pc[o] \in {"offer", "sending"} \/ Stops(FALSE) = {}
    BY <1>0, <1>1 DEF HandlerNext, Goto
  <2>5. CASE Stops(FALSE) = {}
    BY <2>1, <2>2, <2>3, <2>5 DEF EndInv, NobodyYet, SaidIsTrue
  <2>6. CASE Stops(FALSE) # {}
    <3>1. NothingLeftSaid' => NothingLeftSaid
      BY <2>2, <2>4, <2>6 DEF NothingLeftSaid
    <3> QED  BY <2>1, <2>2, <2>3, <3>1 DEF EndInv, NobodyYet, SaidIsTrue
  <2> QED  BY <2>5, <2>6
<1>2. CASE HandlerOffer(c)
  <2>1. UNCHANGED <<timers, isReplaying, replayingFrom, seen, goroutines>> /\ pc[c] = "offer"
    BY <1>2 DEF HandlerOffer, replayVars
  <2>2. timers # 0 /\ NothingLeftSaid
    BY <2>1 DEF EndInv, NobodyYet, NothingLeftSaid
  <2>3. UnseenOutside' = UnseenOutside
    BY <2>1 DEF UnseenOutside, Unseen
  <2> QED  BY <2>1, <2>2, <2>3 DEF EndInv, NobodyYet, SaidIsTrue
<1>3. CASE ~HandlerNext(c) /\ ~HandlerOffer(c)
  <2>1. /\ UNCHANGED <<timers, isReplaying, replayingFrom, endReplayC, goroutines>>
        /\ seen \subseteq seen'
    BY <1>3 DEF HandlerSteps, HandlerDecide, HandlerReadError, HandlerResponse,
                HandlerUpstreamError, HandlerCheck, HandlerTestTimer, HandlerLoadTimer, HandlerRearm,
                replayVars
  <2>2. UnseenOutside' \subseteq UnseenOutside
    BY <2>1 DEF UnseenOutside, Unseen
  <2>3. \A o \in Conns : /\ pc'[o] \in {"offer", "sending"} => pc'[o] = pc[o]
                         /\ pc'[o] = "next" => pc[o] = "next" \/ isReplaying
    BY <1>0, <1>3
       DEF HandlerSteps, HandlerDecide, HandlerReadError, HandlerResponse,
           HandlerUpstreamError, HandlerCheck, HandlerTestTimer, HandlerLoadTimer, HandlerRearm,
           Goto, connVars
  <2>4. NothingLeftSaid' => NothingLeftSaid
    BY <2>1, <2>3 DEF NothingLeftSaid
  <2>5. \A o \in Conns : pc'[o] \in {"next", "offer", "sending"}
            => pc[o] \in {"next", "offer", "sending"} \/ isReplaying
    BY <2>3
  <2>6. \A place \in Places : goroutines'[place] = 0 \/ timers # 0
    BY <2>1 DEF EndInv, NobodyYet
  <2> QED  BY <2>1, <2>2, <2>4, <2>5, <2>6, NothingSaid
<1> QED  BY <1>1, <1>2, <1>3

\* What the user does says nothing; a second replay is no longer the only one.
LEMMA UserEnd == ASSUME TypeOK, EndInv, UserSteps PROVE EndInv'
<1>1. CASE \E id \in DOMAIN disk, keepMode \in BOOLEAN : StartReplayHandler(id, keepMode)
  <2>1. PICK id \in DOMAIN disk, keepMode \in BOOLEAN : StartReplayHandler(id, keepMode)
    BY <1>1
  <2>2. timers' = timers + 1 /\ timers \in Nat
    BY <2>1 DEF StartReplayHandler, TypeOK
  <2>3. timers' = 1 => timers = 0
    BY <2>2
  <2>4. UNCHANGED <<pc, endReplayC>>
    BY <2>1 DEF StartReplayHandler, connVars
  <2>5. goroutines'["offer"] = goroutines["offer"] /\ goroutines'["sleep"] = goroutines["sleep"]
    BY <2>1 DEF StartReplayHandler, Spawn, TypeOK, Places
  <2>6. timers = 0 => ~NothingLeftSaid'
    BY <2>4, <2>5 DEF EndInv, NobodyYet, NothingLeftSaid, Places
  <2> QED  BY <2>2, <2>3, <2>6 DEF EndInv, NobodyYet, SaidIsTrue
<1>2. CASE ~\E id \in DOMAIN disk, keepMode \in BOOLEAN : StartReplayHandler(id, keepMode)
  <2>1. /\ UNCHANGED <<timers, pc, endReplayC, goroutines>>
        /\ isReplaying' => isReplaying
        /\ \/ replayingFrom' = replayingFrom /\ seen' = seen
           \/ replayingFrom' = NoRecording
           \/ ~isReplaying'
    BY <1>2 DEF UserSteps, HomeHandler, InspectHandler, CancelReplay, BlockConfigHandler,
                BlockConfigRefused, StartRecordingHandler, EndRecordingHandler,
                StartReplayMissing, replayVars, connVars
  <2>2. isReplaying' => UnseenOutside' \subseteq UnseenOutside
    BY <2>1 DEF UnseenOutside, Unseen, NoRecording
  <2>3. NothingLeftSaid' = NothingLeftSaid
    BY <2>1 DEF NothingLeftSaid
  <2>4. \A place \in Places : goroutines'[place] = 0 \/ timers # 0
    BY <2>1 DEF EndInv, NobodyYet
  <2> QED  BY <2>1, <2>2, <2>3, <2>4, NothingSaid
<1> QED  BY <1>1, <1>2

\* Of the other goroutines, one that says or hears that nothing is left does so
\* when that is so.
LEMMA ReplayStepsEnd == ASSUME TypeOK, EndInv, ReplaySteps PROVE EndInv'
<1> USE DEF Places
<1>0. goroutines \in [Places -> Nat] /\ armed \subseteq 1..timers
  BY DEF TypeOK
<1>1. ASSUME NEW place \in {"kick", "next"}, GoroutineNext(place) PROVE EndInv'
  <2>1. /\ UnseenOutside' \subseteq UnseenOutside
        /\ Stops(TRUE) = {} => UnseenOutside' = {}
    BY <1>1, SendDueAll DEF GoroutineNext
  <2>2. UNCHANGED <<timers, isReplaying, endReplayC, pc>> /\ goroutines[place] > 0
    BY <1>1 DEF GoroutineNext, Move, Leave, connVars
  <2>3. timers # 0
    BY <2>2 DEF EndInv, NobodyYet
  <2>4. /\ goroutines'["sleep"] = goroutines["sleep"]
        /\ Stops(TRUE) # {} => goroutines'["offer"] = goroutines["offer"]
    BY <1>0, <1>1 DEF GoroutineNext, Move, Leave
  <2>5. CASE Stops(TRUE) = {}
    BY <2>1, <2>2, <2>3, <2>5 DEF EndInv, NobodyYet, SaidIsTrue
  <2>6. CASE Stops(TRUE) # {}
    <3>1. NothingLeftSaid' => NothingLeftSaid
      BY <2>2, <2>4, <2>6 DEF NothingLeftSaid
    <3> QED  BY <2>1, <2>2, <2>3, <3>1 DEF EndInv, NobodyYet, SaidIsTrue
  <2> QED  BY <2>5, <2>6
<1>2. CASE \/ GoroutineOffer \/ \E t \in 1..MaxReplays : TimerFires(t)
           \/ EndReplayToken \/ EndReplayContinue \/ EndReplayAllSeen
  <2>1. UNCHANGED <<timers, isReplaying, replayingFrom, seen>>
    BY <1>2 DEF GoroutineOffer, TimerFires, EndReplayToken, EndReplayContinue,
                EndReplayAllSeen, replayVars
  <2>2. UnseenOutside' = UnseenOutside
    BY <2>1 DEF UnseenOutside, Unseen
  <2>3. timers # 0
    <3>1. CASE \E t \in 1..MaxReplays : TimerFires(t)
      BY <1>0, <3>1 DEF TimerFires
    <3>2. CASE \/ GoroutineOffer
               \/ EndReplayToken \/ EndReplayContinue \/ EndReplayAllSeen
      BY <3>2 DEF GoroutineOffer, EndReplayToken, EndReplayContinue, EndReplayAllSeen,
                  Move, Leave, EndInv, NobodyYet
    <3> QED  BY <1>2, <3>1, <3>2
  <2>4. CASE GoroutineOffer
    <3>1. NothingLeftSaid
      BY <2>4 DEF GoroutineOffer, Leave, NothingLeftSaid
    <3> QED  BY <2>1, <2>2, <2>3, <3>1 DEF EndInv, NobodyYet, SaidIsTrue
  <2>5. CASE EndReplayToken
    <3>1. NothingLeftSaid
      BY <2>5 DEF EndReplayToken, Receive, NothingLeftSaid
    <3> QED  BY <2>1, <2>2, <2>3, <3>1 DEF EndInv, NobodyYet, SaidIsTrue
  <2>6. CASE EndReplayAllSeen
    <3>1. UnseenOutside' = {}
      BY <2>2, <2>6 DEF EndReplayAllSeen, UnseenOutside
    <3> QED  BY <2>1, <2>3, <3>1 DEF EndInv, NobodyYet, SaidIsTrue
  <2>7. CASE EndReplayContinue \/ \E t \in 1..MaxReplays : TimerFires(t)
    <3>1. UNCHANGED <<pc, endReplayC>>
      BY <2>7 DEF EndReplayContinue, TimerFires, connVars
    <3>2. /\ goroutines'["offer"] = goroutines["offer"]
          /\ goroutines'["sleep"] = goroutines["sleep"]
      BY <1>0, <2>7 DEF EndReplayContinue, TimerFires, Move, Spawn
    <3>3. NothingLeftSaid' = NothingLeftSaid
      BY <3>1, <3>2 DEF NothingLeftSaid
    <3> QED  BY <2>1, <2>2, <2>3, <3>3 DEF EndInv, NobodyYet, SaidIsTrue
  <2> QED  BY <1>2, <2>4, <2>5, <2>6, <2>7
<1>3. CASE EndReplayFinish
  <2>1. ~isReplaying' /\ timers' = timers /\ goroutines["sleep"] > 0
    BY <1>3 DEF EndReplayFinish, Leave
  <2>2. timers # 0
    BY <2>1 DEF EndInv, NobodyYet
  <2> QED  BY <2>1, <2>2 DEF EndInv, NobodyYet, SaidIsTrue
<1> QED  BY <1>1, <1>2, <1>3 DEF ReplaySteps, StartReplayKick, EndReplayNext

\* The invariant holds throughout.
LEMMA EndInvariant == Spec => []EndInv
<1>1. Init => EndInv
  <2>1. Init => NobodyYet
    BY DEF Init, NobodyYet, Places
  <2>2. Init => SaidIsTrue
    BY DEF Init, SaidIsTrue
  <2> QED  BY <2>1, <2>2 DEF EndInv
<1>2. TypeOK /\ EndInv /\ [Next]_vars => EndInv'
  <2> SUFFICES ASSUME TypeOK, EndInv, [Next]_vars PROVE EndInv'
    OBVIOUS
  <2>1. CASE Next
    BY <2>1, HandlerEnd, UserEnd, ReplayStepsEnd DEF Next
  <2>2. CASE UNCHANGED vars
    <3>1. UNCHANGED <<timers, isReplaying, replayingFrom, seen, pc, endReplayC, goroutines>>
      BY <2>2 DEF vars, replayVars, connVars
    <3> QED  BY <3>1 DEF EndInv, NobodyYet, SaidIsTrue, NothingLeftSaid,
                         UnseenOutside, Unseen
  <2> QED  BY <2>1, <2>2
<1> QED  BY <1>1, <1>2, TypeCorrect, PTL DEF Spec

\* The only replay of a run ends by itself after it has marked and recorded every
\* request from outside, whoever did so, however often the timer fired and however
\* long the token waited.
THEOREM OnlyReplayIsComplete == Spec /\ [](timers <= 1) => CompletedReplayIsComplete
<1>1. TypeOK /\ EndInv /\ timers <= 1
         => [isReplaying /\ EndReplayFinish => UnseenOutside = {}]_vars
  <2> SUFFICES ASSUME TypeOK, EndInv, timers <= 1, isReplaying, EndReplayFinish
               PROVE  UnseenOutside = {}
    OBVIOUS
  <2>1. timers = 1
    BY DEF EndInv, NobodyYet, TypeOK
  <2>2. NothingLeftSaid
    BY DEF EndReplayFinish, Leave, NothingLeftSaid
  <2> QED  BY <2>1, <2>2 DEF EndInv, SaidIsTrue
<1> QED  BY <1>1, EndInvariant, TypeCorrect, PTL DEF CompletedReplayIsComplete

-----------------------------------------------------------------------------
(* The requests from outside that a replay records.                        *)

\* The enumeration of a set, and then of one all above it, is that of their
\* union.
LEMMA AscendingUnion ==
    ASSUME NEW S, NEW T, S \subseteq Nat, T \subseteq Nat,
           IsFiniteSet(S), IsFiniteSet(T),
           \A x \in S, y \in T : x < y,
           NEW s \in Ascending(S), NEW t \in Ascending(T)
    PROVE  LET n == Cardinality(S)
               both == [k \in 1 .. n + Cardinality(T) |-> IF k <= n THEN s[k] ELSE t[k - n]]
           IN  /\ n \in Nat /\ Cardinality(T) \in Nat
               /\ Cardinality(S \cup T) = n + Cardinality(T)
               /\ both \in Ascending(S \cup T)
<1> DEFINE n == Cardinality(S)
           p == Cardinality(T)
           both == [k \in 1 .. n + p |-> IF k <= n THEN s[k] ELSE t[k - n]]
<1>1. n \in Nat /\ p \in Nat
  BY FS_CardinalityType
<1>2. Cardinality(S \cup T) = n + p
  <2>1. S \cap T = {}
    OBVIOUS
  <2>2. Cardinality(S \cup T) = n + p - Cardinality(S \cap T)
    BY FS_Union
  <2>3. Cardinality(S \cap T) = 0
    BY <2>1, FS_EmptySet
  <2> QED  BY <1>1, <2>2, <2>3
<1>3. /\ s \in [1..n -> S] /\ t \in [1..p -> T]
      /\ \A j, k \in 1..n : j < k => s[j] < s[k]
      /\ \A j, k \in 1..p : j < k => t[j] < t[k]
  BY DEF Ascending
<1> HIDE DEF n, p
<1>4. \A k \in 1 .. n + p : k <= n => k \in 1..n /\ both[k] = s[k] /\ both[k] \in S
  BY <1>1, <1>3
<1>5. \A k \in 1 .. n + p : ~(k <= n) => k - n \in 1..p /\ both[k] = t[k - n] /\ both[k] \in T
  BY <1>1, <1>3
<1>6. both \in [1 .. n + p -> S \cup T]
  BY <1>4, <1>5
<1>7. ASSUME NEW j \in 1 .. n + p, NEW k \in 1 .. n + p, j < k
      PROVE  both[j] < both[k]
  <2> HIDE DEF both
  <2>1. CASE k <= n
    <3>1. j <= n
      BY <1>1, <1>7, <2>1
    <3>2. s[j] < s[k]
      BY <1>3, <1>4, <1>7, <2>1, <3>1
    <3> QED  BY <1>4, <2>1, <3>1, <3>2
  <2>2. CASE j <= n /\ ~(k <= n)
    BY <1>4, <1>5, <2>2
  <2>3. CASE ~(j <= n) /\ ~(k <= n)
    <3>1. j - n < k - n
      BY <1>1, <1>7
    <3>2. t[j - n] < t[k - n]
      BY <1>3, <1>5, <2>3, <3>1
    <3> QED  BY <1>5, <2>3, <3>2
  <2> QED  BY <2>1, <2>2, <2>3
<1>8. both \in Ascending(S \cup T)
  <2> HIDE DEF both
  <2> QED  BY <1>2, <1>6, <1>7 DEF Ascending
<1> QED  BY <1>1, <1>2, <1>8 DEF n, p

\* The numbers that follow a length, in their order.
LEMMA AscendingNext ==
    ASSUME NEW n \in Nat, NEW p \in Nat
    PROVE  /\ IsFiniteSet(n + 1 .. n + p) /\ Cardinality(n + 1 .. n + p) = p
           /\ [k \in 1..p |-> n + k] \in Ascending(n + 1 .. n + p)
<1>1. IsFiniteSet(n + 1 .. n + p) /\ Cardinality(n + 1 .. n + p) = p
  BY FS_Interval
<1>2. [k \in 1..p |-> n + k] \in [1..p -> n + 1 .. n + p]
  OBVIOUS
<1> QED  BY <1>1, <1>2 DEF Ascending

\* What is sent is recorded after the rest, in the order of the recording: the
\* two enumerations grow by it.
LEMMA SendDueOnce ==
    ASSUME TypeOK, OutsideSeenInOrder, OutsideReplayedOnce,
           NEW alwaysSend \in BOOLEAN, SendDue(alwaysSend),
           replayingFrom' = replayingFrom, isReplaying' = isReplaying
    PROVE  OutsideReplayedOnce'
<1> DEFINE made == recording.Requests
           new == recording'.Requests
           old == replayingFrom.Requests
           due == Due(alwaysSend)
           marked == seen \cap OutsideIn(old)
<1>1. made \in Seq(Request) /\ old \in Seq(Request) /\ recording \in Recordings
  BY DEF TypeOK, Recordings
<1>2. /\ due \subseteq Unseen \cap OutsideIn(old)
      /\ seen' = seen \cup due
      /\ seen \subseteq DOMAIN old
  BY DEF Due, UnseenOutside, Unseen, OutsideIn, SendDue, TypeOK
<1>3. PICK batch \in Ascending(due) :
         recording' = [recording EXCEPT !.Requests =
             @ \o [k \in DOMAIN batch |-> old[batch[k]]]]
  BY DEF SendDue
<1> DEFINE p == Cardinality(due)
           more == [k \in 1..p |-> old[batch[k]]]
<1>4. /\ marked \subseteq Nat /\ IsFiniteSet(marked)
      /\ due \subseteq Nat /\ IsFiniteSet(due)
  <2>1. DOMAIN old \subseteq Nat /\ IsFiniteSet(DOMAIN old)
    BY <1>1, FS_Interval
  <2>2. marked \in SUBSET DOMAIN old /\ due \in SUBSET DOMAIN old
    BY <1>2 DEF OutsideIn
  <2> HIDE DEF marked, due, old
  <2> QED  BY <2>1, <2>2, FS_Subset
<1>5. p \in Nat
  BY <1>4, FS_CardinalityType
<1>6. /\ new = made \o more /\ batch \in [1..p -> due]
      /\ more \in Seq(Request) /\ Len(more) = p
      /\ \A k \in 1..p : more[k] = old[batch[k]] /\ FromOutside(more[k])
  <2>1. batch \in [1..p -> due]
    BY <1>3 DEF Ascending
  <2>2. DOMAIN batch = 1..p
    BY <2>1
  <2>3. new = made \o more
    BY <1>1, <1>3, <2>2 DEF Recordings
  <2> HIDE DEF due, p, new
  <2>4. \A k \in 1..p : batch[k] \in DOMAIN old /\ FromOutside(old[batch[k]])
    BY <1>2, <2>1 DEF OutsideIn
  <2>5. \A k \in 1..p : old[batch[k]] \in Request
    BY <1>1, <2>4
  <2> QED  BY <1>5, <2>1, <2>3, <2>4, <2>5
<1> HIDE DEF more
<1> SUFFICES ASSUME isReplaying
             PROVE  \E copies \in Ascending(OutsideIn(new)),
                       sent \in Ascending(seen' \cap OutsideIn(old)) :
                        /\ DOMAIN copies = DOMAIN sent
                        /\ \A k \in DOMAIN sent : new[copies[k]] = old[sent[k]]
  BY DEF OutsideReplayedOnce
<1>7. PICK copies0 \in Ascending(OutsideIn(made)), sent0 \in Ascending(marked) :
         /\ DOMAIN copies0 = DOMAIN sent0
         /\ \A k \in DOMAIN sent0 : made[copies0[k]] = old[sent0[k]]
  BY DEF OutsideReplayedOnce
<1> DEFINE n == Cardinality(marked)
           size == Len(made)
           added == size + 1 .. size + p
           addedBatch == [k \in 1..p |-> size + k]
<1>8. size \in Nat /\ n \in Nat
  BY <1>1, <1>4, FS_CardinalityType
<1> HIDE DEF new, made, old, due, marked, p
<1>9. /\ DOMAIN made = 1..size /\ DOMAIN new = 1 .. size + p
      /\ \A i \in 1..size : new[i] = made[i]
      /\ \A k \in 1..p : new[size + k] = more[k]
  BY <1>1, <1>5, <1>6, ConcatProperties, LenProperties
<1>10. OutsideIn(new) = OutsideIn(made) \cup added
  <2>1. \A i \in 1..size : i \in OutsideIn(new) <=> i \in OutsideIn(made)
    BY <1>5, <1>8, <1>9 DEF OutsideIn
  <2>2. \A i \in added : i \in OutsideIn(new)
    <3> SUFFICES ASSUME NEW i \in added PROVE i \in OutsideIn(new)
      OBVIOUS
    <3>1. i - size \in 1..p /\ i = size + (i - size) /\ i \in DOMAIN new
      BY <1>5, <1>8, <1>9
    <3>2. new[i] = more[i - size]
      BY <1>9, <3>1
    <3> QED  BY <1>6, <3>1, <3>2 DEF OutsideIn
  <2>3. OutsideIn(new) \subseteq (1..size) \cup added /\ OutsideIn(made) \subseteq 1..size
    BY <1>5, <1>8, <1>9 DEF OutsideIn
  <2> QED  BY <2>1, <2>2, <2>3
<1>11. seen' \cap OutsideIn(old) = marked \cup due
  BY <1>2 DEF marked
<1>12. Cardinality(OutsideIn(made)) = n
  <2>1. DOMAIN copies0 = 1..Cardinality(OutsideIn(made)) /\ DOMAIN sent0 = 1..n
    BY <1>7 DEF Ascending
  <2>2. Cardinality(OutsideIn(made)) \in Nat
    <3>1. OutsideIn(made) \subseteq 1..size /\ IsFiniteSet(1..size)
      BY <1>8, <1>9, FS_Interval DEF OutsideIn
    <3> QED  BY <3>1, FS_Subset, FS_CardinalityType
  <2>3. 1..Cardinality(OutsideIn(made)) = 1..n
    BY <1>7, <2>1
  <2> HIDE DEF n
  <2>4. \A b \in Nat : Cardinality(1..b) = b
    <3> SUFFICES ASSUME NEW b \in Nat PROVE Cardinality(1..b) = b
      OBVIOUS
    <3>1. Cardinality(1..b) = IF 1 > b THEN 0 ELSE b - 1 + 1
      BY FS_Interval
    <3> QED  BY <3>1
  <2> QED  BY <1>8, <2>2, <2>3, <2>4
<1> DEFINE copies == [k \in 1 .. n + p |-> IF k <= n THEN copies0[k] ELSE addedBatch[k - n]]
           sent == [k \in 1 .. n + p |-> IF k <= n THEN sent0[k] ELSE batch[k - n]]
<1>13. sent \in Ascending(marked \cup due)
  <2>1. \A x \in marked, y \in due : x < y
    BY <1>2 DEF OutsideSeenInOrder, OutsideIn, marked, old
  <2> HIDE DEF n
  <2> QED  BY <1>3, <1>4, <1>7, <2>1, AscendingUnion DEF n, p, due
<1>14. copies \in Ascending(OutsideIn(made) \cup added)
  <2>1. /\ IsFiniteSet(added) /\ Cardinality(added) = p
        /\ addedBatch \in Ascending(added)
    BY <1>5, <1>8, AscendingNext
  <2>2. /\ OutsideIn(made) \subseteq Nat /\ IsFiniteSet(OutsideIn(made))
        /\ added \subseteq Nat
        /\ \A x \in OutsideIn(made), y \in added : x < y
    <3>1. OutsideIn(made) \subseteq 1..size /\ IsFiniteSet(1..size)
      BY <1>8, <1>9, FS_Interval DEF OutsideIn
    <3>2. IsFiniteSet(OutsideIn(made))
      BY <3>1, FS_Subset
    <3> QED  BY <1>5, <1>8, <3>1, <3>2
  <2> HIDE DEF added, addedBatch, n
  <2>3. [k \in 1 .. Cardinality(OutsideIn(made)) + Cardinality(added) |->
            IF k <= Cardinality(OutsideIn(made)) THEN copies0[k]
            ELSE addedBatch[k - Cardinality(OutsideIn(made))]]
          \in Ascending(OutsideIn(made) \cup added)
    BY <1>7, <2>1, <2>2, AscendingUnion
  <2> QED  BY <1>12, <2>1, <2>3
<1>15. \A k \in 1 .. n + p : new[copies[k]] = old[sent[k]]
  <2> SUFFICES ASSUME NEW k \in 1 .. n + p PROVE new[copies[k]] = old[sent[k]]
    OBVIOUS
  <2>1. copies0 \in [1..n -> OutsideIn(made)] /\ DOMAIN sent0 = 1..n
    BY <1>7, <1>12 DEF Ascending
  <2> HIDE DEF n
  <2>2. CASE k <= n
    <3>1. k \in 1..n /\ copies0[k] \in 1..size
      BY <1>5, <1>8, <1>9, <2>1, <2>2 DEF OutsideIn
    <3>2. copies[k] = copies0[k] /\ sent[k] = sent0[k]
      BY <2>2
    <3> QED  BY <1>7, <1>9, <2>1, <3>1, <3>2
  <2>3. CASE ~(k <= n)
    <3>1. k - n \in 1..p
      BY <1>5, <1>8, <2>3
    <3>2. copies[k] = size + (k - n) /\ sent[k] = batch[k - n]
      BY <2>3, <3>1
    <3> QED  BY <1>6, <1>9, <3>1, <3>2
  <2> QED  BY <2>2, <2>3
<1>16. DOMAIN copies = 1 .. n + p /\ DOMAIN sent = 1 .. n + p
  OBVIOUS
<1> HIDE DEF copies, sent
<1>17. /\ copies \in Ascending(OutsideIn(new))
       /\ sent \in Ascending(seen' \cap OutsideIn(old))
  BY <1>10, <1>11, <1>13, <1>14
<1>18. DOMAIN copies = DOMAIN sent /\ \A k \in DOMAIN sent : new[copies[k]] = old[sent[k]]
  BY <1>15, <1>16
<1> QED  BY <1>17, <1>18

\* With nothing recorded and nothing marked, or no replay, there is nothing to
\* enumerate.
LEMMA NothingOnce ==
    ASSUME ~isReplaying' \/ (recording'.Requests = <<>> /\ seen' = {})
    PROVE  OutsideReplayedOnce'
<1>1. CASE ~isReplaying'
  BY <1>1 DEF OutsideReplayedOnce
<1>2. CASE recording'.Requests = <<>> /\ seen' = {}
  <2>1. OutsideIn(recording'.Requests) = {} /\ seen' \cap OutsideIn(replayingFrom'.Requests) = {}
    BY <1>2 DEF OutsideIn
  <2>2. <<>> \in Ascending({})
    <3>1. Cardinality({}) = 0
      BY FS_EmptySet
    <3>2. <<>> \in [1..0 -> {}]
      OBVIOUS
    <3> QED  BY <3>1, <3>2 DEF Ascending
  <2>3. DOMAIN <<>> = {}
    OBVIOUS
  <2> QED  BY <2>1, <2>2, <2>3 DEF OutsideReplayedOnce
<1> QED  BY <1>1, <1>2

\* A step that records and marks nothing from outside.
LEMMA OnceUntouched ==
    ASSUME OutsideReplayedOnce,
           OutsideIn(recording'.Requests) = OutsideIn(recording.Requests),
           \A i \in OutsideIn(recording.Requests) :
               recording'.Requests[i] = recording.Requests[i],
           replayingFrom' = replayingFrom, isReplaying' = isReplaying,
           seen' \cap OutsideIn(replayingFrom.Requests)
               = seen \cap OutsideIn(replayingFrom.Requests)
    PROVE  OutsideReplayedOnce'
<1> DEFINE made == recording.Requests
           new == recording'.Requests
           old == replayingFrom.Requests
           marked == seen \cap OutsideIn(old)
<1> SUFFICES ASSUME isReplaying PROVE OutsideReplayedOnce'
  BY DEF OutsideReplayedOnce
<1>1. PICK copies \in Ascending(OutsideIn(made)), sent \in Ascending(marked) :
         /\ DOMAIN copies = DOMAIN sent
         /\ \A k \in DOMAIN sent : made[copies[k]] = old[sent[k]]
  BY DEF OutsideReplayedOnce
<1>2. \A k \in DOMAIN copies : copies[k] \in OutsideIn(made)
  BY <1>1 DEF Ascending
<1>3. \A k \in DOMAIN sent : new[copies[k]] = old[sent[k]]
  BY <1>1, <1>2
<1>4. copies \in Ascending(OutsideIn(new)) /\ sent \in Ascending(seen' \cap OutsideIn(old))
  BY <1>1
<1> QED  BY <1>1, <1>3, <1>4 DEF OutsideReplayedOnce

\* A message of a node is recorded, and marks, among those of nodes.
LEMMA DecideOnce ==
    ASSUME TypeOK, OutsideReplayedOnce, \A m \in Arriving : ~IsOutside(m),
           NEW c \in Conns, HandlerDecide(c)
    PROVE  OutsideReplayedOnce'
<1> DEFINE made == recording.Requests
           new == recording'.Requests
           old == replayingFrom.Requests
<1>1. made \in Seq(Request)
  BY DEF TypeOK, Recordings
<1>2. PICK m \in Arriving : \E d \in Decisions(m) :
        /\ seen' = seen \cup d.marks
        /\ IF isInspecting THEN UNCHANGED recording
                           ELSE record(NewRequest(m, d.verdict))
  BY DEF HandlerDecide
<1>3. PICK d \in Decisions(m) :
        /\ seen' = seen \cup d.marks
        /\ IF isInspecting THEN UNCHANGED recording
                           ELSE record(NewRequest(m, d.verdict))
  BY <1>2
<1> DEFINE r == NewRequest(m, d.verdict)
<1>4. r \in Request /\ ~FromOutside(r)
  <2>1. m \in Traffic /\ d.verdict \in Verdict
    BY DecisionType, ProxyAssumption
  <2> QED  BY <2>1, NewRequestType
<1>5. \A j \in d.marks : ~FromOutside(old[j])
  BY DecisionType
<1>6. seen' \cap OutsideIn(old) = seen \cap OutsideIn(old)
  BY <1>3, <1>5 DEF OutsideIn
<1>7. UNCHANGED <<replayingFrom, isReplaying>>
  BY DEF HandlerDecide
<1>8. new = made \/ new = Append(made, r)
  <2>1. recording \in Recordings
    BY DEF TypeOK
  <2> QED  BY <1>3, <2>1 DEF record, Recordings
<1> HIDE DEF made, new, r
<1>9. OutsideIn(new) = OutsideIn(made) /\ \A i \in OutsideIn(made) : new[i] = made[i]
  <2>1. CASE new = made
    BY <2>1
  <2>2. CASE new = Append(made, r)
    <3>1. /\ DOMAIN new = 1 .. Len(made) + 1 /\ DOMAIN made = 1 .. Len(made)
          /\ Len(made) \in Nat
          /\ \A i \in 1 .. Len(made) : new[i] = made[i]
          /\ new[Len(made) + 1] = r
      BY <1>1, <1>4, <2>2, AppendProperties
    <3> QED  BY <1>4, <3>1 DEF OutsideIn
  <2> QED  BY <1>8, <2>1, <2>2
<1> QED  BY <1>6, <1>7, <1>9, OnceUntouched DEF made, new

\* No step loses or repeats a request from outside.
LEMMA OnceStep ==
    ASSUME TypeOK, OutsideSeenInOrder, OutsideReplayedOnce,
           \A m \in Arriving : ~IsOutside(m),
           ~(isReplaying /\ EndRecordingHandler), [Next]_vars
    PROVE  OutsideReplayedOnce'
<1>1. ASSUME NEW c \in Conns, HandlerDecide(c) PROVE OutsideReplayedOnce'
  BY <1>1, DecideOnce
<1>2. ASSUME NEW c \in Conns, HandlerNext(c) PROVE OutsideReplayedOnce'
  BY <1>2, SendDueOnce DEF HandlerNext
<1>3. ASSUME NEW place \in {"kick", "next"}, GoroutineNext(place)
      PROVE  OutsideReplayedOnce'
  BY <1>3, SendDueOnce DEF GoroutineNext
<1>4. CASE CancelReplay \/ EndReplayFinish \/ EndRecordingHandler
           \/ \E form \in Forms : BlockConfigHandler(form)
  <2>1. ~isReplaying'
    BY <1>4 DEF CancelReplay, EndReplayFinish, EndRecordingHandler, BlockConfigHandler,
                replayVars
  <2> QED  BY <2>1, NothingOnce
<1>5. CASE StartRecordingHandler
  <2>1. Settings(blockConfig) \in BlockConfigs
    BY DEF TypeOK, Settings, BlockConfigs
  <2>2. recording'.Requests = <<>> /\ seen' = {}
    BY <1>5, <2>1, NoRecordingType, RecordedConfigType
       DEF StartRecordingHandler, NoRecording
  <2> QED  BY <2>2, NothingOnce
<1>6. CASE \E id \in DOMAIN disk, keepMode \in BOOLEAN : StartReplayHandler(id, keepMode)
  BY <1>6, NothingOnce DEF StartReplayHandler, NoRecording
<1>7. CASE \/ \E c \in Conns : HandlerSteps(c) /\ ~HandlerDecide(c) /\ ~HandlerNext(c)
           \/ BlockConfigRefused \/ StartReplayMissing
           \/ GoroutineOffer \/ \E t \in 1..MaxReplays : TimerFires(t)
           \/ EndReplayToken \/ EndReplayContinue \/ EndReplayAllSeen
           \/ UNCHANGED vars
  <2>1. UNCHANGED <<recording, replayingFrom, isReplaying, seen>>
    BY <1>7 DEF HandlerSteps, HandlerReadError, HandlerResponse,
         HandlerUpstreamError, HandlerCheck, HandlerOffer,
         HandlerTestTimer, HandlerLoadTimer, HandlerRearm, BlockConfigRefused, StartReplayMissing,
         GoroutineOffer, TimerFires, EndReplayToken, EndReplayContinue,
         EndReplayAllSeen, replayVars, vars
  <2> QED  BY <2>1, OnceUntouched
<1> QED  BY <1>1, <1>2, <1>3, <1>4, <1>5, <1>6, <1>7
         DEF Next, UserSteps, ReplaySteps, HomeHandler, InspectHandler,
             StartReplayKick, EndReplayNext

\* Where no client sends requests of its own and no recording is ended during
\* a replay, a replay records the requests from outside that it has marked,
\* each once, none missing, in their order, for any number of replays.
THEOREM OutsideOnce ==
    ASSUME \A m \in Arriving : ~IsOutside(m)
    PROVE  Spec /\ [][~(isReplaying /\ EndRecordingHandler)]_vars => []OutsideReplayedOnce
<1>1. Init => OutsideReplayedOnce
  BY DEF Init, OutsideReplayedOnce
<1>2. TypeOK /\ OutsideSeenInOrder /\ OutsideReplayedOnce /\ [Next]_vars
          /\ [~(isReplaying /\ EndRecordingHandler)]_vars => OutsideReplayedOnce'
  <2>1. CASE UNCHANGED vars
    <3>1. UNCHANGED <<recording, replayingFrom, isReplaying, seen>>
      BY <2>1 DEF vars, replayVars
    <3> QED  BY <3>1, OnceUntouched
  <2>2. CASE ~(isReplaying /\ EndRecordingHandler)
    BY <2>2, OnceStep
  <2> QED  BY <2>1, <2>2
<1> QED  BY <1>1, <1>2, TypeCorrect, OutsideOrder, PTL DEF Spec

=============================================================================
