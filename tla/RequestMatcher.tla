--------------------------- MODULE RequestMatcher ---------------------------
(***************************************************************************)
(* The five matchers of src/request_matcher.go.                            *)
(*                                                                         *)
(* During a replay a matcher looks, for a message m, for the request of    *)
(* the replayed recording that m repeats.  Go's map from *Request to       *)
(* struct{} is here a set of indices of the replayed recording: loading a  *)
(* recording makes new pointers, so nothing loaded is in the map yet.      *)
(*                                                                         *)
(* done is the recording made so far, rec the replayed one, seen the set   *)
(* of marked indices of rec.  A matcher answers the index of its choice,   *)
(* or NoMatch.                                                             *)
(***************************************************************************)
EXTENDS Requests

Kinds == {"counting", "heuristic", "exact", "mix", "timing"}

\* The kinds that answer with a request of the recording.
SearchKinds == Kinds \ {"timing"}

NoMatch == 0

\* The indices in reqs of the requests of m's stream.
getStream(reqs, m) ==
    {i \in DOMAIN reqs : StreamIdentifier(reqs[i].msg) = StreamIdentifier(m)}

\* The index, in its stream, of the request at j; and the one m will have.
Position(reqs, j) ==
    Cardinality({i \in getStream(reqs, reqs[j].msg) : i < j})

\* The request is recorded before it is decided on.
FaultyNextPosition(done, m) == Cardinality(getStream(done, m)) + 1

NextPosition(done, m) == Cardinality(getStream(done, m))

\* What the loops do not skip.
Candidates(m, rec, seen) ==
    {j \in getStream(rec, m) \ seen :
        ~FromOutside(rec[j]) /\ rec[j].msg.Method = m.Method}

Distance(a, b) == IF a < b THEN b - a ELSE a - b

Bonus(test, weight) == IF test THEN weight ELSE 0

\* The factor is at the position instead of the content.
FaultyHeuristicScore(m, i, rec, j) ==
    LET r == rec[j].msg
    IN    Bonus(r.To = m.To, 10) + Bonus(r.Body = m.Body, 10)
        - Distance(UriLen[r.To], UriLen[m.To])
        - Distance(BodyLen[r.Body], BodyLen[m.Body])
        - 10 * Cardinality(getStream(rec, m)) * Distance(Position(rec, j), i)

\* The scores.  i is the position m has in its stream and j an index of rec.
\* The heuristic one is ten times the code's, to stay among the integers;
\* rounding of the code's floating-point sums is not modelled.
HeuristicScore(m, i, rec, j) ==
    LET r == rec[j].msg
        faktor == Cardinality(getStream(rec, m))
    IN    Bonus(r.To = m.To, 10 * faktor) + Bonus(r.Body = m.Body, 10 * faktor)
        - faktor * Distance(UriLen[r.To], UriLen[m.To])
        - faktor * Distance(BodyLen[r.Body], BodyLen[m.Body])
        - 10 * Distance(Position(rec, j), i)

\* The four tests the exact and the mix matcher count.
ContentScore(m, r) ==
      Bonus(r.To = m.To, 1) + Bonus(UriLen[r.To] = UriLen[m.To], 1)
    + Bonus(r.Body = m.Body, 1) + Bonus(BodyLen[r.Body] = BodyLen[m.Body], 1)

ExactScore(m, i, rec, j) ==
    ContentScore(m, rec[j].msg) + Bonus(Position(rec, j) = i, 1)

MixScore(m, i, rec, j) ==
      Cardinality(getStream(rec, m)) * ContentScore(m, rec[j].msg)
    - Distance(Position(rec, j), i)

Score(kind, m, i, rec, j) ==
    CASE kind = "heuristic" -> HeuristicScore(m, i, rec, j)
      [] kind = "exact"     -> ExactScore(m, i, rec, j)
      [] kind = "mix"       -> MixScore(m, i, rec, j)

\* The first candidate with the highest score: a later one has to be better.
BestMatches(kind, m, done, rec, seen) ==
    LET i == NextPosition(done, m)
        candidates == Candidates(m, rec, seen)
        score == [j \in candidates |-> Score(kind, m, i, rec, j)]
    IN  {j \in candidates : \A k \in candidates :
            \/ score[k] < score[j]
            \/ score[k] = score[j] /\ j <= k}

\* The index is clamped to the stream and the marks are not looked at.  (Either
\* of the two alone would do no harm.)
FaultyCountingMatches(m, done, rec, seen) ==
    {j \in getStream(rec, m) :
        /\ \/ Position(rec, j) = NextPosition(done, m)
           \/ /\ Position(rec, j) = NextPosition(rec, m) - 1
              /\ NextPosition(done, m) >= NextPosition(rec, m)
        /\ ~FromOutside(rec[j])}

\* The request at m's own position, if nothing has matched it yet.
CountingMatches(m, done, rec, seen) ==
    {j \in getStream(rec, m) \ seen :
        /\ Position(rec, j) = NextPosition(done, m)
        /\ ~FromOutside(rec[j])}

\* What Match returns, for the kinds that search.
Match(kind, m, done, rec, seen) ==
    LET matches == IF kind = "counting"
                   THEN CountingMatches(m, done, rec, seen)
                   ELSE BestMatches(kind, m, done, rec, seen)
    IN  IF matches = {} THEN NoMatch ELSE CHOOSE j \in matches : TRUE

\* What a call of Match adds to the marks.  Only this kind marks its answer.
MatchMarks(kind, match) ==
    IF kind = "counting" /\ match # NoMatch THEN {match} ELSE {}

\* The timing matcher marks every inside request recorded up to the time that
\* has now passed: those among the first k.
TimingMarks(rec, k) == {j \in 1..k : j \in DOMAIN rec /\ ~FromOutside(rec[j])}

\* ... and answers with the verdict of the last configuration in force by
\* then, the n-th.  Before the first one the code uses an empty configuration.
TimingVerdicts(configs, n, m) ==
    IF n = 0 THEN {Pass} ELSE Block(configs[n], m, {Pass})

=============================================================================
