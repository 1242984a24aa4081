------------------------ MODULE RequestMatcherProofs ------------------------
(***************************************************************************)
(* What the matchers of module RequestMatcher answer, for any traffic and  *)
(* any recording: a message that is in its place, or that the recording    *)
(* has once, is found.                                                     *)
(***************************************************************************)
EXTENDS RequestMatcher, FiniteSetTheorems, SequenceTheorems, TLAPS

-----------------------------------------------------------------------------
(* Streams and positions.                                                  *)

\* A stream is a finite set of indices.
LEMMA StreamType ==
    ASSUME NEW reqs \in Seq(Request), NEW m
    PROVE  /\ getStream(reqs, m) \subseteq 1..Len(reqs)
           /\ IsFiniteSet(getStream(reqs, m))
           /\ NextPosition(reqs, m) \in Nat
<1>1. getStream(reqs, m) \subseteq 1..Len(reqs) /\ Len(reqs) \in Nat
  BY DEF getStream
<1>2. IsFiniteSet(getStream(reqs, m))
  <2>1. IsFiniteSet(1..Len(reqs))
    BY <1>1, FS_Interval
  <2> QED  BY <1>1, <2>1, FS_Subset
<1> QED  BY <1>1, <1>2, FS_CardinalityType DEF NextPosition

\* What is in a stream is a request of a message.
LEMMA StreamRequest ==
    ASSUME NEW reqs \in Seq(Request), NEW m, NEW j \in getStream(reqs, m)
    PROVE  /\ j \in DOMAIN reqs /\ reqs[j] \in Request /\ reqs[j].msg \in Traffic
           /\ StreamIdentifier(reqs[j].msg) = StreamIdentifier(m)
<1>1. j \in DOMAIN reqs /\ StreamIdentifier(reqs[j].msg) = StreamIdentifier(m)
  BY DEF getStream
<1>2. reqs[j] \in Request
  BY <1>1
<1> QED  BY <1>1, <1>2 DEF Request

\* What is in the same stream is in the stream of either.
LEMMA SameStream ==
    ASSUME NEW reqs, NEW m, NEW n, StreamIdentifier(m) = StreamIdentifier(n)
    PROVE  getStream(reqs, m) = getStream(reqs, n)
  BY DEF getStream

\* The positions in a stream are the numbers below its length, and grow with
\* the index.
LEMMA PositionType ==
    ASSUME NEW reqs \in Seq(Request), NEW m, NEW j \in getStream(reqs, m)
    PROVE  /\ Position(reqs, j) \in Nat
           /\ Position(reqs, j) < Cardinality(getStream(reqs, m))
           /\ \A k \in getStream(reqs, m) :
                 j < k => Position(reqs, j) < Position(reqs, k)
<1> DEFINE stream == getStream(reqs, m)
           Before(k) == {i \in stream : i < k}
<1>1. stream \subseteq Nat /\ IsFiniteSet(stream)
  BY StreamType
<1>2. \A k \in stream : Position(reqs, k) = Cardinality(Before(k))
  <2> SUFFICES ASSUME NEW k \in stream PROVE Position(reqs, k) = Cardinality(Before(k))
    OBVIOUS
  <2>1. getStream(reqs, reqs[k].msg) = stream
    BY SameStream DEF getStream
  <2> QED  BY <2>1 DEF Position
<1> HIDE DEF stream
<1>3. ASSUME NEW T \in SUBSET stream, j \in T
      PROVE  IsFiniteSet(T) /\ Cardinality(T) \in Nat /\ (Before(j) \subseteq T => Cardinality(Before(j)) < Cardinality(T))
  <2>1. IsFiniteSet(T) /\ IsFiniteSet(Before(j))
    BY <1>1, FS_Subset
  <2>2. Cardinality(T) \in Nat /\ Cardinality(Before(j)) \in Nat
    BY <2>1, FS_CardinalityType
  <2>3. j \notin Before(j)
    BY <1>1, <1>3
  <2>4. ASSUME Before(j) \subseteq T PROVE Cardinality(Before(j)) < Cardinality(T)
    <3>1. Before(j) # T
      BY <1>3, <2>3
    <3>2. Before(j) \in SUBSET T
      BY <2>4
    <3> HIDE DEF Before
    <3> QED  BY <2>1, <2>2, <3>1, <3>2, FS_Subset
  <2> QED  BY <2>1, <2>2, <2>4
<1>4. j \in stream
  BY DEF stream
<1>5. Cardinality(Before(j)) \in Nat
  BY <1>1, FS_Subset, FS_CardinalityType
<1>6. Cardinality(Before(j)) < Cardinality(stream)
  BY <1>3, <1>4
<1>7. ASSUME NEW k \in stream, j < k PROVE Cardinality(Before(j)) < Cardinality(Before(k))
  <2>1. Before(k) \in SUBSET stream /\ j \in Before(k)
    BY <1>4, <1>7
  <2>2. Before(j) \subseteq Before(k)
    <3>1. \A i \in stream : i < j => i < k
      BY <1>1, <1>4, <1>7
    <3> QED  BY <3>1
  <2> HIDE DEF Before
  <2> QED  BY <1>3, <2>1, <2>2
<1> HIDE DEF Before
<1> QED  BY <1>2, <1>4, <1>5, <1>6, <1>7 DEF stream

\* Two requests of a stream are not at the same position.
LEMMA PositionsDiffer ==
    ASSUME NEW reqs \in Seq(Request), NEW m,
           NEW j \in getStream(reqs, m), NEW k \in getStream(reqs, m), j # k
    PROVE  Position(reqs, j) # Position(reqs, k)
<1>1. j \in Nat /\ k \in Nat
  BY StreamType
<1>2. j < k => Position(reqs, j) < Position(reqs, k)
  BY PositionType
<1>3. k < j => Position(reqs, k) < Position(reqs, j)
  BY PositionType
<1>4. Position(reqs, j) \in Nat /\ Position(reqs, k) \in Nat
  BY PositionType
<1> QED  BY <1>1, <1>2, <1>3, <1>4

\* What is appended leaves the positions as they were, and gets the next one.
LEMMA PositionAppend ==
    ASSUME NEW reqs \in Seq(Request), NEW more \in Seq(Request)
    PROVE  /\ \A i \in DOMAIN reqs : Position(reqs \o more, i) = Position(reqs, i)
           /\ Len(more) = 1 =>
                 Position(reqs \o more, Len(reqs) + 1) = NextPosition(reqs, more[1].msg)
<1> DEFINE all == reqs \o more
<1>1. /\ DOMAIN all = 1 .. Len(reqs) + Len(more)
      /\ DOMAIN reqs = 1 .. Len(reqs)
      /\ Len(reqs) \in Nat /\ Len(more) \in Nat
      /\ \A i \in 1 .. Len(reqs) : all[i] = reqs[i]
      /\ Len(more) = 1 => all[Len(reqs) + 1] = more[1]
  BY ConcatProperties, LenProperties
<1> HIDE DEF all
<1>2. ASSUME NEW i \in DOMAIN reqs
      PROVE  Position(all, i) = Position(reqs, i)
  <2>1. all[i] = reqs[i]
    BY <1>1
  <2>2. {k \in getStream(all, reqs[i].msg) : k < i} = {k \in getStream(reqs, reqs[i].msg) : k < i}
    BY <1>1 DEF getStream
  <2> QED  BY <2>1, <2>2 DEF Position
<1>3. ASSUME Len(more) = 1
      PROVE  Position(all, Len(reqs) + 1) = NextPosition(reqs, more[1].msg)
  <2> DEFINE m == more[1].msg
  <2>1. all[Len(reqs) + 1] = more[1]
    BY <1>1, <1>3
  <2>2. {k \in getStream(all, m) : k < Len(reqs) + 1} = getStream(reqs, m)
    <3>1. \A k \in getStream(all, m) : k < Len(reqs) + 1 => k \in getStream(reqs, m)
      BY <1>1, <1>3 DEF getStream
    <3>2. \A k \in getStream(reqs, m) : k < Len(reqs) + 1 /\ k \in getStream(all, m)
      BY <1>1, <1>3 DEF getStream
    <3> QED  BY <3>1, <3>2
  <2> QED  BY <2>1, <2>2 DEF Position, NextPosition
<1> QED  BY <1>2, <1>3 DEF all

\* A stream grows by what is appended to it.
LEMMA StreamGrows ==
    ASSUME NEW reqs \in Seq(Request), NEW more \in Seq(Request), NEW m
    PROVE  /\ NextPosition(reqs, m) <= NextPosition(reqs \o more, m)
           /\ Len(more) = 1 /\ StreamIdentifier(more[1].msg) = StreamIdentifier(m)
                 => NextPosition(reqs, m) < NextPosition(reqs \o more, m)
<1> DEFINE all == reqs \o more
           old == getStream(reqs, m)
           new == getStream(all, m)
<1>1. /\ all \in Seq(Request)
      /\ DOMAIN all = 1 .. Len(reqs) + Len(more)
      /\ DOMAIN reqs = 1 .. Len(reqs)
      /\ Len(reqs) \in Nat /\ Len(more) \in Nat
      /\ \A i \in 1 .. Len(reqs) : all[i] = reqs[i]
      /\ Len(more) = 1 => all[Len(reqs) + 1] = more[1]
  BY ConcatProperties, LenProperties
<1>2. /\ IsFiniteSet(old) /\ IsFiniteSet(new)
      /\ Cardinality(old) \in Nat /\ Cardinality(new) \in Nat
  BY <1>1, StreamType, FS_CardinalityType
<1>3. old \in SUBSET new
  <2> HIDE DEF all
  <2> QED  BY <1>1 DEF getStream
<1>4. /\ Len(more) = 1 /\ StreamIdentifier(more[1].msg) = StreamIdentifier(m)
            => Len(reqs) + 1 \in new
      /\ Len(reqs) + 1 \notin old
  <2> HIDE DEF all
  <2> QED  BY <1>1 DEF getStream
<1> HIDE DEF old, new
<1>5. Cardinality(old) <= Cardinality(new)
  BY <1>2, <1>3, FS_Subset
<1>6. ASSUME Len(reqs) + 1 \in new PROVE Cardinality(old) < Cardinality(new)
  BY <1>2, <1>3, <1>4, <1>6, FS_Subset
<1>7. NextPosition(reqs, m) = Cardinality(old) /\ NextPosition(all, m) = Cardinality(new)
  BY DEF NextPosition, old, new
<1> QED  BY <1>4, <1>5, <1>6, <1>7

-----------------------------------------------------------------------------
(* The scores.                                                             *)

\* A message of a recording that is another one of the same stream and method
\* differs in what the matchers look at.
LEMMA OtherMessage ==
    ASSUME NEW m \in Traffic, NEW r \in Traffic, r # m,
           StreamIdentifier(r) = StreamIdentifier(m), r.Method = m.Method
    PROVE  r.To # m.To \/ r.Body # m.Body
<1>1. /\ m = [From |-> m.From, ToName |-> m.ToName, Method |-> m.Method,
              To |-> m.To, Body |-> m.Body]
      /\ r = [From |-> r.From, ToName |-> r.ToName, Method |-> r.Method,
              To |-> r.To, Body |-> r.Body]
  BY TrafficAssumption
<1>2. r.From = m.From /\ r.ToName = m.ToName
  BY DEF StreamIdentifier
<1> QED  BY <1>1, <1>2

\* The distance of two numbers.
LEMMA DistanceType ==
    ASSUME NEW a \in Nat, NEW b \in Nat
    PROVE  /\ Distance(a, b) \in Nat
           /\ Distance(a, b) = 0 <=> a = b
           /\ \A c \in Nat, n \in Nat :
                 c < n /\ a < n => Distance(c, b) < Distance(a, b) + n
  BY DEF Distance

\* What the exact and the mix matcher count of the content.
LEMMA ContentScoreType ==
    ASSUME NEW m \in Traffic, NEW r \in Traffic
    PROVE  /\ ContentScore(m, r) \in 0..4
           /\ r = m => ContentScore(m, r) = 4
           /\ r.To # m.To \/ r.Body # m.Body => ContentScore(m, r) \in 0..3
  BY DEF ContentScore, Bonus

\* A multiple of a natural number.
LEMMA Multiple ==
    ASSUME NEW f \in Nat, NEW n \in Nat
    PROVE  /\ f * n \in Nat
           /\ f * 0 = 0
           /\ n \in 0..4 => f * n <= 4 * f
           /\ n \in 0..3 => f * n <= 3 * f
           /\ f * 4 = 4 * f
<1>1. f * n \in Nat /\ f * 0 = 0 /\ f * 4 = 4 * f
  OBVIOUS
<1>2. ASSUME n \in 0..4 PROVE f * n <= 4 * f /\ (n # 4 => f * n <= 3 * f)
  <2>1. n = 0 \/ n = 1 \/ n = 2 \/ n = 3 \/ n = 4
    BY <1>2
  <2> QED  BY <2>1
<1> QED  BY <1>1, <1>2

\* The heuristic score falls by ten with the distance; the same message has
\* the highest one, and loses more than any distance in the recording costs
\* when its URI or its body is another.
LEMMA HeuristicScoreType ==
    ASSUME NEW m \in Traffic, NEW rec \in Seq(Request), NEW i \in Nat,
           NEW j \in getStream(rec, m)
    PROVE  LET f == Cardinality(getStream(rec, m))
               far == 10 * Distance(Position(rec, j), i)
               score == HeuristicScore(m, i, rec, j)
               r == rec[j].msg
           IN  /\ f \in Nat /\ far \in Nat /\ score \in Int
               /\ r = m => score = 20 * f - far
               /\ score <= 20 * f - far
               /\ r.To # m.To \/ r.Body # m.Body => score <= 10 * f - far
<1> DEFINE f == Cardinality(getStream(rec, m))
           d == Distance(Position(rec, j), i)
           r == rec[j].msg
           u == Distance(UriLen[r.To], UriLen[m.To])
           b == Distance(BodyLen[r.Body], BodyLen[m.Body])
<1>1. r \in Traffic
  BY StreamRequest
<1>2. f \in Nat
  BY StreamType, FS_CardinalityType
<1>3. d \in Nat
  BY PositionType, DistanceType
<1>4. u \in Nat /\ b \in Nat
  BY <1>1, TrafficAssumption, DistanceType
<1>5. r = m => u = 0 /\ b = 0
  BY <1>1, TrafficAssumption, DistanceType
<1>6. /\ f * u \in Nat /\ f * b \in Nat
      /\ r = m => f * u = 0 /\ f * b = 0
  BY <1>2, <1>4, <1>5, Multiple
<1>7. HeuristicScore(m, i, rec, j)
        = Bonus(r.To = m.To, 10 * f) + Bonus(r.Body = m.Body, 10 * f)
            - f * u - f * b - 10 * d
  BY DEF HeuristicScore
<1> DEFINE fu == f * u
           fb == f * b
           toBonus == Bonus(r.To = m.To, 10 * f)
           bodyBonus == Bonus(r.Body = m.Body, 10 * f)
<1>8. /\ toBonus \in {0, 10 * f} /\ bodyBonus \in {0, 10 * f}
      /\ r.To # m.To => toBonus = 0
      /\ r.Body # m.Body => bodyBonus = 0
      /\ r = m => toBonus = 10 * f /\ bodyBonus = 10 * f
  BY DEF Bonus
<1> HIDE DEF f, d, r, u, b
<1>9. HeuristicScore(m, i, rec, j) = toBonus + bodyBonus - fu - fb - 10 * d
  BY <1>7
<1>10. fu \in Nat /\ fb \in Nat /\ (r = m => fu = 0 /\ fb = 0)
  BY <1>6
<1> HIDE DEF fu, fb, toBonus, bodyBonus
<1>11. /\ HeuristicScore(m, i, rec, j) \in Int
       /\ r = m => HeuristicScore(m, i, rec, j) = 20 * f - 10 * d
       /\ HeuristicScore(m, i, rec, j) <= 20 * f - 10 * d
       /\ r.To # m.To \/ r.Body # m.Body => HeuristicScore(m, i, rec, j) <= 10 * f - 10 * d
  BY <1>2, <1>3, <1>8, <1>9, <1>10
<1> QED  BY <1>2, <1>3, <1>11 DEF f, d, r

\* The mix score falls with the distance; the same message has the highest
\* one, and loses the length of the stream when its URI or body is another.
LEMMA MixScoreType ==
    ASSUME NEW m \in Traffic, NEW rec \in Seq(Request), NEW i \in Nat,
           NEW j \in getStream(rec, m)
    PROVE  LET f == Cardinality(getStream(rec, m))
               far == Distance(Position(rec, j), i)
               score == MixScore(m, i, rec, j)
               r == rec[j].msg
           IN  /\ f \in Nat /\ far \in Nat /\ score \in Int
               /\ r = m => score = 4 * f - far
               /\ score <= 4 * f - far
               /\ r.To # m.To \/ r.Body # m.Body => score <= 3 * f - far
<1> DEFINE f == Cardinality(getStream(rec, m))
           d == Distance(Position(rec, j), i)
           r == rec[j].msg
           content == ContentScore(m, r)
<1>1. r \in Traffic
  BY StreamRequest
<1>2. f \in Nat
  BY StreamType, FS_CardinalityType
<1>3. d \in Nat
  BY PositionType, DistanceType
<1>4. /\ content \in 0..4
      /\ r = m => content = 4
      /\ r.To # m.To \/ r.Body # m.Body => content \in 0..3
  BY <1>1, ContentScoreType
<1>5. MixScore(m, i, rec, j) = f * content - d
  BY DEF MixScore
<1> HIDE DEF f, d, r, content
<1>6. /\ f * content \in Nat /\ f * content <= 4 * f
      /\ content = 4 => f * content = 4 * f
      /\ content \in 0..3 => f * content <= 3 * f
  BY <1>2, <1>4, Multiple
<1> DEFINE product == f * content
<1>7. MixScore(m, i, rec, j) = product - d
  BY <1>5
<1>8. /\ product \in Nat /\ product <= 4 * f
      /\ content = 4 => product = 4 * f
      /\ content \in 0..3 => product <= 3 * f
  BY <1>6
<1> HIDE DEF product
<1>9. /\ MixScore(m, i, rec, j) \in Int
      /\ r = m => MixScore(m, i, rec, j) = 4 * f - d
      /\ MixScore(m, i, rec, j) <= 4 * f - d
      /\ r.To # m.To \/ r.Body # m.Body => MixScore(m, i, rec, j) <= 3 * f - d
  BY <1>2, <1>3, <1>4, <1>7, <1>8
<1> QED  BY <1>2, <1>3, <1>9 DEF f, d, r

\* The exact score is at most five, which only the same message can have, and
\* only at the same position.
LEMMA ExactScoreType ==
    ASSUME NEW m \in Traffic, NEW rec \in Seq(Request), NEW i \in Nat,
           NEW j \in getStream(rec, m)
    PROVE  /\ ExactScore(m, i, rec, j) \in 0..5
           /\ rec[j].msg = m /\ Position(rec, j) = i => ExactScore(m, i, rec, j) = 5
           /\ Position(rec, j) # i => ExactScore(m, i, rec, j) < 5
<1>1. rec[j].msg \in Traffic
  BY StreamRequest
<1>2. /\ ContentScore(m, rec[j].msg) \in 0..4
      /\ rec[j].msg = m => ContentScore(m, rec[j].msg) = 4
  BY <1>1, ContentScoreType
<1> QED  BY <1>2 DEF ExactScore, Bonus

-----------------------------------------------------------------------------
(* What Match answers.                                                     *)

\* A candidate that beats every other one is the answer.
LEMMA BestIsOnly ==
    ASSUME NEW kind, kind # "counting", NEW m, NEW done, NEW rec \in Seq(Request),
           NEW marks, NEW j \in Candidates(m, rec, marks),
           \A k \in Candidates(m, rec, marks) :
               Score(kind, m, NextPosition(done, m), rec, k) \in Int,
           \A k \in Candidates(m, rec, marks) \ {j} :
               Score(kind, m, NextPosition(done, m), rec, k)
                 < Score(kind, m, NextPosition(done, m), rec, j)
    PROVE  Match(kind, m, done, rec, marks) = j
<1> DEFINE i == NextPosition(done, m)
           candidates == Candidates(m, rec, marks)
           score == [k \in candidates |-> Score(kind, m, i, rec, k)]
<1>1. candidates \subseteq Nat
  BY StreamType DEF Candidates
<1>2. \A k \in candidates : score[k] \in Int
  OBVIOUS
<1>3. \A k \in candidates \ {j} : score[k] < score[j]
  OBVIOUS
<1>4. j \in candidates
  OBVIOUS
<1>5. BestMatches(kind, m, done, rec, marks)
        = {n \in candidates : \A k \in candidates :
              score[k] < score[n] \/ (score[k] = score[n] /\ n <= k)}
  BY DEF BestMatches
<1> HIDE DEF candidates, score
<1>6. ASSUME NEW n \in candidates,
             \A k \in candidates :
                 score[k] < score[n] \/ (score[k] = score[n] /\ n <= k)
      PROVE  n = j
  <2>1. n # j => ~(score[j] < score[n]) /\ score[j] # score[n]
    BY <1>2, <1>3, <1>4
  <2> QED  BY <1>4, <1>6, <2>1
<1>7. ASSUME NEW k \in candidates
      PROVE  score[k] < score[j] \/ (score[k] = score[j] /\ j <= k)
  <2>1. CASE k = j
    BY <1>1, <1>4, <2>1
  <2>2. CASE k # j
    BY <1>3, <2>2
  <2> QED  BY <2>1, <2>2
<1>8. BestMatches(kind, m, done, rec, marks) = {j}
  BY <1>4, <1>5, <1>6, <1>7
<1> QED  BY <1>8 DEF Match

\* An inside message finds the recorded request that is the same and at the
\* same position, if that is not marked, whatever else resembles it.
LEMMA MatchInPlace ==
    ASSUME NEW kind \in SearchKinds, NEW m \in Traffic, ~IsOutside(m),
           NEW done \in Seq(Request), NEW rec \in Seq(Request), NEW marks,
           NEW j \in DOMAIN rec \ marks, rec[j].msg = m,
           Position(rec, j) = NextPosition(done, m)
    PROVE  Match(kind, m, done, rec, marks) = j
<1> DEFINE i == NextPosition(done, m)
           stream == getStream(rec, m)
<1>1. j \in stream /\ j \notin marks /\ ~FromOutside(rec[j])
  BY DEF getStream, FromOutside
<1>2. \A k \in stream \ {j} : Position(rec, k) # i
  BY <1>1, PositionsDiffer
<1>3. CASE kind = "counting"
  <2>1. CountingMatches(m, done, rec, marks) = {j}
    BY <1>1, <1>2 DEF CountingMatches
  <2> QED  BY <1>3, <2>1 DEF Match
<1>4. i \in Nat
  BY StreamType
<1>5. Candidates(m, rec, marks) \subseteq stream /\ j \in Candidates(m, rec, marks)
  BY <1>1 DEF Candidates
<1>6. ASSUME NEW k \in stream \ {j} PROVE Distance(Position(rec, k), i) \in Nat \ {0}
  <2>1. Position(rec, k) \in Nat /\ Position(rec, k) # i
    BY <1>2, PositionType
  <2> QED  BY <1>4, <2>1, DistanceType
<1>7. Distance(Position(rec, j), i) = 0
  BY <1>4, DistanceType
<1> SUFFICES ASSUME kind \in {"heuristic", "exact", "mix"},
                    NEW k \in stream
             PROVE  /\ Score(kind, m, i, rec, k) \in Int
                    /\ k # j => Score(kind, m, i, rec, k) < Score(kind, m, i, rec, j)
  <2>1. kind = "counting" \/ kind \in {"heuristic", "exact", "mix"}
    BY DEF SearchKinds, Kinds
  <2> QED  BY <1>3, <1>5, <2>1, BestIsOnly
<1>8. CASE kind = "heuristic"
  <2>1. HeuristicScore(m, i, rec, j) = 20 * Cardinality(stream)
    <3>1. /\ HeuristicScore(m, i, rec, j)
                = 20 * Cardinality(stream) - 10 * Distance(Position(rec, j), i)
          /\ Cardinality(stream) \in Nat
      BY <1>1, <1>4, HeuristicScoreType
    <3> QED  BY <1>7, <3>1
  <2>2. /\ HeuristicScore(m, i, rec, k) \in Int /\ Cardinality(stream) \in Nat
        /\ HeuristicScore(m, i, rec, k)
             <= 20 * Cardinality(stream) - 10 * Distance(Position(rec, k), i)
    BY <1>4, HeuristicScoreType
  <2>3. k # j => HeuristicScore(m, i, rec, k) < HeuristicScore(m, i, rec, j)
    BY <1>6, <2>1, <2>2
  <2> QED  BY <1>8, <2>2, <2>3 DEF Score
<1>9. CASE kind = "exact"
  <2>1. ExactScore(m, i, rec, j) = 5
    BY <1>1, <1>4, ExactScoreType
  <2>2. ExactScore(m, i, rec, k) \in Int /\ (k # j => ExactScore(m, i, rec, k) < 5)
    BY <1>2, <1>4, ExactScoreType
  <2> QED  BY <1>9, <2>1, <2>2 DEF Score
<1>10. CASE kind = "mix"
  <2>1. MixScore(m, i, rec, j) = 4 * Cardinality(stream)
    <3>1. /\ MixScore(m, i, rec, j)
                = 4 * Cardinality(stream) - Distance(Position(rec, j), i)
          /\ Cardinality(stream) \in Nat
      BY <1>1, <1>4, MixScoreType
    <3> QED  BY <1>7, <3>1
  <2>2. /\ MixScore(m, i, rec, k) \in Int /\ Cardinality(stream) \in Nat
        /\ MixScore(m, i, rec, k)
             <= 4 * Cardinality(stream) - Distance(Position(rec, k), i)
    BY <1>4, MixScoreType
  <2>3. k # j => MixScore(m, i, rec, k) < MixScore(m, i, rec, j)
    BY <1>6, <2>1, <2>2
  <2> QED  BY <1>10, <2>2, <2>3 DEF Score
<1> QED  BY <1>8, <1>9, <1>10

\* The heuristic and the mix matcher find the one recorded request that is the
\* same, wherever it is: no distance outweighs the content.
LEMMA MatchUnique ==
    ASSUME NEW kind \in {"heuristic", "mix"}, NEW m \in Traffic, ~IsOutside(m),
           NEW done \in Seq(Request), NEW rec \in Seq(Request), NEW marks,
           NEW j \in DOMAIN rec \ marks,
           \A k \in DOMAIN rec : rec[k].msg = m <=> k = j
    PROVE  Match(kind, m, done, rec, marks) = j
<1> DEFINE i == NextPosition(done, m)
           stream == getStream(rec, m)
           f == Cardinality(stream)
           far(k) == Distance(Position(rec, k), i)
<1>1. j \in stream /\ j \in Candidates(m, rec, marks) /\ rec[j].msg = m
  BY DEF getStream, FromOutside, Candidates
<1>2. i \in Nat /\ f \in Nat
  BY StreamType, FS_CardinalityType
<1>3. \A k \in stream : /\ far(k) \in Nat
                        /\ far(j) < far(k) + f
  <2> SUFFICES ASSUME NEW k \in stream
               PROVE  far(k) \in Nat /\ far(j) < far(k) + f
    OBVIOUS
  <2>1. /\ Position(rec, k) \in Nat /\ Position(rec, k) < f
        /\ Position(rec, j) \in Nat /\ Position(rec, j) < f
    BY <1>1, PositionType
  <2> HIDE DEF i, f
  <2> QED  BY <1>2, <2>1, DistanceType
<1> SUFFICES ASSUME NEW k \in Candidates(m, rec, marks)
             PROVE  /\ Score(kind, m, i, rec, k) \in Int
                    /\ k # j => Score(kind, m, i, rec, k) < Score(kind, m, i, rec, j)
  BY <1>1, BestIsOnly
<1>4. k \in stream /\ rec[k].msg.Method = m.Method
  BY DEF Candidates
<1>5. k # j => rec[k].msg.To # m.To \/ rec[k].msg.Body # m.Body
  BY <1>4, StreamRequest, OtherMessage
<1>6. far(k) \in Nat /\ far(j) \in Nat /\ far(j) < far(k) + f
  BY <1>1, <1>3, <1>4
<1>7. CASE kind = "heuristic"
  <2>1. HeuristicScore(m, i, rec, j) = 20 * f - 10 * far(j)
    BY <1>1, <1>2, HeuristicScoreType
  <2>2. /\ HeuristicScore(m, i, rec, k) \in Int
        /\ k # j => HeuristicScore(m, i, rec, k) <= 10 * f - 10 * far(k)
    BY <1>2, <1>4, <1>5, HeuristicScoreType
  <2> HIDE DEF f, far
  <2>3. k # j => HeuristicScore(m, i, rec, k) < HeuristicScore(m, i, rec, j)
    BY <1>2, <1>6, <2>1, <2>2
  <2> QED  BY <1>7, <2>2, <2>3 DEF Score
<1>8. CASE kind = "mix"
  <2>1. MixScore(m, i, rec, j) = 4 * f - far(j)
    BY <1>1, <1>2, MixScoreType
  <2>2. /\ MixScore(m, i, rec, k) \in Int
        /\ k # j => MixScore(m, i, rec, k) <= 3 * f - far(k)
    BY <1>2, <1>4, <1>5, MixScoreType
  <2> HIDE DEF f, far
  <2>3. k # j => MixScore(m, i, rec, k) < MixScore(m, i, rec, j)
    BY <1>2, <1>6, <2>1, <2>2
  <2> QED  BY <1>8, <2>2, <2>3 DEF Score
<1> QED  BY <1>7, <1>8

=============================================================================
