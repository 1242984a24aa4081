---------------------------- MODULE RaftLogProofs ----------------------------
(***************************************************************************)
(* What a leader of Raft has counted as committed no later leader is       *)
(* without, for every size of the cluster and every bound.  The logs of a  *)
(* term's nodes consist of what leaders have sent; a node that votes makes *)
(* sure that the candidate has what the node has acknowledged; so the      *)
(* first leader without a committed entry would have the vote of a node    *)
(* that has acknowledged it.                                               *)
(***************************************************************************)
EXTENDS RaftProofs, NaturalsInduction, WellFoundedInduction

(***************************************************************************)
(* Logs.                                                                   *)
(***************************************************************************)
\* A set of numbers that is not empty has a least one.
LEMMA NatMin ==
  ASSUME NEW S \in SUBSET Nat, S # {}
  PROVE  \E x \in S : \A y \in S : x <= y
<1> DEFINE Less == OpToRel(<, Nat)
<1>1. IsWellFoundedOn(Less, Nat)
  BY NatLessThanWellFounded
<1>2. \A a, b \in Nat : a < b => <<a, b>> \in Less
  BY DEF OpToRel
<1> HIDE DEF Less
<1>3. PICK x \in S : \A y \in S : ~(<<y, x>> \in Less)
  BY <1>1, WFMin
<1>4. ASSUME NEW y \in S PROVE x <= y
  <2>1. x \in Nat /\ y \in Nat /\ ~(y < x)
    BY <1>2, <1>3
  <2> QED
    BY <2>1
<1> QED
  BY <1>4

\* Logs a and b have the same first k entries.
Agree(a, b, k) == k <= Len(a) /\ k <= Len(b) /\ \A j \in 1..k : a[j] = b[j]

LeaderLogs == [Terms -> Seq(Commanded)]

\* What the leaders' logs were: lead[t] is the log of the leader of term t, when
\* it was the last time the leader, and L are the terms that were led.
LeadersAgree(lead, L) ==
    \A t \in Terms :
        /\ lead[t] # <<>> => t \in L
        /\ \A i \in 1..Len(lead[t]) :
               /\ lead[t][i].Term <= t
               /\ Agree(lead[t], lead[lead[t][i].Term], i)
               /\ \A j \in 1..i : lead[t][j].Term <= lead[t][i].Term

\* A log of a node in this term consists of what leaders have sent.
LogFits(lead, log, term) ==
    \A i \in 1..Len(log) :
        /\ log[i].Term <= term
        /\ Agree(log, lead[log[i].Term], i)

\* The log has the first k entries of the leader of term t, or a leader since
\* then, up to term last, has not had them.
Kept(lead, L, log, t, k, last) ==
    \/ Agree(log, lead[t], k)
    \/ \E u \in L : t < u /\ u <= last /\ ~Agree(lead[u], lead[t], k)

\* A node in this term, with this log, has acknowledged so much to the leaders.
AcksKept(lead, L, acks, log, term) ==
    \A t \in Terms : \A k \in 1..acks[t] :
        k <= Len(lead[t]) /\ t <= term /\ Kept(lead, L, log, t, k, term)

\* A candidate for term new with this log has what a node has acknowledged so.
VoteSafe(lead, L, acks, log, new) ==
    \A t \in Terms : \A k \in 1..acks[t] :
        t < new /\ lead[t][k].Term = t => Kept(lead, L, log, t, k, new - 1)

\* What the leader of term t sends after the first k entries of its log does not
\* take from a node in this term, with this log, what that has of the leader's.
InStep(lead, log, term, t, k) ==
    /\ term < t => \A i \in 1..Len(lead[t]) : i > k => lead[t][i].Term = t
    /\ term = t => \A i \in 1..Len(lead[t]) : Agree(log, lead[t], i) => i <= k + 1

\* A leader only adds entries of its own term.
LeadGrows(lead, more, L) ==
    \A t \in Terms :
        /\ Len(lead[t]) <= Len(more[t])
        /\ \A i \in 1..Len(lead[t]) : more[t][i] = lead[t][i]
        /\ t \in L => \A i \in 1..Len(more[t]) : i > Len(lead[t]) => more[t][i].Term = t

LEMMA LogTypes ==
  ASSUME NEW log \in Seq(Commanded)
  PROVE  /\ Len(log) \in Nat
         /\ \A i \in 1..Len(log) : log[i].Term \in Terms /\ log[i].Term \in Nat
<1>1. Len(log) \in Nat /\ \A i \in 1..Len(log) : log[i] \in Commanded
  BY LenProperties, ElementOfSeq
<1>2. \A e \in Commanded : e.Term \in Terms
  BY DEF Commanded
<1> QED
  BY <1>1, <1>2, ConstantsAssumption DEF Terms

LEMMA AgreeLess ==
  ASSUME NEW a, NEW b, NEW k \in Int, NEW j \in Int, Agree(a, b, k), j <= k,
         Len(a) \in Nat, Len(b) \in Nat
  PROVE  Agree(a, b, j)
  BY DEF Agree

LEMMA AgreeWith ==
  ASSUME NEW a, NEW b, NEW c, NEW k, Agree(a, b, k), Agree(a, c, k) \/ Agree(c, a, k)
  PROVE  Agree(b, c, k) /\ Agree(c, b, k)
  BY DEF Agree

\* What agrees with the log of a leader still does when that has grown.
LEMMA AgreeGrows ==
  ASSUME NEW L, NEW lead \in LeaderLogs, NEW more \in LeaderLogs, LeadGrows(lead, more, L),
         NEW log, NEW t \in Terms, NEW k \in Nat, Agree(log, lead[t], k)
  PROVE  Agree(log, more[t], k)
<1>1. Len(lead[t]) \in Nat /\ Len(more[t]) \in Nat
  BY LogTypes DEF LeaderLogs
<1> QED
  BY <1>1 DEF Agree, LeadGrows

\* Who has not had an entry does not get it any more.
LEMMA DisagreeStays ==
  ASSUME NEW L, NEW lead \in LeaderLogs, NEW more \in LeaderLogs, LeadGrows(lead, more, L),
         LeadersAgree(lead, L), NEW t \in Terms, NEW u \in L, u \in Terms, t < u,
         NEW k \in 1..Len(lead[t]), ~Agree(lead[u], lead[t], k)
  PROVE  ~Agree(more[u], more[t], k)
<1>1. /\ Len(lead[t]) \in Nat /\ Len(more[t]) \in Nat
      /\ Len(lead[u]) \in Nat /\ Len(more[u]) \in Nat
      /\ t \in Int /\ u \in Int
  BY LogTypes, ConstantsAssumption DEF LeaderLogs, Terms
<1>2. k <= Len(more[t]) /\ k <= Len(lead[t]) /\ k \in Nat
  BY <1>1 DEF LeadGrows
<1>3. CASE k <= Len(lead[u])
  <2>1. PICK j \in 1..k : lead[u][j] # lead[t][j]
    BY <1>1, <1>2, <1>3 DEF Agree
  <2>2. more[u][j] = lead[u][j] /\ more[t][j] = lead[t][j]
    BY <1>1, <1>2, <1>3 DEF LeadGrows
  <2> QED
    BY <2>1, <2>2 DEF Agree
<1>4. CASE k > Len(lead[u])
  <2>1. more[t][k] = lead[t][k] /\ lead[t][k].Term <= t /\ lead[t][k].Term \in Nat
    BY <1>1, <1>2, LogTypes DEF LeadGrows, LeadersAgree, LeaderLogs
  <2>2. k <= Len(more[u]) => more[u][k].Term = u
    BY <1>1, <1>2, <1>4 DEF LeadGrows
  <2>3. k <= Len(more[u]) => more[u][k] # more[t][k]
    BY <1>1, <2>1, <2>2
  <2> QED
    BY <1>1, <1>2, <2>3 DEF Agree
<1> QED
  BY <1>1, <1>2, <1>3, <1>4

\* What is kept stays so when logs of leaders grow and more terms are led.
LEMMA KeptGrows ==
  ASSUME NEW L \in SUBSET Terms, NEW M, L \subseteq M, NEW lead \in LeaderLogs, NEW more \in LeaderLogs,
         LeadGrows(lead, more, L), LeadersAgree(lead, L), NEW t \in Terms, NEW k \in 1..Len(lead[t]),
         NEW last \in Int, NEW later \in Int, last <= later, NEW old, NEW log,
         Agree(old, lead[t], k) => Agree(log, more[t], k), Kept(lead, L, old, t, k, last)
  PROVE  Kept(more, M, log, t, k, later)
<1>1. CASE Agree(old, lead[t], k)
  BY <1>1 DEF Kept
<1>2. CASE ~Agree(old, lead[t], k)
  <2>1. PICK u \in L : t < u /\ u <= last /\ ~Agree(lead[u], lead[t], k)
    BY <1>2 DEF Kept
  <2>2. ~Agree(more[u], more[t], k)
    BY <2>1, DisagreeStays
  <2>3. u \in Int
    BY ConstantsAssumption DEF Terms
  <2> QED
    BY <2>1, <2>2, <2>3 DEF Kept
<1> QED
  BY <1>1, <1>2

LEMMA LogGrows ==
  ASSUME NEW L, NEW lead \in LeaderLogs, NEW more \in LeaderLogs, LeadGrows(lead, more, L),
         NEW log \in Seq(Commanded), NEW term, LogFits(lead, log, term)
  PROVE  LogFits(more, log, term)
<1> SUFFICES ASSUME NEW i \in 1..Len(log)
             PROVE  log[i].Term <= term /\ Agree(log, more[log[i].Term], i)
  BY DEF LogFits
<1>1. log[i].Term \in Terms /\ Len(log) \in Nat
  BY LogTypes
<1>2. log[i].Term <= term /\ Agree(log, lead[log[i].Term], i)
  BY DEF LogFits
<1>3. i \in Nat
  BY <1>1
<1> QED
  BY <1>1, <1>2, <1>3, AgreeGrows

\* What a node has acknowledged is still kept after a step that takes none of it.
LEMMA AcksGrow ==
  ASSUME NEW L \in SUBSET Terms, NEW M, L \subseteq M, NEW lead \in LeaderLogs, NEW more \in LeaderLogs,
         LeadGrows(lead, more, L), LeadersAgree(lead, L),
         NEW acks \in [Terms -> Nat], NEW acked \in [Terms -> Nat],
         NEW old, NEW log, NEW term \in Int, NEW later \in Int, term <= later,
         \A t \in Terms, k \in Nat : Agree(old, lead[t], k) => Agree(log, more[t], k),
         \A t \in Terms : \/ acked[t] = acks[t]
                          \/ t <= later /\ log = more[t] /\ acked[t] = Len(log),
         AcksKept(lead, L, acks, old, term)
  PROVE  AcksKept(more, M, acked, log, later)
<1> SUFFICES ASSUME NEW t \in Terms, NEW k \in 1..acked[t]
             PROVE  k <= Len(more[t]) /\ t <= later /\ Kept(more, M, log, t, k, later)
  BY DEF AcksKept
<1>0. /\ acks[t] \in Nat /\ acked[t] \in Nat /\ k \in Nat /\ t \in Int
      /\ Len(lead[t]) \in Nat /\ Len(more[t]) \in Nat
  BY LogTypes, ConstantsAssumption DEF LeaderLogs, Terms
<1>1. CASE acked[t] = acks[t]
  <2>1. k <= Len(lead[t]) /\ t <= term /\ Kept(lead, L, old, t, k, term)
    BY <1>1 DEF AcksKept
  <2>2. k <= Len(more[t]) /\ t <= later /\ k \in 1..Len(lead[t])
    BY <1>0, <2>1 DEF LeadGrows
  <2>3. Agree(old, lead[t], k) => Agree(log, more[t], k)
    BY <1>0
  <2> QED
    BY <2>1, <2>2, <2>3, KeptGrows
<1>2. CASE t <= later /\ log = more[t] /\ acked[t] = Len(log)
  BY <1>0, <1>2 DEF Kept, Agree
<1> QED
  BY <1>1, <1>2

\* A vote that was safe stays so: in older terms nothing more is acknowledged.
LEMMA VoteStays ==
  ASSUME NEW L \in SUBSET Terms, NEW M, L \subseteq M, NEW lead \in LeaderLogs, NEW more \in LeaderLogs,
         LeadGrows(lead, more, L), LeadersAgree(lead, L),
         NEW acks \in [Terms -> Nat], NEW acked \in [Terms -> Nat], NEW new \in Terms,
         \A t \in Terms : t < new => acked[t] = acks[t],
         \A t \in Terms : \A k \in 1..acks[t] : k <= Len(lead[t]),
         NEW old, NEW log,
         \A t \in Terms, k \in Nat : Agree(old, lead[t], k) => Agree(log, more[t], k),
         VoteSafe(lead, L, acks, old, new)
  PROVE  VoteSafe(more, M, acked, log, new)
<1> SUFFICES ASSUME NEW t \in Terms, NEW k \in 1..acked[t], t < new, more[t][k].Term = t
             PROVE  Kept(more, M, log, t, k, new - 1)
  BY DEF VoteSafe
<1>0. /\ acks[t] \in Nat /\ acked[t] = acks[t] /\ k \in Nat /\ new - 1 \in Int
      /\ Len(lead[t]) \in Nat
  BY LogTypes, ConstantsAssumption DEF LeaderLogs, Terms
<1>1. k \in 1..Len(lead[t]) /\ k \in 1..acks[t]
  BY <1>0
<1>2. lead[t][k].Term = t
  BY <1>1 DEF LeadGrows
<1>3. Kept(lead, L, old, t, k, new - 1)
  BY <1>1, <1>2 DEF VoteSafe
<1>4. Agree(old, lead[t], k) => Agree(log, more[t], k)
  BY <1>0
<1>5. new - 1 <= new - 1
  BY <1>0
<1> QED
  BY <1>0, <1>1, <1>3, <1>4, <1>5, KeptGrows

\* The comparison of the last entries makes a vote safe: a candidate whose log is
\* up to date has what the voter has acknowledged, or some leader since has not.
LEMMA VoteDecision ==
  ASSUME NEW L \in SUBSET Terms, NEW lead \in LeaderLogs, LeadersAgree(lead, L),
         NEW own \in Seq(Commanded), NEW term \in Terms, LogFits(lead, own, term),
         NEW acks \in [Terms -> Nat], AcksKept(lead, L, acks, own, term),
         NEW new \in Terms \ L, term <= new,
         NEW log \in Seq(Commanded), LogFits(lead, log, new),
         \/ LastLogTerm(own) < LastLogTerm(log)
         \/ LastLogTerm(own) = LastLogTerm(log) /\ Len(own) <= Len(log)
  PROVE  VoteSafe(lead, L, acks, log, new)
<1> SUFFICES ASSUME NEW t \in Terms, NEW k \in 1..acks[t], t < new, lead[t][k].Term = t
             PROVE  Kept(lead, L, log, t, k, new - 1)
  BY DEF VoteSafe
<1>0. /\ t \in Nat /\ term \in Nat /\ new \in Nat /\ k \in Nat /\ k >= 1
      /\ \A u \in L : u \in Nat /\ u # new
      /\ Len(own) \in Nat /\ Len(log) \in Nat
  BY LogTypes, ConstantsAssumption DEF Terms
<1>1. Kept(lead, L, own, t, k, term)
  BY DEF AcksKept
<1>2. CASE \E u \in L : t < u /\ u <= term /\ ~Agree(lead[u], lead[t], k)
  <2>1. PICK u \in L : t < u /\ u <= term /\ ~Agree(lead[u], lead[t], k)
    BY <1>2
  <2>2. u <= new - 1
    BY <1>0, <2>1
  <2> QED
    BY <2>1, <2>2 DEF Kept
<1>3. CASE Agree(own, lead[t], k)
  <2> DEFINE a == Len(own)
             b == Len(log)
             s == own[a].Term
             u == log[b].Term
  <2>1. k <= a /\ own[k].Term = t /\ a \in 1..Len(own) /\ LastLogTerm(own) = s
    <3>1. k <= a /\ own[k] = lead[t][k]
      BY <1>0, <1>3 DEF Agree
    <3>2. own # <<>>
      BY <1>0, <3>1, EmptySeq
    <3> QED
      BY <1>0, <3>1, <3>2 DEF LastLogTerm
  <2>2. s \in Terms /\ s \in Nat /\ Agree(own, lead[s], a)
    BY <2>1, LogTypes DEF LogFits
  <2>3. t <= s
    <3>1. own[a] = lead[s][a] /\ own[k] = lead[s][k] /\ a \in 1..Len(lead[s]) /\ k \in 1..a
      BY <1>0, <2>1, <2>2 DEF Agree
    <3>2. lead[s][k].Term <= lead[s][a].Term
      BY <2>2, <3>1 DEF LeadersAgree
    <3> QED
      BY <2>1, <3>1, <3>2
  <2>4. b \in 1..Len(log) /\ LastLogTerm(log) = u
    <3>1. log # <<>>
      <4> SUFFICES ASSUME log = <<>> PROVE FALSE
        OBVIOUS
      <4>1. LastLogTerm(log) = 0 /\ Len(log) = 0
        BY EmptySeq DEF LastLogTerm
      <4> QED
        BY <1>0, <2>1, <2>2, <4>1
    <3> QED
      BY <1>0, <3>1, EmptySeq DEF LastLogTerm
  <2>5. /\ u \in Terms /\ u \in Nat /\ Agree(log, lead[u], b) /\ u <= new
    BY <2>4, LogTypes DEF LogFits
  <2>6. s <= u /\ (s = u => a <= b)
    BY <1>0, <2>1, <2>2, <2>4, <2>5
  <2>a. a = Len(own) /\ b = Len(log) /\ log[b].Term = u
    OBVIOUS
  <2> HIDE DEF a, b, s, u
  <2>7. Len(lead[u]) \in Nat /\ log[b] = lead[u][b] /\ b \in 1..Len(lead[u])
    <3>1. Len(lead[u]) \in Nat
      BY <2>5, LogTypes DEF LeaderLogs
    <3> QED
      BY <1>0, <2>4, <2>5, <2>a, <3>1 DEF Agree
  <2>8. u \in L /\ u <= new - 1
    <3>1. lead[u] # <<>>
      BY <2>7, EmptySeq
    <3>2. u \in L
      BY <2>5, <3>1 DEF LeadersAgree
    <3> QED
      BY <1>0, <2>5, <3>2
  <2>9. CASE u = t
    <3>1. k <= b
      BY <1>0, <2>1, <2>2, <2>3, <2>5, <2>6, <2>9, <2>4, <2>a
    <3>2. Agree(log, lead[t], k)
      BY <1>0, <2>5, <2>7, <2>9, <3>1, <2>a, AgreeLess
    <3> QED
      BY <3>2 DEF Kept
  <2>10. CASE u # t /\ ~Agree(lead[u], lead[t], k)
    <3>1. t < u
      BY <1>0, <2>2, <2>3, <2>5, <2>6, <2>10
    <3> QED
      BY <2>8, <2>10, <3>1 DEF Kept
  <2>11. CASE u # t /\ Agree(lead[u], lead[t], k)
    <3>1. t < u
      BY <1>0, <2>2, <2>3, <2>5, <2>6, <2>11
    <3>2. lead[u][k].Term = t /\ k \in 1..Len(lead[u]) /\ lead[u][b].Term = u
      BY <1>0, <2>7, <2>11, <2>a DEF Agree
    <3>3. k <= b
      <4>1. b <= k => lead[u][b].Term <= lead[u][k].Term
        BY <2>5, <2>7, <3>2 DEF LeadersAgree
      <4> QED
        BY <1>0, <2>5, <2>7, <3>1, <3>2, <4>1
    <3>4. Agree(log, lead[u], k)
      BY <1>0, <2>5, <2>7, <3>3, <2>a, AgreeLess
    <3>5. Agree(log, lead[t], k)
      BY <2>11, <3>4, AgreeWith
    <3> QED
      BY <3>5 DEF Kept
  <2> QED
    BY <2>9, <2>10, <2>11
<1> QED
  BY <1>1, <1>2, <1>3 DEF Kept

\* What a majority has acknowledged, of its leader's own term, every later leader
\* has: else take the first one that has not, and a node that is in both majorities.
LEMMA LedHave ==
  ASSUME NEW L \in SUBSET Terms, NEW lead \in LeaderLogs, NEW ack \in [Server -> [Terms -> Nat]],
         NEW t \in Terms, NEW k \in Nat \ {0}, lead[t][k].Term = t,
         NEW Q, IsQuorum(Q), \A r \in Q : k <= ack[r][t],
         \A u \in L : u # 0 => \E R : IsQuorum(R) /\ \A r \in R : VoteSafe(lead, L, ack[r], lead[u], u)
  PROVE  \A u \in L : t < u => Agree(lead[u], lead[t], k)
<1> DEFINE Without == {u \in L : t < u /\ ~Agree(lead[u], lead[t], k)}
<1>0. t \in Nat /\ \A u \in L : u \in Nat
  BY ConstantsAssumption DEF Terms
<1> SUFFICES ASSUME Without # {} PROVE FALSE
  OBVIOUS
<1>1. Without \in SUBSET Nat
  BY <1>0
<1>2. PICK u \in Without : \A v \in Without : u <= v
  BY <1>1, NatMin
<1>3. u # 0 /\ u \in L /\ u \in Nat /\ t < u
  BY <1>0, <1>2
<1>4. PICK R : IsQuorum(R) /\ \A r \in R : VoteSafe(lead, L, ack[r], lead[u], u)
  BY <1>3
<1>5. PICK r \in R : r \in Q
  BY <1>4, QuorumsMeet
<1>6. k \in 1..ack[r][t]
  BY <1>5 DEF IsQuorum
<1>7. Kept(lead, L, lead[u], t, k, u - 1)
  BY <1>3, <1>4, <1>5, <1>6 DEF VoteSafe
<1>8. PICK v \in L : t < v /\ v <= u - 1 /\ ~Agree(lead[v], lead[t], k)
  BY <1>2, <1>7 DEF Kept
<1>9. v \in Without /\ v \in Nat
  BY <1>0, <1>8
<1> QED
  BY <1>2, <1>3, <1>8, <1>9

\* A step of a node that keeps its log, or goes to another term, takes nothing from
\* what it has of the leader's log.
LEMMA InStepStays ==
  ASSUME NEW lead \in LeaderLogs, NEW more \in LeaderLogs, NEW t \in Terms, more[t] = lead[t],
         NEW old \in Seq(Commanded), NEW log, NEW term \in Terms, NEW later \in Terms, term <= later,
         LogFits(lead, old, term), log = old \/ later # t,
         NEW k \in Int, InStep(lead, old, term, t, k)
  PROVE  InStep(more, log, later, t, k)
<1>0. /\ t \in Nat /\ term \in Nat /\ later \in Nat /\ Len(lead[t]) \in Nat /\ Len(old) \in Nat
      /\ \A i \in 1..Len(old) : old[i].Term \in Nat
  BY LogTypes, ConstantsAssumption DEF LeaderLogs, Terms
<1>1. later < t => \A i \in 1..Len(more[t]) : i > k => more[t][i].Term = t
  BY <1>0 DEF InStep
<1>2. ASSUME later = t, NEW i \in 1..Len(more[t]), Agree(log, more[t], i)
      PROVE  i <= k + 1
  <2>1. Agree(old, lead[t], i) /\ i \in 1..Len(lead[t])
    BY <1>2
  <2>2. CASE term = t
    BY <2>1, <2>2 DEF InStep
  <2>3. CASE term < t
    <3>1. i \in 1..Len(old) /\ old[i] = lead[t][i]
      BY <1>0, <2>1 DEF Agree
    <3>2. old[i].Term <= term
      BY <3>1 DEF LogFits
    <3>3. ~(i > k)
      BY <1>0, <2>1, <2>3, <3>1, <3>2 DEF InStep
    <3> QED
      BY <1>0, <3>3
  <2> QED
    BY <1>0, <1>2, <2>2, <2>3
<1> QED
  BY <1>1, <1>2 DEF InStep

LEMMA InStepNext ==
  ASSUME NEW lead \in LeaderLogs, NEW log, NEW term, NEW t \in Terms, NEW k \in Int,
         InStep(lead, log, term, t, k)
  PROVE  InStep(lead, log, term, t, k + 1)
<1>1. Len(lead[t]) \in Nat
  BY LogTypes DEF LeaderLogs
<1> QED
  BY <1>1 DEF InStep

\* The entries that follow the first k of a log, as broadcastEntry sends them.
After(log, k) == SubSeq(log, k + 1, IF k < Len(log) THEN k + 1 ELSE k)

LEMMA AfterEntry ==
  ASSUME NEW log \in Seq(Commanded), NEW k \in 0..Len(log)
  PROVE  /\ After(log, k) \in Seq(Commanded)
         /\ Len(After(log, k)) = IF k < Len(log) THEN 1 ELSE 0
         /\ k < Len(log) => After(log, k)[1] = log[k + 1]
<1>1. CASE k < Len(log)
  <2>1. Len(log) \in Nat
    BY LogTypes
  <2>2. \A i \in k + 1..k + 1 : log[i] \in Commanded
    BY <1>1, <2>1, ElementOfSeq
  <2>3. /\ SubSeq(log, k + 1, k + 1) \in Seq(Commanded)
        /\ Len(SubSeq(log, k + 1, k + 1)) = IF k + 1 <= k + 1 THEN k + 1 - (k + 1) + 1 ELSE 0
        /\ \A i \in 1..(k + 1 - (k + 1) + 1) : SubSeq(log, k + 1, k + 1)[i] = log[k + 1 + i - 1]
    BY <1>1, <2>1, <2>2, SubSeqProperties
  <2>4. 1 \in 1..(k + 1 - (k + 1) + 1) /\ k + 1 + 1 - 1 = k + 1 /\ k + 1 - (k + 1) + 1 = 1
    BY <2>1
  <2> QED
    BY <1>1, <2>3, <2>4 DEF After
<1>2. CASE ~(k < Len(log))
  <2>1. Len(log) \in Nat
    BY LogTypes
  <2>2. SubSeq(log, k + 1, k) = <<>>
    BY <2>1, SubSeqEmpty
  <2> QED
    BY <1>2, <2>2, EmptySeq DEF After
<1> QED
  BY <1>1, <1>2

\* A log that is cut to its first k entries and gets these entries.
LEMMA CutAndAdd ==
  ASSUME NEW log \in Seq(Commanded), NEW k \in 0..Len(log), NEW entries \in Seq(Commanded)
  PROVE  /\ SubSeq(log, 1, k) \o entries \in Seq(Commanded)
         /\ Len(SubSeq(log, 1, k) \o entries) = k + Len(entries)
         /\ \A j \in 1..k : (SubSeq(log, 1, k) \o entries)[j] = log[j]
         /\ \A j \in 1..Len(entries) : (SubSeq(log, 1, k) \o entries)[k + j] = entries[j]
<1>0. Len(log) \in Nat /\ Len(entries) \in Nat
  BY LogTypes
<1>1. \A i \in 1..k : log[i] \in Commanded
  BY <1>0, ElementOfSeq
<1>2. /\ SubSeq(log, 1, k) \in Seq(Commanded)
      /\ Len(SubSeq(log, 1, k)) = k
      /\ \A i \in 1..k : SubSeq(log, 1, k)[i] = log[i]
  BY <1>0, <1>1, SubSeqProperties
<1> DEFINE front == SubSeq(log, 1, k)
<1> HIDE DEF front
<1>3. /\ front \o entries \in Seq(Commanded)
      /\ Len(front \o entries) = Len(front) + Len(entries)
      /\ \A i \in 1..Len(front) + Len(entries) :
             (front \o entries)[i] = IF i <= Len(front) THEN front[i] ELSE entries[i - Len(front)]
  BY <1>2, ConcatProperties DEF front
<1>4. Len(front) = k /\ \A i \in 1..k : front[i] = log[i]
  BY <1>2 DEF front
<1>5. \A j \in 1..k : (front \o entries)[j] = log[j]
  BY <1>0, <1>3, <1>4
<1>6. \A j \in 1..Len(entries) : (front \o entries)[k + j] = entries[j]
  BY <1>0, <1>3, <1>4
<1> QED
  BY <1>3, <1>4, <1>5, <1>6 DEF front

\* Node with this log and term takes what the leader of term t sends after its
\* first k entries.
Accepting(lead, L, t, old, term, acks, k, log, acked) ==
    /\ L \in SUBSET Terms /\ lead \in LeaderLogs /\ LeadersAgree(lead, L) /\ t \in L
    /\ old \in Seq(Commanded) /\ term \in Terms /\ term <= t /\ LogFits(lead, old, term)
    /\ acks \in [Terms -> Nat] /\ AcksKept(lead, L, acks, old, term)
    /\ k \in 0..Len(lead[t])
    /\ k > 0 => k <= Len(old) /\ old[k].Term = lead[t][k].Term
    /\ InStep(lead, old, term, t, k)
    /\ log = SubSeq(old, 1, k) \o After(lead[t], k)
    /\ acked \in [Terms -> Nat] /\ \A s \in Terms : s # t => acked[s] = acks[s]
    /\ acked[t] = acks[t] \/ acked[t] = Len(log)

\* A node that accepts an entry has a log that fits, and still has all that it has
\* acknowledged: what it cuts off is not of the leader of its term.
LEMMA Accepts ==
  ASSUME NEW L, NEW lead, NEW t, NEW old, NEW term, NEW acks, NEW k, NEW log, NEW acked,
         Accepting(lead, L, t, old, term, acks, k, log, acked)
  PROVE  /\ log \in Seq(Commanded)
         /\ Len(log) = IF k < Len(lead[t]) THEN k + 1 ELSE k
         /\ LogFits(lead, log, t) /\ InStep(lead, log, t, t, k)
         /\ AcksKept(lead, L, acked, log, t)
<1> SUFFICES ASSUME L \in SUBSET Terms, lead \in LeaderLogs, LeadersAgree(lead, L), t \in L,
                    old \in Seq(Commanded), term \in Terms, term <= t, LogFits(lead, old, term),
                    acks \in [Terms -> Nat], AcksKept(lead, L, acks, old, term),
                    k \in 0..Len(lead[t]),
                    k > 0 => k <= Len(old) /\ old[k].Term = lead[t][k].Term,
                    InStep(lead, old, term, t, k),
                    log = SubSeq(old, 1, k) \o After(lead[t], k),
                    acked \in [Terms -> Nat], \A s \in Terms : s # t => acked[s] = acks[s],
                    acked[t] = acks[t] \/ acked[t] = Len(log)
             PROVE  /\ log \in Seq(Commanded)
                    /\ Len(log) = IF k < Len(lead[t]) THEN k + 1 ELSE k
                    /\ LogFits(lead, log, t) /\ InStep(lead, log, t, t, k)
                    /\ AcksKept(lead, L, acked, log, t)
  BY DEF Accepting
<1>0. /\ t \in Terms /\ t \in Nat /\ term \in Nat /\ lead[t] \in Seq(Commanded)
      /\ \A s \in Terms : s \in Nat /\ Len(lead[s]) \in Nat
      /\ Len(lead[t]) \in Nat /\ Len(old) \in Nat /\ k \in Nat
  <2>1. \A s \in Terms : s \in Nat
    BY ConstantsAssumption DEF Terms
  <2>2. \A s \in Terms : lead[s] \in Seq(Commanded)
    BY DEF LeaderLogs
  <2>3. \A s \in Terms : Len(lead[s]) \in Nat
    BY <2>2, LogTypes
  <2>4. Len(old) \in Nat
    BY LogTypes
  <2>5. t \in Terms /\ k \in Nat
    BY <2>3
  <2> QED
    BY <2>1, <2>2, <2>3, <2>4, <2>5
<1>1. /\ log \in Seq(Commanded)
      /\ Len(log) = IF k < Len(lead[t]) THEN k + 1 ELSE k
      /\ \A j \in 1..k : log[j] = old[j]
      /\ k < Len(lead[t]) => log[k + 1] = lead[t][k + 1]
  <2>1. /\ After(lead[t], k) \in Seq(Commanded)
        /\ Len(After(lead[t], k)) = IF k < Len(lead[t]) THEN 1 ELSE 0
        /\ k < Len(lead[t]) => After(lead[t], k)[1] = lead[t][k + 1]
    BY <1>0, AfterEntry
  <2>2. k \in 0..Len(old)
    BY <1>0
  <2> DEFINE entries == After(lead[t], k)
  <2> HIDE DEF entries
  <2>3. /\ log \in Seq(Commanded)
        /\ Len(log) = k + Len(entries)
        /\ \A j \in 1..k : log[j] = old[j]
        /\ \A j \in 1..Len(entries) : log[k + j] = entries[j]
    BY <2>1, <2>2, CutAndAdd DEF entries
  <2>4. Len(entries) = IF k < Len(lead[t]) THEN 1 ELSE 0
    BY <2>1 DEF entries
  <2>5. ASSUME k < Len(lead[t]) PROVE log[k + 1] = lead[t][k + 1]
    <3>1. 1 \in 1..Len(entries) /\ entries[1] = lead[t][k + 1]
      BY <2>1, <2>5 DEF entries
    <3> QED
      BY <2>3, <3>1
  <2> QED
    BY <1>0, <2>3, <2>4, <2>5
<1>2. Agree(old, lead[t], k)
  <2>1. CASE k = 0
    BY <1>0, <2>1 DEF Agree
  <2>2. CASE k > 0
    <3> DEFINE s == lead[t][k].Term
    <3>1. s = old[k].Term /\ k \in 1..Len(old) /\ k \in 1..Len(lead[t])
      BY <1>0, <2>2
    <3>2. Agree(old, lead[s], k)
      BY <3>1 DEF LogFits
    <3>3. Agree(lead[t], lead[s], k)
      BY <1>0, <3>1 DEF LeadersAgree
    <3> HIDE DEF s
    <3> QED
      BY <3>2, <3>3 DEF Agree
  <2> QED
    BY <1>0, <2>1, <2>2
<1>3. Agree(log, lead[t], Len(log))
  <2>1. Len(log) \in Nat /\ Len(log) <= Len(lead[t])
    BY <1>0, <1>1
  <2>2. \A j \in 1..k : log[j] = lead[t][j]
    BY <1>1, <1>2 DEF Agree
  <2>3. ASSUME NEW j \in 1..Len(log) PROVE log[j] = lead[t][j]
    <3>1. j \in 1..k \/ (j = k + 1 /\ k < Len(lead[t]))
      BY <1>0, <1>1
    <3> QED
      BY <1>1, <2>2, <3>1
  <2> QED
    BY <2>1, <2>3 DEF Agree
<1>4. \A j \in 0..Len(log) : Agree(log, lead[t], j)
  BY <1>0, <1>1, <1>3, AgreeLess
<1>5. LogFits(lead, log, t)
  <2> SUFFICES ASSUME NEW i \in 1..Len(log)
               PROVE  log[i].Term <= t /\ Agree(log, lead[log[i].Term], i)
    BY DEF LogFits
  <2>1. i \in 1..Len(lead[t]) /\ log[i] = lead[t][i] /\ Agree(log, lead[t], i)
    BY <1>0, <1>1, <1>3, <1>4 DEF Agree
  <2>2. lead[t][i].Term <= t /\ Agree(lead[t], lead[lead[t][i].Term], i)
    BY <1>0, <2>1 DEF LeadersAgree
  <2> DEFINE s == lead[t][i].Term
  <2>3. log[i].Term = s /\ s <= t /\ Agree(lead[t], lead[s], i)
    BY <2>1, <2>2
  <2> HIDE DEF s
  <2>4. Agree(log, lead[s], i)
    BY <2>1, <2>3, AgreeWith
  <2> QED
    BY <2>3, <2>4
<1>6. InStep(lead, log, t, t, k)
  BY <1>0, <1>1 DEF InStep, Agree
<1>7. AcksKept(lead, L, acked, log, t)
  <2> SUFFICES ASSUME NEW s \in Terms, NEW j \in 1..acked[s]
               PROVE  j <= Len(lead[s]) /\ s <= t /\ Kept(lead, L, log, s, j, t)
    BY DEF AcksKept
  <2>0. j \in Nat /\ s \in Nat /\ acked[s] \in Nat /\ acks[s] \in Nat
    BY <1>0
  <2>1. CASE s = t /\ j <= Len(log)
    BY <1>0, <1>1, <1>4, <2>0, <2>1 DEF Kept
  <2>2. CASE ~(s = t /\ j <= Len(log))
    <3>1. j \in 1..acks[s]
      <4>1. CASE s # t
        BY <4>1
      <4>2. CASE s = t
        <5>1. Len(log) \in Nat /\ ~(j <= Len(log)) /\ j <= acked[t]
          BY <1>0, <1>1, <2>0, <2>2, <4>2
        <5>2. acked[t] = acks[t]
          BY <2>0, <5>1
        <5> QED
          BY <2>0, <4>2, <5>2
      <4> QED
        BY <4>1, <4>2
    <3>2. j <= Len(lead[s]) /\ s <= term /\ Kept(lead, L, old, s, j, term)
      BY <3>1 DEF AcksKept
    <3>3. CASE ~Agree(old, lead[s], j)
      <4>1. PICK u \in L : s < u /\ u <= term /\ ~Agree(lead[u], lead[s], j)
        BY <3>2, <3>3 DEF Kept
      <4>2. u <= t /\ s <= t
        <5>1. u \in Nat
          BY <1>0, <4>1
        <5> QED
          BY <1>0, <2>0, <3>2, <4>1, <5>1
      <4> QED
        BY <3>2, <4>1, <4>2 DEF Kept
    <3>4. CASE Agree(old, lead[s], j) /\ ~Agree(lead[t], lead[s], j)
      <4>1. s # t
        BY <1>0, <2>0, <3>2, <3>4 DEF Agree
      <4> QED
        BY <1>0, <2>0, <3>2, <3>4, <4>1 DEF Kept
    <3>5. CASE Agree(old, lead[s], j) /\ Agree(lead[t], lead[s], j)
      <4>1. j \in 1..Len(lead[t]) /\ j \in 1..Len(lead[s]) /\ lead[t][j] = lead[s][j]
        BY <1>0, <2>0, <3>2, <3>5 DEF Agree
      <4>2. Agree(old, lead[t], j)
        BY <3>5 DEF Agree
      <4>3. j <= Len(log)
        <5>1. CASE term = t
          <6>1. j <= k + 1
            BY <4>1, <4>2, <5>1 DEF InStep
          <6> QED
            BY <1>0, <1>1, <2>0, <4>1, <6>1
        <5>2. CASE term < t
          <6>1. lead[s][j].Term <= s
            BY <4>1 DEF LeadersAgree
          <6>2. j > k => lead[t][j].Term = t
            BY <4>1, <5>2 DEF InStep
          <6>3. ~(j > k)
            BY <1>0, <2>0, <3>2, <4>1, <5>2, <6>1, <6>2
          <6> QED
            BY <1>0, <1>1, <2>0, <6>3
        <5> QED
          BY <1>0, <5>1, <5>2
      <4>4. Agree(log, lead[t], j)
        BY <1>0, <1>4, <2>0, <4>3
      <4>5. Agree(log, lead[s], j)
        BY <3>5, <4>4, AgreeWith
      <4> QED
        BY <1>0, <2>0, <3>2, <4>5 DEF Kept
    <3> QED
      BY <3>3, <3>4, <3>5
  <2> QED
    BY <2>1, <2>2
<1> QED
  BY <1>1, <1>5, <1>6, <1>7

\* The log of a new leader is as the logs of the leaders are.
LEMMA WinnersLog ==
  ASSUME NEW L \in SUBSET Terms, NEW lead \in LeaderLogs, LeadersAgree(lead, L),
         NEW t \in Terms \ L, NEW log \in Seq(Commanded), LogFits(lead, log, t),
         NEW more \in LeaderLogs, more[t] = log, \A s \in Terms : s # t => more[s] = lead[s],
         NEW M, t \in M, L \subseteq M
  PROVE  LeadersAgree(more, M) /\ LeadGrows(lead, more, L)
<1>0. /\ \A s \in Terms : s \in Nat /\ Len(lead[s]) \in Nat /\ Len(more[s]) \in Nat
      /\ Len(log) \in Nat /\ lead[t] = <<>> /\ Len(lead[t]) = 0
  BY LogTypes, EmptySeq, ConstantsAssumption DEF LeaderLogs, Terms, LeadersAgree
<1>1. LeadGrows(lead, more, L)
  BY <1>0 DEF LeadGrows
<1>2. ASSUME NEW s \in Terms, NEW i \in 1..Len(more[s])
      PROVE  /\ s \in M
             /\ more[s][i].Term <= s
             /\ Agree(more[s], more[more[s][i].Term], i)
             /\ \A j \in 1..i : more[s][j].Term <= more[s][i].Term
  <2>1. CASE s = t
    <3> DEFINE u == log[i].Term
    <3>0. i \in 1..Len(log) /\ i \in Nat /\ more[s] = log
      BY <1>0, <2>1
    <3>1. u <= t /\ u \in Terms /\ Agree(log, lead[u], i)
      BY <3>0, LogTypes DEF LogFits
    <3>2. u # t
      BY <1>0, <3>0, <3>1 DEF Agree
    <3>3. \A j \in 1..i : log[j].Term <= log[i].Term
      <4>1. i \in 1..Len(lead[u]) /\ \A j \in 1..i : log[j] = lead[u][j]
        BY <1>0, <3>0, <3>1 DEF Agree
      <4>2. \A j \in 1..i : lead[u][j].Term <= lead[u][i].Term
        BY <3>1, <4>1 DEF LeadersAgree
      <4>3. i \in 1..i
        BY <3>0
      <4> QED
        BY <4>1, <4>2, <4>3
    <3>4. more[u] = lead[u]
      BY <3>1, <3>2
    <3> QED
      BY <2>1, <3>0, <3>1, <3>3, <3>4
  <2>2. CASE s # t
    <3> DEFINE u == lead[s][i].Term
    <3>0. more[s] = lead[s] /\ i \in 1..Len(lead[s]) /\ i \in Nat
      BY <1>0, <2>2
    <3>1. /\ u <= s /\ Agree(lead[s], lead[u], i)
          /\ \A j \in 1..i : lead[s][j].Term <= lead[s][i].Term
      BY <3>0 DEF LeadersAgree
    <3>2. u \in Terms
      BY <3>0, LogTypes DEF LeaderLogs
    <3>3. u # t
      BY <1>0, <3>0, <3>1 DEF Agree
    <3>4. lead[s] # <<>>
      BY <3>0, EmptySeq
    <3>5. s \in M
      BY <3>4 DEF LeadersAgree
    <3>6. more[u] = lead[u]
      BY <3>2, <3>3
    <3> QED
      BY <3>0, <3>1, <3>5, <3>6
  <2> QED
    BY <2>1, <2>2
<1>3. ASSUME NEW s \in Terms, more[s] # <<>> PROVE s \in M
  <2>1. more[s] \in Seq(Commanded)
    BY DEF LeaderLogs
  <2>2. 1 \in 1..Len(more[s])
    BY <1>3, <2>1, EmptySeq
  <2> QED
    BY <1>2, <2>2
<1> QED
  BY <1>1, <1>2, <1>3 DEF LeadersAgree

\* So is the log of a leader that adds an entry of its term.
LEMMA LeaderAdds ==
  ASSUME NEW L \in SUBSET Terms, NEW lead \in LeaderLogs, LeadersAgree(lead, L),
         NEW t \in L, NEW e \in Commanded, e.Term = t,
         NEW more \in LeaderLogs, more[t] = Append(lead[t], e),
         \A s \in Terms : s # t => more[s] = lead[s]
  PROVE  LeadersAgree(more, L) /\ LeadGrows(lead, more, L)
<1>0. /\ \A s \in Terms : s \in Nat /\ Len(lead[s]) \in Nat /\ Len(more[s]) \in Nat
      /\ t \in Terms
  BY LogTypes, ConstantsAssumption DEF LeaderLogs, Terms
<1>1. /\ Len(more[t]) = Len(lead[t]) + 1 /\ more[t][Len(lead[t]) + 1] = e
      /\ \A i \in 1..Len(lead[t]) : more[t][i] = lead[t][i]
  BY <1>0, AppendProperties DEF LeaderLogs
<1>2. LeadGrows(lead, more, L)
  <2>1. ASSUME NEW s \in Terms
        PROVE  /\ Len(lead[s]) <= Len(more[s])
               /\ \A i \in 1..Len(lead[s]) : more[s][i] = lead[s][i]
               /\ s \in L => \A i \in 1..Len(more[s]) : i > Len(lead[s]) => more[s][i].Term = s
    <3>1. CASE s = t
      BY <1>0, <1>1, <3>1
    <3>2. CASE s # t
      BY <1>0, <3>2
    <3> QED
      BY <3>1, <3>2
  <2> QED
    BY <2>1 DEF LeadGrows
<1>3. ASSUME NEW s \in Terms, NEW i \in 1..Len(lead[s])
      PROVE  /\ more[s][i].Term <= s
             /\ Agree(more[s], more[more[s][i].Term], i)
             /\ \A j \in 1..i : more[s][j].Term <= more[s][i].Term
  <2> DEFINE u == lead[s][i].Term
  <2>1. /\ u <= s /\ Agree(lead[s], lead[u], i)
        /\ \A j \in 1..i : lead[s][j].Term <= u
    BY DEF LeadersAgree
  <2>2. u \in Terms
    BY LogTypes DEF LeaderLogs
  <2>3. \A j \in 1..i : more[s][j] = lead[s][j]
    BY <1>0, <1>2 DEF LeadGrows
  <2>4. i \in 1..i /\ i \in Nat /\ more[s][i].Term = u
    BY <1>0, <2>3
  <2> HIDE DEF u
  <2>5. Agree(lead[s], more[u], i)
    BY <1>2, <2>1, <2>2, <2>4, AgreeGrows
  <2>6. Agree(more[s], lead[s], i)
    BY <1>0, <1>2, <2>3 DEF Agree, LeadGrows
  <2>7. Agree(more[s], more[u], i)
    BY <2>5, <2>6, AgreeWith
  <2> QED
    BY <2>1, <2>3, <2>4, <2>7
<1>4. ASSUME NEW i \in 1..Len(more[t]), i \notin 1..Len(lead[t])
      PROVE  /\ more[t][i].Term <= t
             /\ Agree(more[t], more[more[t][i].Term], i)
             /\ \A j \in 1..i : more[t][j].Term <= more[t][i].Term
  <2>1. i = Len(lead[t]) + 1 /\ more[t][i] = e
    BY <1>0, <1>1, <1>4
  <2>2. more[t][i].Term = t /\ t <= t
    BY <1>0, <2>1
  <2>3. \A j \in 1..i : more[t][j].Term <= t
    <3>1. \A j \in 1..Len(lead[t]) : more[t][j].Term <= t
      BY <1>0, <1>3
    <3>2. \A j \in 1..i : j \in 1..Len(lead[t]) \/ j = i
      BY <1>0, <2>1
    <3> QED
      BY <2>2, <3>1, <3>2
  <2>4. Agree(more[t], more[t], i)
    BY <1>0 DEF Agree
  <2> QED
    BY <2>2, <2>3, <2>4
<1>5. ASSUME NEW s \in Terms, more[s] # <<>> PROVE s \in L
  BY <1>5 DEF LeadersAgree
<1> QED
  BY <1>0, <1>1, <1>2, <1>3, <1>4, <1>5 DEF LeadersAgree

(***************************************************************************)
(* The invariant: CommitInv, of the logs of the leaders (lead) and of what *)
(* the nodes have acknowledged (ack), which the program does not keep.     *)
(***************************************************************************)

\* The terms that were led; term 0 is the one of the forced leader.
LedTerms == {0} \cup {w.term : w \in won}

\* ack[n][t] is how many entries of its log node n has acknowledged to the leader
\* of term t.
Acknowledged == [Server -> [Terms -> Nat]]

\* A node in term, that has acknowledged acks, may be counted in an election.
VotesFor(lead, L, acks, term, log, new) == new <= term /\ VoteSafe(lead, L, acks, log, new)

\* A request of the leader of term t is from its log, and fits the peer.
RequestFits(lead, t, req, log, term) ==
    LET k == req.PrevLogIndex + 1
    IN /\ k \in 0..Len(lead[t])
       /\ k > 0 => req.PrevLogTerm = lead[t][k].Term
       /\ req.Entry = After(lead[t], k)
       /\ InStep(lead, log, term, t, k)

\* So does an answer: it says what is acknowledged, or that the leader must go back.
AnswerFits(lead, t, a, next, acked, log, term) ==
    /\ a.Success => ~a.Err
    /\ ~a.Err =>
        /\ a.Success => (IF next < Len(lead[t]) THEN next + 1 ELSE next) <= acked
        /\ ~a.Success /\ a.Term <= t => next >= 1 /\ InStep(lead, log, term, t, next - 1)

NodesFit(lead, ack) ==
    \A q \in Server :
        /\ LogFits(lead, logs[q], currentTerm[q])
        /\ AcksKept(lead, LedTerms, ack[q], logs[q], currentTerm[q])

LeaderFits(lead, ack, n) ==
    /\ logs[n] = lead[currentTerm[n]]
    /\ ack[n][currentTerm[n]] = Len(logs[n])
    /\ \A p \in Server \ {n} :
           /\ nextIndex[n][p] >= 0
           /\ InStep(lead, logs[p], currentTerm[p], currentTerm[n], nextIndex[n][p])

BroadcastFits(lead, ack, c) ==
    /\ \A p \in DOMAIN call[c].reqs :
           /\ RequestFits(lead, call[c].term, call[c].reqs[p], logs[p], currentTerm[p])
           /\ currentTerm[c[1]] = call[c].term =>
                  call[c].reqs[p].PrevLogIndex + 1 = nextIndex[c[1]][p]
    /\ currentTerm[c[1]] = call[c].term =>
           \A p \in DOMAIN call[c].answers :
               AnswerFits(lead, call[c].term, call[c].answers[p], nextIndex[c[1]][p],
                          ack[p][call[c].term], logs[p], currentTerm[p])

\* Whose handlers are about to write down their vote.
Voters(c) == {p \in DOMAIN call[c].at : call[c].at[p] = "vote"}

\* A candidate asks with its log as it is; the votes it gets are safe.
ElectionFits(lead, ack, c) ==
    /\ \A w \in won : w.term = call[c].term => w.leader # c[1]
    /\ currentTerm[c[1]] = call[c].term /\ call[c].term \notin LedTerms =>
           /\ \A p \in DOMAIN call[c].reqs :
                  /\ call[c].reqs[p].LogSize = Len(logs[c[1]])
                  /\ call[c].reqs[p].LastLogTerm = LastLogTerm(logs[c[1]])
           /\ \A p \in Voters(c) \cup Successes(c) :
                  VotesFor(lead, LedTerms, ack[p], currentTerm[p], logs[c[1]], call[c].term)

WinnerFits(lead, ack, w) ==
    /\ w.term <= currentTerm[w.leader]
    /\ \E Q : IsQuorum(Q) /\ \A r \in Q :
           VotesFor(lead, LedTerms, ack[r], currentTerm[r], lead[w.term], w.term)

\* What is committed ends with an entry of its own term that a majority has.
CommitFits(lead, ack, e) ==
    /\ e.term \in Terms /\ e.log \in Seq(Commanded)
    /\ Cardinality(Server) # 1 =>
           /\ 1 <= Len(e.log) /\ Agree(e.log, lead[e.term], Len(e.log))
           /\ lead[e.term][Len(e.log)].Term = e.term
           /\ \E Q : IsQuorum(Q) /\ \A r \in Q : Len(e.log) <= ack[r][e.term]

CommitInv(lead, ack) ==
    /\ lead \in LeaderLogs /\ ack \in Acknowledged
    /\ LeadersAgree(lead, LedTerms) /\ NodesFit(lead, ack)
    /\ \A n \in Server : role[n] = "LEADER" => LeaderFits(lead, ack, n)
    /\ \A c \in Callers : call[c].kind = "append" => BroadcastFits(lead, ack, c)
    /\ \A c \in Callers : call[c].kind = "vote" => ElectionFits(lead, ack, c)
    /\ \A w \in won : WinnerFits(lead, ack, w)
    /\ \A e \in committed : CommitFits(lead, ack, e)

\* What a step does to the leaders' logs and to what is acknowledged.
Ahead(lead, more, ack, acked) ==
    /\ more \in LeaderLogs /\ acked \in Acknowledged
    /\ LeadGrows(lead, more, LedTerms)
    /\ \A r \in Server : \A t \in Terms :
           acked[r][t] = ack[r][t] \/ (ack[r][t] <= acked[r][t] /\ currentTerm'[r] = t)
    /\ TermsRise /\ won \subseteq won'

LEMMA LedTypes ==
  ASSUME WinInv, upsets = {}
  PROVE  LedTerms \in SUBSET Terms
<1>1. \A w \in won : w.term \in 1..MaxTerm
  BY DEF WinInv, WonByVotes
<1> QED
  BY <1>1, ConstantsAssumption DEF LedTerms, Terms

LEMMA LedStay == ASSUME won \subseteq won' PROVE LedTerms \subseteq LedTerms'
  BY DEF LedTerms

LEMMA VoterStays ==
  ASSUME TypeOK, TypeOK', LedTerms \in SUBSET Terms, NEW lead, NEW more, NEW ack, NEW acked,
         CommitInv(lead, ack), Ahead(lead, more, ack, acked), NEW r \in Server, NEW new \in Terms,
         NEW old, NEW log,
         \A t \in Terms, k \in Nat : Agree(old, lead[t], k) => Agree(log, more[t], k),
         VotesFor(lead, LedTerms, ack[r], currentTerm[r], old, new)
  PROVE  VotesFor(more, LedTerms', acked[r], currentTerm'[r], log, new)
<1>0. /\ currentTerm[r] \in Nat /\ currentTerm'[r] \in Nat /\ new \in Nat
      /\ \A t \in Terms : t \in Nat
  BY ConstantsAssumption DEF TypeOK, Terms
<1>1. currentTerm[r] <= currentTerm'[r]
  BY DEF Ahead, TermsRise
<1>2. new <= currentTerm'[r]
  BY <1>0, <1>1 DEF VotesFor
<1>3. \A t \in Terms : t < new => acked[r][t] = ack[r][t]
  BY <1>0, <1>2 DEF Ahead
<1>4. \A t \in Terms : \A k \in 1..ack[r][t] : k <= Len(lead[t])
  BY DEF CommitInv, NodesFit, AcksKept
<1>5. /\ lead \in LeaderLogs /\ more \in LeaderLogs /\ LeadGrows(lead, more, LedTerms)
      /\ LeadersAgree(lead, LedTerms) /\ LedTerms \subseteq LedTerms'
      /\ ack[r] \in [Terms -> Nat] /\ acked[r] \in [Terms -> Nat]
      /\ VoteSafe(lead, LedTerms, ack[r], old, new)
  BY LedStay DEF CommitInv, Ahead, Acknowledged, VotesFor
<1>6. VoteSafe(more, LedTerms', acked[r], log, new)
  BY <1>3, <1>4, <1>5, VoteStays
<1> QED
  BY <1>2, <1>6 DEF VotesFor

\* Every step keeps what is known of the winners, and of what is committed.
LEMMA WinnersStay ==
  ASSUME TypeOK, TypeOK', WinInv, upsets = {}, NEW lead, NEW more, NEW ack, NEW acked,
         CommitInv(lead, ack), Ahead(lead, more, ack, acked), NEW w \in won
  PROVE  WinnerFits(more, acked, w)'
<1>1. LedTerms \in SUBSET Terms /\ w.leader \in Server /\ w.term \in Terms
  BY LedTypes, ConstantsAssumption DEF WinInv, WonByVotes, Terms
<1>2. w.term <= currentTerm[w.leader]
  BY DEF CommitInv, WinnerFits
<1>3. PICK Q : IsQuorum(Q) /\ \A r \in Q :
           VotesFor(lead, LedTerms, ack[r], currentTerm[r], lead[w.term], w.term)
  BY DEF CommitInv, WinnerFits
<1>4. \A t \in Terms, k \in Nat : Agree(lead[w.term], lead[t], k) => Agree(more[w.term], more[t], k)
  <2>1. \A t \in Terms : /\ Len(lead[t]) \in Nat /\ Len(more[t]) \in Nat
                         /\ Len(lead[t]) <= Len(more[t])
                         /\ \A i \in 1..Len(lead[t]) : more[t][i] = lead[t][i]
    BY LogTypes DEF CommitInv, Ahead, LeaderLogs, LeadGrows
  <2>2. ASSUME NEW a \in Terms, NEW t \in Terms, NEW k \in Nat, Agree(lead[a], lead[t], k)
        PROVE  Agree(more[a], more[t], k)
    BY <2>1, <2>2 DEF Agree
  <2> QED
    BY <1>1, <2>2
<1>5. \A r \in Q : VotesFor(more, LedTerms', acked[r], currentTerm'[r], more[w.term], w.term)
  BY <1>1, <1>3, <1>4, VoterStays DEF IsQuorum
<1>6. w.term <= currentTerm'[w.leader]
  BY <1>1, <1>2, ConstantsAssumption DEF Ahead, TermsRise, TypeOK, Terms
<1> QED
  BY <1>3, <1>5, <1>6 DEF WinnerFits

LEMMA CommitsStay ==
  ASSUME TypeOK, TypeOK', NEW lead, NEW more, NEW ack, NEW acked,
         CommitInv(lead, ack), Ahead(lead, more, ack, acked), NEW e \in committed
  PROVE  CommitFits(more, acked, e)
<1>1. CommitFits(lead, ack, e) /\ e.term \in Terms /\ e.log \in Seq(Commanded)
  BY DEF CommitInv, CommitFits
<1>2. Len(e.log) \in Nat /\ Len(lead[e.term]) \in Nat
  BY <1>1, LogTypes DEF CommitInv, LeaderLogs
<1> SUFFICES ASSUME Cardinality(Server) # 1
             PROVE  /\ 1 <= Len(e.log) /\ Agree(e.log, more[e.term], Len(e.log))
                    /\ more[e.term][Len(e.log)].Term = e.term
                    /\ \E Q : IsQuorum(Q) /\ \A r \in Q : Len(e.log) <= acked[r][e.term]
  BY <1>1 DEF CommitFits
<1>3. 1 <= Len(e.log) /\ Agree(e.log, lead[e.term], Len(e.log)) /\ lead[e.term][Len(e.log)].Term = e.term
  BY <1>1 DEF CommitFits
<1>4. Agree(e.log, more[e.term], Len(e.log))
  BY <1>1, <1>2, <1>3, AgreeGrows DEF CommitInv, Ahead
<1>5. more[e.term][Len(e.log)].Term = e.term
  <2>1. Len(e.log) \in 1..Len(lead[e.term])
    BY <1>2, <1>3 DEF Agree
  <2> QED
    BY <1>1, <1>3, <2>1 DEF Ahead, LeadGrows
<1>6. PICK Q : IsQuorum(Q) /\ \A r \in Q : Len(e.log) <= ack[r][e.term]
  BY <1>1 DEF CommitFits
<1>7. \A r \in Q : Len(e.log) <= acked[r][e.term]
  <2> SUFFICES ASSUME NEW r \in Q PROVE Len(e.log) <= acked[r][e.term]
    OBVIOUS
  <2>1. r \in Server /\ ack[r][e.term] \in Nat /\ acked[r][e.term] \in Nat
    BY <1>1, <1>6 DEF IsQuorum, CommitInv, Ahead, Acknowledged
  <2>2. ack[r][e.term] <= acked[r][e.term]
    BY <1>1, <2>1 DEF Ahead
  <2> QED
    BY <1>2, <1>6, <2>1, <2>2
<1> QED
  BY <1>3, <1>4, <1>5, <1>6, <1>7

\* A step of a cluster with at most one leader per term, that nothing upsets.
Calm ==
    /\ Cluster /\ WinInv /\ WinInv' /\ upsets = {} /\ upsets' = {}
    /\ NodesLead /\ CallsLead /\ NodesLead' /\ CallsLead' /\ NextInLog /\ TermsRise

LEMMA CalmTypes ==
  ASSUME Calm
  PROVE  /\ TypeOK /\ TypeOK' /\ CallsOK
         /\ LedTerms \in SUBSET Terms
         /\ \A t \in Terms : t \in Nat
         /\ \A n \in Server :
                /\ currentTerm[n] \in Terms /\ currentTerm'[n] \in Terms
                /\ currentTerm[n] <= currentTerm'[n]
                /\ logs[n] \in Seq(Commanded) /\ logs'[n] \in Seq(Commanded)
         /\ \A c \in Callers : c[1] \in Server /\ call[c].term \in Terms /\ call'[c].term \in Terms
<1>1. TypeOK /\ TypeOK' /\ CallsOK
  BY DEF Calm, WinInv, VoteInv, TypeOK, CallsOK
<1>2. LedTerms \in SUBSET Terms
  BY LedTypes DEF Calm
<1>3. \A t \in Terms : t \in Nat
  BY ConstantsAssumption DEF Terms
<1>4. /\ \A n \in Server :
             /\ currentTerm[n] \in Terms /\ currentTerm'[n] \in Terms
             /\ logs[n] \in Seq(Commanded) /\ logs'[n] \in Seq(Commanded)
      /\ \A c \in Callers : c[1] \in Server /\ call[c].term \in Terms /\ call'[c].term \in Terms
  BY <1>1, CallerTypes DEF TypeOK, IsCall
<1> QED
  BY <1>1, <1>2, <1>3, <1>4 DEF Calm, TermsRise

\* The terms that are led are those of the leaders.
LEMMA LedBy == ASSUME NEW n, NEW t, LeaderOf(n, t) PROVE t \in LedTerms
  BY DEF LeaderOf, LedTerms

LEMMA StillInStep ==
  ASSUME Calm, NEW lead, NEW ack, CommitInv(lead, ack), NEW more \in LeaderLogs,
         NEW t \in Terms, more[t] = lead[t], NEW p \in Server,
         logs'[p] = logs[p] \/ currentTerm'[p] # t,
         NEW k \in Int, InStep(lead, logs[p], currentTerm[p], t, k)
  PROVE  InStep(more, logs'[p], currentTerm'[p], t, k)
<1>1. /\ lead \in LeaderLogs /\ LogFits(lead, logs[p], currentTerm[p])
      /\ logs[p] \in Seq(Commanded) /\ currentTerm[p] \in Terms /\ currentTerm'[p] \in Terms
      /\ currentTerm[p] <= currentTerm'[p]
  BY CalmTypes DEF CommitInv, NodesFit
<1> QED
  BY <1>1, InStepStays

\* What a step must leave alone for a broadcast, a leader, an election and a node to
\* fit as before.
LEMMA BroadcastStays ==
  ASSUME Calm, NEW lead, NEW more, NEW ack, NEW acked,
         CommitInv(lead, ack), Ahead(lead, more, ack, acked), NEW c \in Callers,
         call[c].kind = "append", call'[c].term = call[c].term,
         more[call[c].term] = lead[call[c].term],
         currentTerm'[c[1]] = call[c].term => nextIndex'[c[1]] = nextIndex[c[1]],
         \A p \in DOMAIN call'[c].reqs :
             /\ p \in DOMAIN call[c].reqs /\ call'[c].reqs[p] = call[c].reqs[p]
             /\ logs'[p] = logs[p] \/ currentTerm'[p] # call[c].term,
         currentTerm'[c[1]] = call[c].term =>
             \A p \in DOMAIN call'[c].answers :
                 \/ /\ p \in DOMAIN call[c].answers /\ call'[c].answers[p] = call[c].answers[p]
                    /\ logs'[p] = logs[p] \/ currentTerm'[p] # call[c].term
                 \/ AnswerFits(more, call[c].term, call'[c].answers[p], nextIndex'[c[1]][p],
                               acked[p][call[c].term], logs'[p], currentTerm'[p])
  PROVE  BroadcastFits(more, acked, c)'
<1> DEFINE t == call[c].term
           n == c[1]
<1>0. /\ t \in Terms /\ n \in Server /\ t \in Nat /\ TypeOK
      /\ currentTerm[n] \in Nat /\ currentTerm'[n] \in Nat /\ currentTerm[n] <= currentTerm'[n]
      /\ DOMAIN call[c].reqs \subseteq Server /\ DOMAIN call[c].answers \subseteq Server
      /\ \A p \in DOMAIN call[c].reqs : call[c].reqs[p].PrevLogIndex \in Int
  BY CalmTypes DEF TypeOK, IsCall, AppendRequests
<1>1. t <= currentTerm[n]
  BY DEF Calm, CallsLead, FromLeader
<1>2. currentTerm'[n] = t => currentTerm[n] = t /\ nextIndex'[n] = nextIndex[n]
  BY <1>0, <1>1
<1>3. BroadcastFits(lead, ack, c) /\ more \in LeaderLogs /\ more[t] = lead[t]
  BY DEF CommitInv, Ahead
<1>4. ASSUME NEW p \in DOMAIN call'[c].reqs
      PROVE  /\ RequestFits(more, t, call'[c].reqs[p], logs'[p], currentTerm'[p])
             /\ currentTerm'[n] = t => call'[c].reqs[p].PrevLogIndex + 1 = nextIndex'[n][p]
  <2>1. /\ p \in DOMAIN call[c].reqs /\ call'[c].reqs[p] = call[c].reqs[p] /\ p \in Server
        /\ logs'[p] = logs[p] \/ currentTerm'[p] # t
    BY <1>0
  <2>2. /\ RequestFits(lead, t, call[c].reqs[p], logs[p], currentTerm[p])
        /\ currentTerm[n] = t => call[c].reqs[p].PrevLogIndex + 1 = nextIndex[n][p]
    BY <1>3, <2>1 DEF BroadcastFits
  <2> DEFINE k == call[c].reqs[p].PrevLogIndex + 1
  <2>3. k \in Int /\ InStep(lead, logs[p], currentTerm[p], t, k)
    BY <1>0, <2>1, <2>2 DEF RequestFits
  <2>4. InStep(more, logs'[p], currentTerm'[p], t, k)
    BY <1>0, <1>3, <2>1, <2>3, StillInStep
  <2>5. RequestFits(more, t, call'[c].reqs[p], logs'[p], currentTerm'[p])
    BY <1>3, <2>1, <2>2, <2>4 DEF RequestFits
  <2> QED
    BY <1>2, <2>1, <2>2, <2>5
<1>5. ASSUME currentTerm'[n] = t, NEW p \in DOMAIN call'[c].answers
      PROVE  AnswerFits(more, t, call'[c].answers[p], nextIndex'[n][p], acked[p][t],
                        logs'[p], currentTerm'[p])
  <2> SUFFICES ASSUME p \in DOMAIN call[c].answers, call'[c].answers[p] = call[c].answers[p],
                      logs'[p] = logs[p] \/ currentTerm'[p] # t
               PROVE  AnswerFits(more, t, call'[c].answers[p], nextIndex'[n][p], acked[p][t],
                                 logs'[p], currentTerm'[p])
    BY <1>5
  <2> DEFINE a == call[c].answers[p]
             next == nextIndex[n][p]
  <2>1. AnswerFits(lead, t, a, next, ack[p][t], logs[p], currentTerm[p]) /\ nextIndex'[n][p] = next
    BY <1>2, <1>3, <1>5 DEF BroadcastFits
  <2>2. /\ p \in Server /\ next \in Int /\ Len(lead[t]) \in Nat
        /\ ack[p][t] \in Nat /\ acked[p][t] \in Nat /\ ack[p][t] <= acked[p][t]
    <3>1. p \in Server /\ next \in Int /\ Len(lead[t]) \in Nat
      BY <1>0, LogTypes DEF TypeOK, CommitInv, LeaderLogs
    <3>2. ack[p][t] \in Nat /\ acked[p][t] \in Nat
      BY <1>0, <3>1 DEF CommitInv, Ahead, Acknowledged
    <3> QED
      BY <1>0, <3>1, <3>2 DEF Ahead
  <2>3. InStep(lead, logs[p], currentTerm[p], t, next - 1)
          => InStep(more, logs'[p], currentTerm'[p], t, next - 1)
    <3>1. p \in Server /\ t \in Terms /\ next - 1 \in Int /\ more \in LeaderLogs /\ more[t] = lead[t]
          /\ (logs'[p] = logs[p] \/ currentTerm'[p] # t)
      BY <1>0, <1>3, <2>2
    <3> HIDE DEF next, t
    <3> QED
      BY <3>1, StillInStep
  <2> HIDE DEF a, next
  <2>4. AnswerFits(more, t, a, next, acked[p][t], logs'[p], currentTerm'[p])
    BY <1>3, <2>1, <2>2, <2>3 DEF AnswerFits
  <2> QED
    BY <2>1, <2>4 DEF a
<1> QED
  BY <1>4, <1>5 DEF BroadcastFits

LEMMA LeaderStays ==
  ASSUME Calm, NEW lead, NEW more, NEW ack, NEW acked,
         CommitInv(lead, ack), Ahead(lead, more, ack, acked), NEW n \in Server,
         role[n] = "LEADER", currentTerm'[n] = currentTerm[n], logs'[n] = logs[n],
         nextIndex'[n] = nextIndex[n], more[currentTerm[n]] = lead[currentTerm[n]],
         acked[n][currentTerm[n]] = ack[n][currentTerm[n]],
         \A p \in Server \ {n} :
             \/ logs'[p] = logs[p] \/ currentTerm'[p] # currentTerm[n]
             \/ InStep(more, logs'[p], currentTerm'[p], currentTerm[n], nextIndex[n][p])
  PROVE  LeaderFits(more, acked, n)'
<1>1. LeaderFits(lead, ack, n) /\ more \in LeaderLogs /\ currentTerm[n] \in Terms /\ TypeOK
  BY CalmTypes DEF CommitInv, Ahead
<1>2. ASSUME NEW p \in Server \ {n}
      PROVE  InStep(more, logs'[p], currentTerm'[p], currentTerm[n], nextIndex[n][p])
  <2>1. nextIndex[n][p] \in Int /\ InStep(lead, logs[p], currentTerm[p], currentTerm[n], nextIndex[n][p])
    BY <1>1 DEF LeaderFits, TypeOK
  <2> QED
    BY <1>1, <2>1, StillInStep
<1> QED
  BY <1>1, <1>2 DEF LeaderFits

LEMMA ElectionStays ==
  ASSUME Calm, NEW lead, NEW more, NEW ack, NEW acked,
         CommitInv(lead, ack), Ahead(lead, more, ack, acked), NEW c \in Callers,
         call[c].kind = "vote", call'[c].term = call[c].term,
         (\A w \in won' : w.term = call[c].term => w.leader # c[1]),
         \A p \in DOMAIN call'[c].reqs :
             p \in DOMAIN call[c].reqs /\ call'[c].reqs[p] = call[c].reqs[p],
         currentTerm'[c[1]] = call[c].term /\ call[c].term \notin LedTerms' =>
             /\ logs'[c[1]] = logs[c[1]]
             /\ \A p \in Voters(c)' \cup Successes(c)' :
                    \/ p \in Voters(c) \cup Successes(c)
                    \/ VotesFor(more, LedTerms', acked[p], currentTerm'[p], logs'[c[1]], call[c].term)
  PROVE  ElectionFits(more, acked, c)'
<1> DEFINE t == call[c].term
           n == c[1]
<1>0. /\ t \in Terms /\ n \in Server /\ t \in Nat /\ TypeOK /\ TypeOK' /\ LedTerms \in SUBSET Terms
      /\ currentTerm[n] \in Nat /\ currentTerm'[n] \in Nat /\ currentTerm[n] <= currentTerm'[n]
      /\ logs[n] \in Seq(Commanded)
  BY CalmTypes
<1>1. t <= currentTerm[n] /\ Voters(c) \cup Successes(c) \subseteq Server
  BY <1>0 DEF Calm, WinInv, VoteInv, Elections, TypeOK, IsCall, Successes, Voters
<1> SUFFICES ASSUME currentTerm'[n] = t, t \notin LedTerms'
             PROVE  /\ \A p \in DOMAIN call'[c].reqs :
                           /\ call'[c].reqs[p].LogSize = Len(logs'[n])
                           /\ call'[c].reqs[p].LastLogTerm = LastLogTerm(logs'[n])
                    /\ \A p \in Voters(c)' \cup Successes(c)' :
                           VotesFor(more, LedTerms', acked[p], currentTerm'[p], logs'[n], t)
  BY DEF ElectionFits
<1>2. currentTerm[n] = t /\ t \notin LedTerms /\ logs'[n] = logs[n] /\ ElectionFits(lead, ack, c)
  BY <1>0, <1>1, LedStay DEF Ahead, CommitInv
<1>3. \A k \in Nat, s \in Terms : Agree(logs[n], lead[s], k) => Agree(logs'[n], more[s], k)
  BY <1>2, AgreeGrows DEF CommitInv, Ahead
<1>4. ASSUME NEW p \in Voters(c) \cup Successes(c)
      PROVE  VotesFor(more, LedTerms', acked[p], currentTerm'[p], logs'[n], t)
  <2>1. VotesFor(lead, LedTerms, ack[p], currentTerm[p], logs[n], t) /\ p \in Server
    BY <1>1, <1>2 DEF ElectionFits
  <2> QED
    BY <1>0, <1>3, <2>1, VoterStays
<1> QED
  BY <1>2, <1>4 DEF ElectionFits

LEMMA NodeStays ==
  ASSUME Calm, NEW lead, NEW more, NEW ack, NEW acked,
         CommitInv(lead, ack), Ahead(lead, more, ack, acked), NEW q \in Server,
         logs'[q] = logs[q], acked[q] = ack[q]
  PROVE  /\ LogFits(more, logs'[q], currentTerm'[q])
         /\ AcksKept(more, LedTerms', acked[q], logs'[q], currentTerm'[q])
<1>0. /\ currentTerm[q] \in Int /\ currentTerm'[q] \in Int /\ currentTerm[q] <= currentTerm'[q]
      /\ logs[q] \in Seq(Commanded) /\ LedTerms \in SUBSET Terms
  BY CalmTypes
<1>1. /\ lead \in LeaderLogs /\ more \in LeaderLogs /\ LeadGrows(lead, more, LedTerms)
      /\ LeadersAgree(lead, LedTerms) /\ ack[q] \in [Terms -> Nat] /\ acked[q] \in [Terms -> Nat]
      /\ LogFits(lead, logs[q], currentTerm[q])
      /\ AcksKept(lead, LedTerms, ack[q], logs[q], currentTerm[q])
  BY DEF CommitInv, Ahead, NodesFit, Acknowledged
<1>2. LogFits(more, logs[q], currentTerm[q])
  BY <1>0, <1>1, LogGrows
<1>3. LogFits(more, logs[q], currentTerm'[q])
  <2>1. \A i \in 1..Len(logs[q]) : logs[q][i].Term \in Int
    BY <1>0, LogTypes
  <2> QED
    BY <1>0, <1>2, <2>1 DEF LogFits
<1>4. \A t \in Terms, k \in Nat : Agree(logs[q], lead[t], k) => Agree(logs'[q], more[t], k)
  BY <1>1, AgreeGrows
<1>5. LedTerms \subseteq LedTerms'
  BY LedStay DEF Ahead
<1>6. AcksKept(more, LedTerms', acked[q], logs'[q], currentTerm'[q])
  BY <1>0, <1>1, <1>4, <1>5, AcksGrow
<1> QED
  BY <1>3, <1>6

\* What is the same for every step: the winners and what was committed before.
LEMMA StepFits ==
  ASSUME Calm, NEW lead, NEW more, NEW ack, NEW acked,
         CommitInv(lead, ack), Ahead(lead, more, ack, acked), LeadersAgree(more, LedTerms'),
         \A q \in Server :
             \/ logs'[q] = logs[q] /\ acked[q] = ack[q]
             \/ /\ LogFits(more, logs'[q], currentTerm'[q])
                /\ AcksKept(more, LedTerms', acked[q], logs'[q], currentTerm'[q]),
         \A n \in Server : role'[n] = "LEADER" => LeaderFits(more, acked, n)',
         \A c \in Callers : call'[c].kind = "append" => BroadcastFits(more, acked, c)',
         \A c \in Callers : call'[c].kind = "vote" => ElectionFits(more, acked, c)',
         \A w \in won' \ won : WinnerFits(more, acked, w)',
         \A e \in committed' \ committed : CommitFits(more, acked, e)
  PROVE  CommitInv(more, acked)'
<1>1. NodesFit(more, acked)'
  BY NodeStays DEF NodesFit
<1>2. \A w \in won' : WinnerFits(more, acked, w)'
  BY WinnersStay, CalmTypes DEF Calm
<1>3. \A e \in committed' : CommitFits(more, acked, e)'
  BY CommitsStay, CalmTypes DEF CommitFits
<1> QED
  BY <1>1, <1>2, <1>3 DEF CommitInv, Ahead

\* Steps that leave the leaders' logs as they were.
LEMMA Unmoved ==
  ASSUME Calm, NEW lead, NEW ack, CommitInv(lead, ack), UNCHANGED won
  PROVE  Ahead(lead, lead, ack, ack) /\ LeadersAgree(lead, LedTerms') /\ LedTerms' = LedTerms
<1>1. LeadGrows(lead, lead, LedTerms)
  <2>1. \A t \in Terms : Len(lead[t]) \in Nat
    BY LogTypes DEF CommitInv, LeaderLogs
  <2> QED
    BY <2>1 DEF LeadGrows
<1> QED
  BY <1>1 DEF Ahead, CommitInv, Calm, LedTerms

\* A step that adds nothing to a leader's log, and acknowledges nothing.
LEMMA QuietStep ==
  ASSUME Calm, NEW lead, NEW ack, CommitInv(lead, ack), UNCHANGED <<logs, won, committed>>,
         \A n \in Server : role'[n] = "LEADER" =>
             role[n] = "LEADER" /\ currentTerm'[n] = currentTerm[n] /\ nextIndex'[n] = nextIndex[n],
         \A c \in Callers : call'[c].kind = "append" => BroadcastFits(lead, ack, c)',
         \A c \in Callers : call'[c].kind = "vote" => ElectionFits(lead, ack, c)'
  PROVE  CommitInv(lead, ack)'
<1>1. Ahead(lead, lead, ack, ack) /\ LeadersAgree(lead, LedTerms')
  BY Unmoved
<1>2. \A n \in Server : role'[n] = "LEADER" => LeaderFits(lead, ack, n)'
  BY <1>1, LeaderStays
<1> QED
  BY <1>1, <1>2, StepFits

LEMMA IdleStep ==
  ASSUME Calm, NEW lead, NEW ack, CommitInv(lead, ack),
         UNCHANGED <<logs, currentTerm, nextIndex, call, won, committed>>,
         \A n \in Server : role'[n] = "LEADER" => role[n] = "LEADER"
  PROVE  CommitInv(lead, ack)'
<1>1. ASSUME NEW c \in Callers, call'[c].kind = "append" PROVE BroadcastFits(lead, ack, c)'
  <2>1. BroadcastFits(lead, ack, c)
    BY <1>1 DEF CommitInv
  <2> QED
    BY <2>1 DEF BroadcastFits
<1>2. ASSUME NEW c \in Callers, call'[c].kind = "vote" PROVE ElectionFits(lead, ack, c)'
  <2>1. ElectionFits(lead, ack, c)
    BY <1>2 DEF CommitInv
  <2>2. LedTerms' = LedTerms /\ Successes(c)' = Successes(c) /\ Voters(c)' = Voters(c)
    BY DEF LedTerms, Successes, Voters
  <2> QED
    BY <2>1, <2>2 DEF ElectionFits
<1> QED
  BY <1>1, <1>2, QuietStep

\* A step that asks for nothing new, and whose answers and votes fit.
LEMMA OlderStep ==
  ASSUME Calm, NEW lead, NEW ack, CommitInv(lead, ack), UNCHANGED <<logs, won, committed>>, Older,
         \A n \in Server : role'[n] = "LEADER" =>
             role[n] = "LEADER" /\ currentTerm'[n] = currentTerm[n] /\ nextIndex'[n] = nextIndex[n],
         \A c \in Callers : call'[c].kind = "append" =>
             \A p \in DOMAIN call'[c].answers :
                 \/ p \in DOMAIN call[c].answers /\ call'[c].answers[p] = call[c].answers[p]
                 \/ currentTerm'[c[1]] = call[c].term =>
                        AnswerFits(lead, call[c].term, call'[c].answers[p], nextIndex'[c[1]][p],
                                   ack[p][call[c].term], logs'[p], currentTerm'[p]),
         \A c \in Callers : call'[c].kind = "vote" =>
             \A p \in Voters(c)' \cup Successes(c)' :
                 \/ p \in Voters(c) \cup Successes(c)
                 \/ currentTerm'[c[1]] = call[c].term /\ call[c].term \notin LedTerms =>
                        VotesFor(lead, LedTerms, ack[p], currentTerm'[p], logs[c[1]], call[c].term)
  PROVE  CommitInv(lead, ack)'
<1>1. Ahead(lead, lead, ack, ack) /\ LedTerms' = LedTerms
  BY Unmoved
<1>2. ASSUME NEW c \in Callers, call'[c].kind = "append" PROVE BroadcastFits(lead, ack, c)'
  <2>1. /\ call[c].kind = "append" /\ call'[c].term = call[c].term
        /\ \A p \in DOMAIN call'[c].reqs :
               p \in DOMAIN call[c].reqs /\ call'[c].reqs[p] = call[c].reqs[p]
    BY <1>2 DEF Older
  <2>2. currentTerm'[c[1]] = call[c].term => role'[c[1]] = "LEADER"
    BY <1>2, <2>1 DEF Calm, CallsLead, FromLeader
  <2>3. currentTerm'[c[1]] = call[c].term => nextIndex'[c[1]] = nextIndex[c[1]]
    BY <2>2, CallerTypes
  <2> QED
    BY <1>1, <1>2, <2>1, <2>3, BroadcastStays
<1>3. ASSUME NEW c \in Callers, call'[c].kind = "vote" PROVE ElectionFits(lead, ack, c)'
  <2>1. /\ call[c].kind = "vote" /\ call'[c].term = call[c].term
        /\ \A p \in DOMAIN call'[c].reqs :
               p \in DOMAIN call[c].reqs /\ call'[c].reqs[p] = call[c].reqs[p]
    BY <1>3 DEF Older
  <2>2. (\A w \in won : w.term = call[c].term => w.leader # c[1])
    BY <2>1 DEF CommitInv, ElectionFits
  <2> QED
    BY <1>1, <1>3, <2>1, <2>2, ElectionStays
<1> QED
  BY <1>2, <1>3, QuietStep

LEMMA AnswerAdded ==
  ASSUME CallsOK, NEW c \in Callers, NEW p \in DOMAIN call[c].reqs, NEW a, Answered(c, p, a)
  PROVE  /\ \A d \in Callers \ {c} : call'[d] = call[d]
         /\ call'[c].kind = call[c].kind /\ call'[c].term = call[c].term
         /\ DOMAIN call'[c].reqs = DOMAIN call[c].reqs \ {p}
         /\ \A q \in DOMAIN call'[c].reqs : call'[c].reqs[q] = call[c].reqs[q]
         /\ \A q \in DOMAIN call'[c].answers :
                \/ q = p /\ call'[c].answers[q] = a
                \/ q # p /\ q \in DOMAIN call[c].answers /\ call'[c].answers[q] = call[c].answers[q]
         /\ Voters(c)' \subseteq Voters(c)
         /\ \A q \in Successes(c)' : q \in Successes(c) \/ (q = p /\ a.Success)
<1>1. /\ call'[c].kind = call[c].kind /\ call'[c].term = call[c].term
      /\ call'[c].reqs = [q \in DOMAIN call[c].reqs \ {p} |-> call[c].reqs[q]]
      /\ call'[c].at = [q \in DOMAIN call[c].at \ {p} |-> call[c].at[q]]
      /\ call'[c].answers = [q \in DOMAIN call[c].answers \cup {p} |->
                                 IF q = p THEN a ELSE call[c].answers[q]]
      /\ \A d \in Callers \ {c} : call'[d] = call[d]
  BY DEF CallsOK, Answered
<1>2. \A q \in Successes(c)' : q \in Successes(c) \/ (q = p /\ a.Success)
  BY <1>1 DEF Successes
<1>3. Voters(c)' \subseteq Voters(c)
  BY <1>1 DEF Voters
<1> QED
  BY <1>1, <1>2, <1>3

\* Lost requests, and answers that say nothing the leader or the candidate counts.
LEMMA AnswerStep ==
  ASSUME Calm, NEW lead, NEW ack, CommitInv(lead, ack), UNCHANGED <<logs, won, committed>>,
         \A n \in Server : role'[n] = "LEADER" =>
             role[n] = "LEADER" /\ currentTerm'[n] = currentTerm[n] /\ nextIndex'[n] = nextIndex[n],
         NEW c \in Callers, NEW p \in DOMAIN call[c].reqs, NEW a, Answered(c, p, a),
         call[c].kind = "append" /\ currentTerm'[c[1]] = call[c].term =>
             AnswerFits(lead, call[c].term, a, nextIndex'[c[1]][p], ack[p][call[c].term],
                        logs'[p], currentTerm'[p]),
         call[c].kind = "vote" => ~a.Success \/ p \in Voters(c)
  PROVE  CommitInv(lead, ack)'
<1>0. CallsOK
  BY CalmTypes
<1>1. Older
  BY <1>0, OlderCalls
<1>2. ASSUME NEW d \in Callers, call'[d].kind = "append", NEW q \in DOMAIN call'[d].answers
      PROVE  \/ q \in DOMAIN call[d].answers /\ call'[d].answers[q] = call[d].answers[q]
             \/ currentTerm'[d[1]] = call[d].term =>
                    AnswerFits(lead, call[d].term, call'[d].answers[q], nextIndex'[d[1]][q],
                               ack[q][call[d].term], logs'[q], currentTerm'[q])
  <2>1. CASE d # c
    BY <1>0, <1>2, <2>1, AnswerAdded
  <2>2. CASE d = c
    <3>1. call[c].kind = "append"
      BY <1>0, <1>2, <2>2, AnswerAdded
    <3>2. \/ q = p /\ call'[c].answers[q] = a
          \/ q \in DOMAIN call[c].answers /\ call'[c].answers[q] = call[c].answers[q]
      BY <1>0, <1>2, <2>2, AnswerAdded
    <3> QED
      BY <2>2, <3>1, <3>2
  <2> QED
    BY <2>1, <2>2
<1>3. ASSUME NEW d \in Callers, call'[d].kind = "vote", NEW q \in Voters(d)' \cup Successes(d)'
      PROVE  q \in Voters(d) \cup Successes(d)
  <2>1. CASE d # c
    <3>1. call'[d] = call[d]
      BY <1>0, <2>1, AnswerAdded
    <3> QED
      BY <1>3, <3>1 DEF Successes, Voters
  <2>2. CASE d = c
    <3>1. call[c].kind = "vote"
      BY <1>0, <1>3, <2>2, AnswerAdded
    <3> QED
      BY <1>0, <1>3, <2>2, <3>1, AnswerAdded
  <2> QED
    BY <2>1, <2>2
<1> QED
  BY <1>1, <1>2, <1>3, OlderStep

(***************************************************************************)
(* The steps.                                                              *)
(***************************************************************************)

\* One lemma per handler and per end of a call.
LEMMA LostStep ==
  ASSUME Calm, NEW lead, NEW ack, CommitInv(lead, ack), NEW c \in Callers, NEW p \in Server,
         RequestLost(c, p)
  PROVE  CommitInv(lead, ack)'
<1>1. /\ UNCHANGED <<logs, won, committed, role, currentTerm, nextIndex>>
      /\ p \in DOMAIN call[c].reqs /\ Answered(c, p, Lost)
  BY DEF RequestLost, persistent, volatile, history, Pending
<1>2. Lost.Err /\ ~Lost.Success
  BY DEF Lost
<1> QED
  BY <1>1, <1>2, AnswerStep DEF AnswerFits

LEMMA VoteStep ==
  ASSUME Calm, NEW lead, NEW ack, CommitInv(lead, ack), NEW c \in Callers, NEW p \in Server,
         Vote(c, p)
  PROVE  CommitInv(lead, ack)'
<1>1. /\ UNCHANGED <<logs, won, committed, role, currentTerm, nextIndex>>
      /\ p \in Voters(c) /\ call[c].kind = "vote"
      /\ \E a : Answered(c, p, a)
  BY DEF Vote, Handling, At, Voters, volatile
<1>2. p \in DOMAIN call[c].reqs
  BY <1>1, CalmTypes DEF TypeOK, IsCall, Voters
<1> QED
  BY <1>1, <1>2, AnswerStep

\* A node that decides to vote has nothing acknowledged that the candidate is without.
LEMMA DecidedFits ==
  ASSUME Calm, NEW lead, NEW ack, CommitInv(lead, ack), NEW c \in Callers, NEW p \in Server,
         call[c].kind = "vote", p \in DOMAIN call[c].reqs,
         currentTerm[c[1]] = call[c].term, call[c].term \notin LedTerms,
         UpToDate(logs[p], call[c].reqs[p]), currentTerm[p] <= call[c].term,
         currentTerm'[p] = call[c].term
  PROVE  VotesFor(lead, LedTerms, ack[p], currentTerm'[p], logs[c[1]], call[c].term)
<1> DEFINE t == call[c].term
           n == c[1]
<1>1. /\ n \in Server /\ t \in Terms /\ t \in Nat /\ LedTerms \in SUBSET Terms
      /\ logs[n] \in Seq(Commanded) /\ logs[p] \in Seq(Commanded) /\ currentTerm[p] \in Terms
  BY CalmTypes
<1>2. /\ lead \in LeaderLogs /\ LeadersAgree(lead, LedTerms) /\ ack[p] \in [Terms -> Nat]
      /\ LogFits(lead, logs[p], currentTerm[p]) /\ LogFits(lead, logs[n], t)
      /\ AcksKept(lead, LedTerms, ack[p], logs[p], currentTerm[p])
  BY <1>1 DEF CommitInv, NodesFit, Acknowledged
<1>3. /\ call[c].reqs[p].LogSize = Len(logs[n])
      /\ call[c].reqs[p].LastLogTerm = LastLogTerm(logs[n])
  BY DEF CommitInv, ElectionFits
<1>4. VoteSafe(lead, LedTerms, ack[p], logs[n], t)
  BY <1>1, <1>2, <1>3, VoteDecision DEF UpToDate
<1> QED
  BY <1>1, <1>4 DEF VotesFor

\* A handler that goes on: what it may have decided is to vote.
LEMMA GoesOnStep ==
  ASSUME Calm, NEW lead, NEW ack, CommitInv(lead, ack), UNCHANGED <<logs, won, committed>>,
         \A n \in Server : role'[n] = "LEADER" =>
             role[n] = "LEADER" /\ currentTerm'[n] = currentTerm[n] /\ nextIndex'[n] = nextIndex[n],
         NEW c \in Callers, NEW p \in DOMAIN call[c].reqs, NEW step, GoesOn(c, p, step),
         call[c].kind = "vote" /\ step = "vote"
                 /\ currentTerm'[c[1]] = call[c].term /\ call[c].term \notin LedTerms =>
             VotesFor(lead, LedTerms, ack[p], currentTerm'[p], logs[c[1]], call[c].term)
  PROVE  CommitInv(lead, ack)'
<1>0. CallsOK
  BY CalmTypes
<1>1. Older
  BY <1>0, OlderCalls
<1>2. /\ \A d \in Callers \ {c} : call'[d] = call[d]
      /\ call'[c].kind = call[c].kind /\ call'[c].answers = call[c].answers
      /\ call'[c].at = [q \in DOMAIN call[c].at \cup {p} |-> IF q = p THEN step ELSE call[c].at[q]]
  BY <1>0 DEF CallsOK, GoesOn
<1>3. \A d \in Callers : call'[d].answers = call[d].answers
  BY <1>2
<1>4. \A d \in Callers : \A q \in Voters(d)' \cup Successes(d)' :
          q \in Voters(d) \cup Successes(d) \/ (d = c /\ q = p /\ step = "vote")
  <2>1. \A d \in Callers : Successes(d)' = Successes(d)
    BY <1>3 DEF Successes
  <2>2. \A d \in Callers \ {c} : Voters(d)' = Voters(d)
    BY <1>2 DEF Voters
  <2>3. \A q \in Voters(c)' : q \in Voters(c) \/ (q = p /\ step = "vote")
    BY <1>2 DEF Voters
  <2> QED
    BY <2>1, <2>2, <2>3
<1> QED
  BY <1>1, <1>2, <1>3, <1>4, OlderStep

\* What a request asks of a handler, in a broadcast or in an election.
LEMMA Asked ==
  ASSUME Calm, NEW c \in Callers, NEW p \in DOMAIN call[c].reqs,
         call[c].kind \in {"append", "vote"}
  PROVE  /\ call[c].reqs[p].Term = call[c].term /\ c[1] \in Server /\ c[1] # p /\ p \in Server
         /\ call[c].term \in Nat /\ call[c].term \in Terms
<1>1. /\ c[1] \in Server /\ call[c].term \in Nat /\ call[c].term \in Terms /\ TypeOK
  BY CalmTypes
<1>2. p \in Server
  BY <1>1 DEF TypeOK, IsCall
<1>3. CASE call[c].kind = "append"
  BY <1>1, <1>2, <1>3 DEF Calm, CallsLead, FromLeader
<1>4. CASE call[c].kind = "vote"
  BY <1>1, <1>2, <1>4 DEF Calm, WinInv, VoteInv, Elections
<1> QED
  BY <1>3, <1>4

\* The steps of a handler before it decides, answers or stores anything.
LEMMA EarlyStep ==
  ASSUME Calm, NEW lead, NEW ack, CommitInv(lead, ack), NEW c \in Callers, NEW p \in Server,
         \/ AppendEntryCompares(c, p) \/ AppendEntryAdopts(c, p)
         \/ RequestVoteCompares(c, p) \/ RequestVoteRaises(c, p)
  PROVE  CommitInv(lead, ack)'
<1>0. /\ p \in DOMAIN call[c].reqs /\ UNCHANGED <<logs, won, committed, nextIndex>>
      /\ \E step \in {"adopt", "keep", "store", "raise", "decide"} : GoesOn(c, p, step)
  BY CalmTypes
  DEF AppendEntryCompares, AppendEntryAdopts, RequestVoteCompares, RequestVoteRaises, Handling,
      TypeOK, IsCall, persistent, volatile, history
<1>1. TypeOK /\ \A n \in Server : currentTerm[n] \in Int
  BY CalmTypes
<1>2. \A n \in Server : role'[n] = "LEADER" =>
          role[n] = "LEADER" /\ currentTerm'[n] = currentTerm[n] /\ nextIndex'[n] = nextIndex[n]
  <2>1. CASE AppendEntryAdopts(c, p)
    <3>1. /\ currentTerm' = [currentTerm EXCEPT ![p] = call[c].reqs[p].Term]
          /\ role' = [role EXCEPT ![p] = "FOLLOWER"]
      BY <2>1, LeaderRefuses DEF Calm
    <3> QED
      BY <1>0, <1>1, <3>1 DEF TypeOK
  <2>2. CASE RequestVoteRaises(c, p)
    <3>1. /\ currentTerm' = [currentTerm EXCEPT ![p] = call[c].reqs[p].Term]
          /\ role' = [role EXCEPT ![p] = "FOLLOWER"]
      BY <2>2 DEF RequestVoteRaises
    <3> QED
      BY <1>0, <1>1, <3>1 DEF TypeOK
  <2>3. CASE AppendEntryCompares(c, p) \/ RequestVoteCompares(c, p)
    BY <1>0, <2>3 DEF AppendEntryCompares, RequestVoteCompares, persistent, volatile
  <2> QED
    BY <2>1, <2>2, <2>3
<1>3. PICK step : GoesOn(c, p, step) /\ step # "vote"
  BY <1>0
<1> QED
  BY <1>0, <1>2, <1>3, GoesOnStep

LEMMA DecisionStep ==
  ASSUME Calm, NEW lead, NEW ack, CommitInv(lead, ack), NEW c \in Callers, NEW p \in Server,
         RequestVoteDecides(c, p)
  PROVE  CommitInv(lead, ack)'
<1> DEFINE req == call[c].reqs[p]
           vote == VoteIsFree(p, req) /\ UpToDate(logs[p], req)
<1>1. /\ UNCHANGED <<logs, won, committed, nextIndex, role, currentTerm>>
      /\ p \in DOMAIN call[c].reqs /\ call[c].kind = "vote"
      /\ p \in DOMAIN call[c].at /\ call[c].at[p] = "decide"
  BY CalmTypes DEF RequestVoteDecides, At, Handling, TypeOK, IsCall, persistent, volatile, history
<1>2. currentTerm[p] = call[c].term
  <2>1. TestedVote(c, p)
    BY <1>1 DEF Calm, WinInv, VoteInv, Knows, Tested
  <2> QED
    BY <1>1, <2>1, Asked DEF TestedVote
<1>3. CASE ~vote /\ \E a \in {Answer(currentTerm[p], FALSE), Lost} : Answered(c, p, a)
  <2>1. PICK a : Answered(c, p, a) /\ ~a.Success
    BY <1>3 DEF Answer, Lost
  <2> HIDE DEF vote, req
  <2> QED
    BY <1>1, <2>1, AnswerStep
<1>4. CASE vote /\ GoesOn(c, p, "vote")
  <2>1. ASSUME currentTerm[c[1]] = call[c].term, call[c].term \notin LedTerms
        PROVE  VotesFor(lead, LedTerms, ack[p], currentTerm'[p], logs[c[1]], call[c].term)
    <3>1. currentTerm[p] <= call[c].term /\ currentTerm'[p] = call[c].term
      BY <1>1, <1>2, Asked
    <3>2. UpToDate(logs[p], call[c].reqs[p])
      BY <1>4
    <3> HIDE DEF vote, req
    <3> QED
      BY <1>1, <2>1, <3>1, <3>2, DecidedFits
  <2> HIDE DEF vote, req
  <2> QED
    BY <1>1, <1>4, <2>1, GoesOnStep
<1> QED
  BY <1>3, <1>4 DEF RequestVoteDecides

\* A request arrives, and the handler goes on with it or answers that it is too late.
LEMMA ArrivalStep ==
  ASSUME Calm, NEW lead, NEW ack, CommitInv(lead, ack), NEW c \in Callers, NEW p \in Server,
         AppendEntryTo(c, p) \/ RequestVoteFrom(c, p)
  PROVE  CommitInv(lead, ack)'
<1>1. /\ UNCHANGED <<logs, won, committed, nextIndex, role, currentTerm>>
      /\ p \in DOMAIN call[c].reqs /\ call[c].kind \in {"append", "vote"}
  BY DEF AppendEntryTo, RequestVoteFrom, Pending, persistent, volatile, history
<1>2. CASE GoesOn(c, p, "compare")
  BY <1>1, <1>2, GoesOnStep
<1>3. CASE /\ call[c].kind = "append" => call[c].reqs[p].Term < currentTerm[p]
           /\ \E a \in {Answer(currentTerm[p], FALSE), Lost} : Answered(c, p, a)
  <2>1. PICK a : /\ Answered(c, p, a) /\ ~a.Success
                 /\ ~a.Err => a.Term = currentTerm[p]
    BY <1>3 DEF Answer, Lost
  <2>2. call[c].term \in Int /\ currentTerm[p] \in Int /\ call[c].reqs[p].Term = call[c].term
    BY <1>1, CalmTypes, Asked
  <2>3. call[c].kind = "append" =>
            AnswerFits(lead, call[c].term, a, nextIndex'[c[1]][p], ack[p][call[c].term],
                       logs'[p], currentTerm'[p])
    BY <1>3, <2>1, <2>2 DEF AnswerFits
  <2> QED
    BY <1>1, <2>1, <2>3, AnswerStep
<1> QED
  BY <1>2, <1>3 DEF AppendEntryTo, RequestVoteFrom, Refused

\* An answer that says that the entries do not match: the leader's log and the
\* node's differ before them.
LEMMA RefusedStep ==
  ASSUME Calm, NEW lead, NEW ack, CommitInv(lead, ack), NEW c \in Callers, NEW p \in Server,
         AppendEntryStores(c, p), ~Matches(logs[p], call[c].reqs[p])
  PROVE  CommitInv(lead, ack)'
<1> DEFINE req == call[c].reqs[p]
           t == call[c].term
           n == c[1]
<1>1. /\ UNCHANGED <<won, committed, nextIndex, currentTerm, role>>
      /\ logs' = [logs EXCEPT ![p] = @]
      /\ p \in DOMAIN call[c].reqs /\ call[c].kind = "append"
      /\ \E a \in {Answer(currentTerm[p], FALSE), Lost} : Answered(c, p, a)
  <2>1. p \in DOMAIN call[c].at /\ call[c].kind = "append"
    BY DEF AppendEntryStores, Handling
  <2>2. p \in DOMAIN call[c].reqs
    BY <2>1, CalmTypes DEF TypeOK, IsCall
  <2>3. Matches(logs[p], req) = FALSE
    BY DEF Matches
  <2> QED
    BY <2>1, <2>2, <2>3 DEF AppendEntryStores, volatile
<1>2. /\ TypeOK /\ req.Term = t /\ t \in Nat /\ t \in Terms /\ currentTerm[p] = t
      /\ n \in Server /\ n # p /\ UNCHANGED logs
      /\ lead \in LeaderLogs /\ Len(lead[t]) \in Nat /\ logs[p] \in Seq(Commanded)
      /\ Len(logs[p]) \in Nat
  <2>1. TypeOK /\ logs[p] \in Seq(Commanded) /\ lead \in LeaderLogs
    BY CalmTypes DEF CommitInv
  <2>2. req.Term = t /\ n # p /\ n \in Server /\ t \in Nat /\ t \in Terms
    BY <1>1, Asked
  <2>3. Len(lead[t]) \in Nat /\ Len(logs[p]) \in Nat
    BY <2>1, <2>2, LogTypes DEF LeaderLogs
  <2>4. UNCHANGED logs
    BY <1>1, <2>1 DEF TypeOK
  <2>5. currentTerm[p] = t
    BY <2>2, FollowerStores DEF Calm
  <2> QED
    BY <2>1, <2>2, <2>3, <2>4, <2>5
<1>3. \A m \in Server : role'[m] = "LEADER" =>
          role[m] = "LEADER" /\ currentTerm'[m] = currentTerm[m] /\ nextIndex'[m] = nextIndex[m]
  BY <1>1
<1>4. PICK a \in {Answer(currentTerm[p], FALSE), Lost} : Answered(c, p, a)
  BY <1>1
<1>5. ASSUME currentTerm'[n] = t
      PROVE  AnswerFits(lead, t, a, nextIndex'[n][p], ack[p][t], logs'[p], currentTerm'[p])
  <2> DEFINE k == req.PrevLogIndex + 1
  <2> SUFFICES nextIndex[n][p] >= 1 /\ InStep(lead, logs[p], t, t, nextIndex[n][p] - 1)
    BY <1>1, <1>2, <1>4 DEF AnswerFits, Answer, Lost
  <2>1. currentTerm[n] = t
    BY <1>1, <1>5
  <2>2. BroadcastFits(lead, ack, c)
    BY <1>1 DEF CommitInv
  <2>3. k = nextIndex[n][p] /\ k \in 0..Len(lead[t]) /\ (k > 0 => req.PrevLogTerm = lead[t][k].Term)
    BY <1>1, <2>1, <2>2 DEF BroadcastFits, RequestFits
  <2>4. ~Matches(logs[p], req)
    OBVIOUS
  <2>5. req.PrevLogIndex \in Int
    BY <1>1, <1>2 DEF TypeOK, IsCall, AppendRequests
  <2>6. k >= 1 /\ (k <= Len(logs[p]) => logs[p][k].Term # lead[t][k].Term)
    BY <1>2, <2>3, <2>4, <2>5 DEF Matches
  <2>7. ASSUME NEW i \in 1..Len(lead[t]), Agree(logs[p], lead[t], i) PROVE i < k
    <3> HIDE DEF k, t
    <3> SUFFICES ASSUME k <= i PROVE FALSE
      BY <1>2, <2>3
    <3>1. k \in 1..i /\ k <= Len(logs[p])
      BY <1>2, <2>3, <2>6, <2>7 DEF Agree
    <3>2. logs[p][k] = lead[t][k]
      BY <2>7, <3>1 DEF Agree
    <3> QED
      BY <2>6, <3>1, <3>2
  <2> HIDE DEF k
  <2> QED
    BY <1>2, <2>3, <2>6, <2>7 DEF InStep
<1>6. UNCHANGED <<logs, won, committed>>
  BY <1>1, <1>2
<1> HIDE DEF req, t, n
<1> QED
  BY <1>1, <1>3, <1>4, <1>5, <1>6, AnswerStep DEF t, n

\* A node takes what its leader sends, and acknowledges it.
LEMMA AppendedFacts ==
  ASSUME Calm, NEW lead, NEW ack, CommitInv(lead, ack), NEW c \in Callers, NEW p \in Server,
         AppendEntryStores(c, p), Matches(logs[p], call[c].reqs[p]),
         NEW acks \in [Terms -> Nat], \A s \in Terms : s # call[c].term => acks[s] = ack[p][s],
         acks[call[c].term] = ack[p][call[c].term] \/ acks[call[c].term] = Len(logs'[p])
  PROVE  LET t == call[c].term
             k == call[c].reqs[p].PrevLogIndex + 1
         IN /\ t \in LedTerms /\ currentTerm'[p] = t /\ role'[p] = "FOLLOWER" /\ k \in 0..Len(lead[t])
            /\ currentTerm[c[1]] = t => nextIndex[c[1]][p] = k
            /\ Len(logs'[p]) = IF k < Len(lead[t]) THEN k + 1 ELSE k
            /\ LogFits(lead, logs'[p], t) /\ InStep(lead, logs'[p], t, t, k)
            /\ AcksKept(lead, LedTerms, acks, logs'[p], t)
<1> DEFINE req == call[c].reqs[p]
           t == call[c].term
           k == req.PrevLogIndex + 1
<1>1. p \in DOMAIN call[c].reqs /\ call[c].kind = "append"
  BY CalmTypes DEF AppendEntryStores, Handling, TypeOK, IsCall
<1>2. /\ TypeOK /\ t \in Nat /\ t \in Terms /\ currentTerm[p] \in Nat /\ currentTerm[p] \in Terms
      /\ logs[p] \in Seq(Commanded) /\ LedTerms \in SUBSET Terms
      /\ lead \in LeaderLogs /\ LeadersAgree(lead, LedTerms)
      /\ LogFits(lead, logs[p], currentTerm[p]) /\ ack[p] \in [Terms -> Nat]
      /\ AcksKept(lead, LedTerms, ack[p], logs[p], currentTerm[p])
  BY CalmTypes DEF CommitInv, NodesFit, Acknowledged
<1>3. req.Term = t /\ t \in LedTerms
  BY <1>1, LedBy DEF Calm, CallsLead, FromLeader
<1>4. /\ RequestFits(lead, t, req, logs[p], currentTerm[p])
      /\ currentTerm[c[1]] = t => k = nextIndex[c[1]][p]
  BY <1>1 DEF CommitInv, BroadcastFits
<1>5. currentTerm[p] = t /\ role[p] = "FOLLOWER"
  BY <1>3, FollowerStores DEF Calm
<1>6. logs'[p] = Appended(logs[p], req) /\ currentTerm'[p] = t /\ role'[p] = "FOLLOWER"
  BY <1>2, <1>5 DEF AppendEntryStores, TypeOK, volatile
<1>7. logs'[p] = SubSeq(logs[p], 1, k) \o After(lead[t], k)
  BY <1>4, <1>6 DEF Appended, RequestFits
<1>8. req.PrevLogIndex \in Int
  BY <1>1, <1>2 DEF TypeOK, IsCall, AppendRequests
<1>9. /\ k \in 0..Len(lead[t])
      /\ k > 0 => k <= Len(logs[p]) /\ logs[p][k].Term = lead[t][k].Term
      /\ InStep(lead, logs[p], currentTerm[p], t, k)
  <2>1. Len(logs[p]) \in Nat
    BY <1>2, LogTypes
  <2>2. /\ k \in 0..Len(lead[t]) /\ (k > 0 => req.PrevLogTerm = lead[t][k].Term)
        /\ InStep(lead, logs[p], currentTerm[p], t, k)
    BY <1>4 DEF RequestFits
  <2>3. k > 0 => k <= Len(logs[p]) /\ logs[p][k].Term = req.PrevLogTerm
    BY <1>8, <2>1 DEF Matches
  <2> HIDE DEF k, t, req
  <2> QED
    BY <2>2, <2>3
<1>10. currentTerm[p] <= t
  BY <1>2, <1>3, <1>5
<1> HIDE DEF k, t, req
<1>11. /\ Len(logs'[p]) = IF k < Len(lead[t]) THEN k + 1 ELSE k
       /\ LogFits(lead, logs'[p], t) /\ InStep(lead, logs'[p], t, t, k)
       /\ AcksKept(lead, LedTerms, acks, logs'[p], t)
  <2> DEFINE old == logs[p]
             log == logs'[p]
             term == currentTerm[p]
             acked == ack[p]
  <2>1. /\ \A s \in Terms : s # t => acks[s] = acked[s]
        /\ acks[t] = acked[t] \/ acks[t] = Len(log)
    BY DEF t
  <2>2. /\ LedTerms \in SUBSET Terms /\ lead \in LeaderLogs /\ LeadersAgree(lead, LedTerms)
        /\ t \in LedTerms /\ old \in Seq(Commanded) /\ term \in Terms /\ term <= t
        /\ LogFits(lead, old, term) /\ acked \in [Terms -> Nat]
        /\ AcksKept(lead, LedTerms, acked, old, term) /\ k \in 0..Len(lead[t])
        /\ (k > 0 => k <= Len(old) /\ old[k].Term = lead[t][k].Term)
        /\ InStep(lead, old, term, t, k) /\ log = SubSeq(old, 1, k) \o After(lead[t], k)
    BY <1>2, <1>3, <1>7, <1>9, <1>10
  <2> HIDE DEF old, log, term, acked
  <2>3. /\ Len(log) = IF k < Len(lead[t]) THEN k + 1 ELSE k
        /\ LogFits(lead, log, t) /\ InStep(lead, log, t, t, k)
        /\ AcksKept(lead, LedTerms, acks, log, t)
    <3>1. Accepting(lead, LedTerms, t, old, term, acked, k, log, acks)
      BY <2>1, <2>2 DEF Accepting
    <3> QED
      BY <3>1, Accepts
  <2> QED
    BY <2>3 DEF log
<1> QED
  BY <1>3, <1>4, <1>6, <1>9, <1>11 DEF t, k, req

\* The follower's answer may be lost: that it has the entry is known all the same.
LEMMA AppendedStep ==
  ASSUME Calm, NEW lead, NEW ack, CommitInv(lead, ack), NEW c \in Callers, NEW p \in Server,
         AppendEntryStores(c, p), Matches(logs[p], call[c].reqs[p])
  PROVE  \E acked : CommitInv(lead, acked)'
<1> DEFINE t == call[c].term
           k == call[c].reqs[p].PrevLogIndex + 1
           n == c[1]
<1>0. /\ TypeOK /\ CallsOK /\ t \in Terms /\ t \in Nat /\ ack \in Acknowledged
      /\ logs'[p] \in Seq(Commanded) /\ Len(logs'[p]) \in Nat
      /\ p \in DOMAIN call[c].reqs /\ call[c].kind = "append"
  <2>1. /\ TypeOK /\ CallsOK /\ t \in Terms /\ t \in Nat /\ ack \in Acknowledged
        /\ logs'[p] \in Seq(Commanded)
    BY CalmTypes DEF CommitInv
  <2>2. p \in DOMAIN call[c].reqs /\ call[c].kind = "append"
    BY <2>1 DEF AppendEntryStores, Handling, TypeOK, IsCall
  <2> QED
    BY <2>1, <2>2, LogTypes
<1>1. PICK acked \in Acknowledged :
          /\ acked[p][t] = (IF ack[p][t] <= Len(logs'[p]) THEN Len(logs'[p]) ELSE ack[p][t])
          /\ \A s \in Terms : s # t => acked[p][s] = ack[p][s]
          /\ \A q \in Server \ {p} : acked[q] = ack[q]
  <2> DEFINE most == IF ack[p][t] <= Len(logs'[p]) THEN Len(logs'[p]) ELSE ack[p][t]
  <2>1. most \in Nat
    BY <1>0 DEF Acknowledged
  <2> HIDE DEF most, t
  <2>2. [ack EXCEPT ![p] = [ack[p] EXCEPT ![t] = most]] \in Acknowledged
    BY <1>0, <2>1 DEF Acknowledged
  <2> WITNESS [ack EXCEPT ![p] = [ack[p] EXCEPT ![t] = most]] \in Acknowledged
  <2> QED
    BY <1>0 DEF Acknowledged, most
<1>2. /\ acked[p] \in [Terms -> Nat] /\ ack[p] \in [Terms -> Nat]
      /\ acked[p][t] = ack[p][t] \/ acked[p][t] = Len(logs'[p])
      /\ Len(logs'[p]) <= acked[p][t] /\ ack[p][t] <= acked[p][t]
  <2>1. acked[p] \in [Terms -> Nat] /\ ack[p] \in [Terms -> Nat]
    BY <1>0, <1>1 DEF Acknowledged
  <2>2. ack[p][t] \in Nat
    BY <1>0, <2>1
  <2> QED
    BY <1>0, <1>1, <2>1, <2>2
<1>3. /\ t \in LedTerms /\ currentTerm'[p] = t /\ role'[p] = "FOLLOWER" /\ k \in 0..Len(lead[t])
      /\ currentTerm[n] = t => nextIndex[n][p] = k
      /\ Len(logs'[p]) = IF k < Len(lead[t]) THEN k + 1 ELSE k
      /\ LogFits(lead, logs'[p], t) /\ InStep(lead, logs'[p], t, t, k)
      /\ AcksKept(lead, LedTerms, acked[p], logs'[p], t)
  <2>1. /\ \A s \in Terms : s # call[c].term => acked[p][s] = ack[p][s]
        /\ \/ acked[p][call[c].term] = ack[p][call[c].term]
           \/ acked[p][call[c].term] = Len(logs'[p])
    BY <1>1, <1>2
  <2> QED
    BY <1>2, <2>1, AppendedFacts
<1>4. /\ UNCHANGED <<won, committed, nextIndex>>
      /\ \A q \in Server \ {p} :
             logs'[q] = logs[q] /\ role'[q] = role[q] /\ currentTerm'[q] = currentTerm[q]
      /\ \E a \in {Answer(t, TRUE), Lost} : Answered(c, p, a)
  <2>1. /\ UNCHANGED <<won, committed, nextIndex>>
        /\ \A q \in Server \ {p} :
               logs'[q] = logs[q] /\ role'[q] = role[q] /\ currentTerm'[q] = currentTerm[q]
    BY <1>0 DEF AppendEntryStores, volatile, TypeOK
  <2>2. currentTerm[p] = t /\ Matches(logs[p], call[c].reqs[p]) = TRUE
    BY <1>0, Asked, FollowerStores DEF Calm, Matches
  <2>3. \E a \in {Answer(t, TRUE), Lost} : Answered(c, p, a)
    BY <2>2 DEF AppendEntryStores
  <2> QED
    BY <2>1, <2>3
<1>5. PICK a \in {Answer(t, TRUE), Lost} : Answered(c, p, a)
  BY <1>4
<1>6. Ahead(lead, lead, ack, acked) /\ LedTerms' = LedTerms /\ LeadersAgree(lead, LedTerms')
  <2>1. Ahead(lead, lead, ack, ack) /\ LedTerms' = LedTerms /\ LeadersAgree(lead, LedTerms')
    BY <1>4, Unmoved
  <2>2. \A r \in Server : \A s \in Terms :
            acked[r][s] = ack[r][s] \/ (ack[r][s] <= acked[r][s] /\ currentTerm'[r] = s)
    BY <1>1, <1>2, <1>3
  <2> QED
    BY <1>1, <2>1, <2>2 DEF Ahead
<1> HIDE DEF t, k, n
<1>7. n \in Server /\ LeaderOf(n, t) /\ n # p /\ currentTerm'[n] = currentTerm[n]
  BY <1>0, <1>4, CallerTypes DEF Calm, CallsLead, FromLeader, t, n
<1>8. ASSUME NEW m \in Server, role'[m] = "LEADER" PROVE LeaderFits(lead, acked, m)'
  <2>1. m # p /\ role[m] = "LEADER" /\ LeaderOf(m, currentTerm[m])
    BY <1>3, <1>4, <1>8 DEF Calm, NodesLead
  <2>2. ASSUME NEW q \in Server \ {m}
        PROVE  \/ logs'[q] = logs[q] \/ currentTerm'[q] # currentTerm[m]
               \/ InStep(lead, logs'[q], currentTerm'[q], currentTerm[m], nextIndex[m][q])
    <3>1. CASE q = p /\ currentTerm[m] = t
      <4>1. m = n
        BY <1>7, <2>1, <3>1, OneLeader DEF Calm
      <4> QED
        BY <1>3, <3>1, <4>1
    <3> QED
      BY <1>3, <1>4, <3>1
  <2>3. /\ currentTerm'[m] = currentTerm[m] /\ logs'[m] = logs[m] /\ nextIndex'[m] = nextIndex[m]
        /\ acked[m] = ack[m]
    BY <1>1, <1>4, <2>1
  <2> QED
    BY <1>6, <2>1, <2>2, <2>3, LeaderStays
<1>9. ASSUME NEW d \in Callers, call'[d].kind = "append" PROVE BroadcastFits(lead, acked, d)'
  <2>1. CASE d # c
    <3>1. call'[d] = call[d]
      BY <1>0, <1>5, <2>1, AnswerAdded
    <3>2. call[d].term # t
      <4> SUFFICES ASSUME call[d].term = t PROVE FALSE
        OBVIOUS
      <4>1. LeaderOf(d[1], t)
        BY <1>9, <3>1 DEF Calm, CallsLead, FromLeader
      <4>2. d[1] = n
        BY <1>7, <4>1, OneLeader DEF Calm
      <4> QED
        BY <1>0, <1>9, <2>1, <3>1, <4>2 DEF Calm, CallsLead, n
    <3>3. \A q \in Server : logs'[q] = logs[q] \/ currentTerm'[q] # call[d].term
      BY <1>3, <1>4, <3>2
    <3>4. DOMAIN call[d].reqs \subseteq Server /\ DOMAIN call[d].answers \subseteq Server
      BY <1>0 DEF TypeOK, IsCall
    <3> QED
      BY <1>4, <1>6, <1>9, <3>1, <3>3, <3>4, BroadcastStays
  <2>2. CASE d = c
    <3>1. /\ call'[c].term = call[c].term
          /\ DOMAIN call'[c].reqs = DOMAIN call[c].reqs \ {p}
          /\ \A q \in DOMAIN call'[c].reqs : call'[c].reqs[q] = call[c].reqs[q]
          /\ \A q \in DOMAIN call'[c].answers :
                \/ q = p /\ call'[c].answers[q] = a
                \/ q # p /\ q \in DOMAIN call[c].answers /\ call'[c].answers[q] = call[c].answers[q]
      BY <1>0, <1>5, AnswerAdded
    <3>2. DOMAIN call[c].reqs \subseteq Server /\ DOMAIN call[c].answers \subseteq Server
      BY <1>0 DEF TypeOK, IsCall
    <3>3. \A q \in DOMAIN call'[c].reqs :
             /\ q \in DOMAIN call[c].reqs /\ call'[c].reqs[q] = call[c].reqs[q]
             /\ logs'[q] = logs[q] \/ currentTerm'[q] # call[c].term
      BY <1>4, <3>1, <3>2
    <3>4. ASSUME currentTerm'[c[1]] = call[c].term
          PROVE  AnswerFits(lead, call[c].term, a, nextIndex'[c[1]][p], acked[p][call[c].term],
                            logs'[p], currentTerm'[p])
      <4>1. nextIndex'[n][p] = k
        BY <1>3, <1>4, <1>7, <3>4 DEF t, n
      <4>2. ~a.Err => a.Success /\ k \in 0..Len(lead[t]) /\ Len(logs'[p]) <= acked[p][t]
                      /\ Len(logs'[p]) = IF k < Len(lead[t]) THEN k + 1 ELSE k
        BY <1>2, <1>3, <1>5 DEF Answer, Lost
      <4>3. a.Success => ~a.Err
        BY <1>5 DEF Answer, Lost
      <4>4. AnswerFits(lead, t, a, k, acked[p][t], logs'[p], currentTerm'[p])
        BY <4>2, <4>3 DEF AnswerFits
      <4> QED
        BY <4>1, <4>4 DEF t, n
    <3>5. currentTerm'[c[1]] = call[c].term =>
             \A q \in DOMAIN call'[c].answers :
                 \/ /\ q \in DOMAIN call[c].answers /\ call'[c].answers[q] = call[c].answers[q]
                    /\ logs'[q] = logs[q] \/ currentTerm'[q] # call[c].term
                 \/ AnswerFits(lead, call[c].term, call'[c].answers[q], nextIndex'[c[1]][q],
                               acked[q][call[c].term], logs'[q], currentTerm'[q])
      BY <1>4, <3>1, <3>2, <3>4
    <3> QED
      BY <1>0, <1>4, <1>6, <2>2, <3>1, <3>3, <3>5, BroadcastStays
  <2> QED
    BY <2>1, <2>2
<1>10. ASSUME NEW d \in Callers, call'[d].kind = "vote" PROVE ElectionFits(lead, acked, d)'
  <2>1. d # c /\ call'[d] = call[d] /\ Successes(d)' = Successes(d) /\ d[1] \in Server
    <3>1. d # c
      BY <1>0, <1>5, <1>10, AnswerAdded
    <3>2. call'[d] = call[d]
      BY <1>0, <1>5, <3>1, AnswerAdded
    <3> QED
      BY <3>1, <3>2, CallerTypes DEF Successes
  <2>5. Voters(d)' = Voters(d)
    BY <2>1 DEF Voters
  <2>2. (\A w \in won : w.term = call[d].term => w.leader # d[1])
    BY <1>10, <2>1 DEF CommitInv, ElectionFits
  <2>3. currentTerm'[d[1]] = call[d].term /\ call[d].term \notin LedTerms' => logs'[d[1]] = logs[d[1]]
    BY <1>3, <1>4, <1>6, <2>1
  <2>4. call[d].kind = "vote" /\ won' = won
    BY <1>4, <1>10, <2>1
  <2> QED
    BY <1>6, <2>1, <2>2, <2>3, <2>4, <2>5, ElectionStays
<1>11. \A q \in Server :
           \/ logs'[q] = logs[q] /\ acked[q] = ack[q]
           \/ /\ LogFits(lead, logs'[q], currentTerm'[q])
              /\ AcksKept(lead, LedTerms', acked[q], logs'[q], currentTerm'[q])
  BY <1>1, <1>3, <1>4, <1>6
<1>12. CommitInv(lead, acked)'
  BY <1>4, <1>6, <1>8, <1>9, <1>10, <1>11, StepFits
<1> QED
  BY <1>12

LEMMA CallIsOver ==
  ASSUME CallsOK, NEW c \in Callers, CallEnds(c)
  PROVE  call'[c].kind = "none" /\ \A d \in Callers : d # c => call'[d] = call[d]
  BY DEF CallsOK, CallEnds, NoCall

\* A call that ends, and adds nothing to what leaders know.
LEMMA EndStep ==
  ASSUME Calm, NEW lead, NEW ack, CommitInv(lead, ack), UNCHANGED <<logs, won, committed>>,
         \A n \in Server : role'[n] = "LEADER" =>
             role[n] = "LEADER" /\ currentTerm'[n] = currentTerm[n] /\ nextIndex'[n] = nextIndex[n],
         NEW c \in Callers, CallEnds(c)
  PROVE  CommitInv(lead, ack)'
<1>1. CallsOK /\ Older
  BY CalmTypes, OlderEnds
<1>2. \A d \in Callers : call'[d].kind # "none" =>
          call'[d] = call[d] /\ Successes(d)' = Successes(d) /\ Voters(d)' = Voters(d)
  BY <1>1, CallIsOver DEF Successes, Voters
<1> QED
  BY <1>1, <1>2, OlderStep

\* Elections that are lost, and broadcasts of a leader that is none any more.
LEMMA StaleStep ==
  ASSUME Calm, NEW lead, NEW ack, CommitInv(lead, ack), NEW c \in Callers,
         ElectionLost(c) \/ BroadcastStale(c)
  PROVE  CommitInv(lead, ack)'
<1> DEFINE n == c[1]
<1>1. /\ CallEnds(c) /\ StepsDown(c) /\ UNCHANGED <<logs, won, committed>>
      /\ Higher(c) # {} \/ UNCHANGED nextIndex
  BY DEF ElectionLost, BroadcastStale, StepsDown, history
<1>2. TypeOK /\ n \in Server
  BY CalmTypes
<1>3. PICK term \in TermsSeen(c) : currentTerm' = [currentTerm EXCEPT ![n] = term]
  BY <1>1 DEF StepsDown
<1>4. \A m \in Server : role'[m] = "LEADER" =>
          role[m] = "LEADER" /\ currentTerm'[m] = currentTerm[m] /\ nextIndex'[m] = nextIndex[m]
  <2>1. CASE Higher(c) = {}
    <3>1. UNCHANGED <<role, nextIndex>> /\ term = currentTerm[n]
      BY <1>1, <1>2, <1>3, <2>1 DEF StepsDown, TermsSeen, TypeOK
    <3> QED
      BY <1>2, <1>3, <3>1 DEF TypeOK
  <2>2. CASE Higher(c) # {}
    <3>1. \E next : nextIndex' = [nextIndex EXCEPT ![n] = next]
      <4>1. CASE ElectionLost(c)
        <5>1. nextIndex' = [nextIndex EXCEPT ![n] = nextIndex[n]]
          BY <1>2, <4>1 DEF ElectionLost, TypeOK
        <5> QED
          BY <5>1
      <4>2. CASE BroadcastStale(c)
        BY <4>2 DEF BroadcastStale
      <4> QED
        BY <4>1, <4>2
    <3>2. role' = [role EXCEPT ![n] = "FOLLOWER"]
      BY <1>1, <2>2 DEF StepsDown
    <3> QED
      BY <1>2, <1>3, <3>1, <3>2 DEF TypeOK
  <2> QED
    BY <2>1, <2>2
<1> QED
  BY <1>1, <1>4, EndStep

\* The peers of a leader are all the others.
LEMMA CalmPeers ==
  ASSUME Calm, NEW n \in Server
  PROVE  /\ CurrentPeers(n, logs[n]) = Server \ {n}
         /\ Cardinality(CurrentPeers(n, logs[n])) = Cardinality(Server) - 1
         /\ Cardinality(Server) \in Nat /\ IsFiniteSet(Server)
         /\ (Cardinality(Server) - 1) \div 2 = 0 => Server = {n}
<1>1. CurrentPeers(n, logs[n]) = Server \ {n}
  BY PlainPeers DEF Calm, WinInv, PlainLogs
<1>2. IsFiniteSet(Server) /\ Cardinality(Server) \in Nat
  BY ConstantsAssumption, FS_CardinalityType
<1>3. /\ Cardinality(Server \ {n}) = Cardinality(Server) - 1
      /\ IsFiniteSet(Server \ {n})
  BY <1>2, FS_RemoveElement
<1>4. ASSUME (Cardinality(Server) - 1) \div 2 = 0 PROVE Server = {n}
  <2>1. Cardinality(Server \ {n}) \in Nat
    BY <1>3, FS_CardinalityType
  <2>2. Cardinality(Server) % 2 = 1
    BY DEF Calm, Cluster
  <2>3. Cardinality(Server \ {n}) = 0
    BY <1>2, <1>3, <1>4, <2>1, <2>2
  <2>4. Server \ {n} = {}
    BY <1>3, <2>3, FS_EmptySet
  <2> QED
    BY <2>4
<1> QED
  BY <1>1, <1>2, <1>3, <1>4

LEMMA PanicStep ==
  ASSUME Calm, NEW lead, NEW ack, CommitInv(lead, ack), NEW c \in Callers, BroadcastPanics(c)
  PROVE  CommitInv(lead, ack)'
<1> DEFINE n == c[1]
<1>1. /\ CallEnds(c) /\ UNCHANGED <<logs, won, committed, role, currentTerm>>
      /\ call[c].kind = "append"
  BY DEF BroadcastPanics, persistent, history, Complete
<1>2. TypeOK /\ n \in Server
  BY CalmTypes
<1>3. PICK done : nextIndex' = [nextIndex EXCEPT ![n] = Moved(c, done)]
  BY DEF BroadcastPanics
<1>4. Successes(c) \subseteq Server \ {n}
  BY <1>1, <1>2 DEF Successes, TypeOK, IsCall, Calm, CallsLead, FromLeader
<1>5. role[n] # "LEADER"
  <2> SUFFICES ASSUME role[n] = "LEADER" PROVE FALSE
    OBVIOUS
  <2>1. \A p \in Server \ {n} : nextIndex[n][p] <= Len(logs[n]) /\ nextIndex[n][p] \in Int
    BY <1>2 DEF Calm, NextInLog, TypeOK
  <2>2. Len(logs[n]) \in Int
    BY <1>2, LenProperties DEF TypeOK
  <2>3. Beyond(c) = {}
    BY <1>4, <2>1, <2>2 DEF Beyond
  <2>4. PICK next : NoMiddle(c, next)
    BY <2>3 DEF BroadcastPanics
  <2>5. Successes(c) # {} /\ Server = {n}
    BY <1>2, <2>4, CalmPeers DEF NoMiddle, Acks
  <2> QED
    BY <1>4, <2>5
<1>6. \A m \in Server : role'[m] = "LEADER" =>
          role[m] = "LEADER" /\ currentTerm'[m] = currentTerm[m] /\ nextIndex'[m] = nextIndex[m]
  BY <1>1, <1>2, <1>3, <1>5 DEF TypeOK
<1> QED
  BY <1>1, <1>6, EndStep

LEMMA Sent ==
  ASSUME CallsOK, NEW c \in Callers, NEW kind, NEW reqs, Send(c, kind, reqs)
  PROVE  /\ call'[c].kind = kind /\ call'[c].term = currentTerm'[c[1]] /\ call'[c].reqs = reqs
         /\ Voters(c)' = {} /\ DOMAIN call'[c].answers = {} /\ Successes(c)' = {}
         /\ \A d \in Callers : d # c =>
                call'[d] = call[d] /\ Successes(d)' = Successes(d) /\ Voters(d)' = Voters(d)
<1>1. /\ call'[c] = [kind |-> kind, term |-> currentTerm'[c[1]], reqs |-> reqs,
                     at |-> Nothing, answers |-> Nothing]
      /\ \A d \in Callers : d # c => call'[d] = call[d]
  BY DEF CallsOK, Send
<1>2. DOMAIN call'[c].answers = {} /\ DOMAIN call'[c].at = {}
  BY <1>1 DEF Nothing
<1> QED
  BY <1>1, <1>2 DEF Successes, Voters

\* A candidate asks with the last entry and the size of its own log.
LEMMA CandidateStep ==
  ASSUME Calm, NEW lead, NEW ack, CommitInv(lead, ack), NEW n \in Server, CandidateTimeout(n)
  PROVE  CommitInv(lead, ack)'
<1> DEFINE term == currentTerm[n] + 1
           reqs == [p \in CurrentPeers(n, logs[n]) |-> RequestVoteRequest(n, term)]
           b == Caller(n, "run")
<1>1. /\ UNCHANGED <<logs, won, committed, role, nextIndex>> /\ role[n] = "CANDIDATE"
      /\ currentTerm' = [currentTerm EXCEPT ![n] = term] /\ Send(b, "vote", reqs)
  BY DEF CandidateTimeout, volatile, history
<1>2. TypeOK /\ CallsOK /\ b \in Callers /\ b[1] = n /\ currentTerm[n] \in Nat
  BY CalmTypes, CallerTypes
<1>3. currentTerm'[n] = term /\ \A m \in Server \ {n} : currentTerm'[m] = currentTerm[m]
  BY <1>1, <1>2 DEF TypeOK
<1>4. /\ call'[b].kind = "vote" /\ call'[b].term = term /\ call'[b].reqs = reqs
      /\ Voters(b)' = {} /\ Successes(b)' = {}
      /\ \A d \in Callers : d # b =>
             call'[d] = call[d] /\ Successes(d)' = Successes(d) /\ Voters(d)' = Voters(d)
  BY <1>1, <1>2, <1>3, Sent
<1>5. \A m \in Server : role'[m] = "LEADER" =>
          role[m] = "LEADER" /\ currentTerm'[m] = currentTerm[m] /\ nextIndex'[m] = nextIndex[m]
  BY <1>1, <1>3
<1>6. Ahead(lead, lead, ack, ack)
  BY <1>1, Unmoved
<1> HIDE DEF b
<1>7. ASSUME NEW d \in Callers, call'[d].kind = "append" PROVE BroadcastFits(lead, ack, d)'
  <2>1. call'[d] = call[d]
    BY <1>4, <1>7
  <2> QED
    BY <1>1, <1>6, <1>7, <2>1, BroadcastStays
<1>8. ASSUME NEW d \in Callers, call'[d].kind = "vote" PROVE ElectionFits(lead, ack, d)'
  <2>1. CASE d # b
    <3>1. call'[d] = call[d] /\ Successes(d)' = Successes(d) /\ Voters(d)' = Voters(d)
      BY <1>4, <2>1
    <3>2. (\A w \in won' : w.term = call[d].term => w.leader # d[1])
      BY <1>1, <1>8, <3>1 DEF CommitInv, ElectionFits
    <3> QED
      BY <1>1, <1>6, <1>8, <3>1, <3>2, ElectionStays
  <2>2. CASE d = b
    <3>1. \A w \in won' : w.term = term => w.leader # n
      <4> SUFFICES ASSUME NEW w \in won, w.term = term, w.leader = n PROVE FALSE
        BY <1>1
      <4>1. WinnerFits(lead, ack, w)
        BY DEF CommitInv
      <4>2. term <= currentTerm[n]
        BY <4>1 DEF WinnerFits
      <4> QED
        BY <1>2, <4>2
    <3>2. \A p \in DOMAIN reqs :
              reqs[p].LogSize = Len(logs[n]) /\ reqs[p].LastLogTerm = LastLogTerm(logs[n])
      BY DEF RequestVoteRequest
    <3> HIDE DEF reqs, term
    <3> QED
      BY <1>1, <1>2, <1>4, <2>2, <3>1, <3>2 DEF ElectionFits
  <2> QED
    BY <2>1, <2>2
<1> QED
  BY <1>1, <1>5, <1>7, <1>8, QuietStep

\* What broadcastEntry sends fits.
LEMMA SentFits ==
  ASSUME Calm, NEW more, NEW acked, NEW c \in Callers, NEW log \in Seq(Commanded),
         BroadcastEntry(c, log), UNCHANGED <<currentTerm, nextIndex>>,
         more[currentTerm[c[1]]] = log, CurrentPeers(c[1], log) \subseteq Server \ {c[1]},
         \A p \in Server \ {c[1]} :
             InStep(more, logs'[p], currentTerm'[p], currentTerm[c[1]], nextIndex[c[1]][p])
  PROVE  BroadcastFits(more, acked, c)'
<1> DEFINE n == c[1]
           reqs == [p \in CurrentPeers(n, log) |-> AppendEntryRequest(n, p, log)]
           t == currentTerm[n]
<1>1. CallsOK /\ TypeOK /\ n \in Server
  BY CalmTypes
<1>2. /\ call'[c].term = t /\ call'[c].reqs = reqs /\ DOMAIN call'[c].answers = {}
      /\ \A p \in CurrentPeers(n, log) : nextIndex[n][p] \in 0..Len(log)
  BY <1>1, Sent DEF BroadcastEntry
<1>3. ASSUME NEW p \in CurrentPeers(n, log)
      PROVE  /\ RequestFits(more, t, reqs[p], logs'[p], currentTerm'[p])
             /\ reqs[p].PrevLogIndex + 1 = nextIndex[n][p]
  <2> DEFINE k == nextIndex[n][p]
  <2>1. k \in 0..Len(log) /\ k \in Int
    BY <1>1, <1>2 DEF TypeOK
  <2>2. /\ reqs[p].PrevLogIndex = k - 1 /\ reqs[p].Entry = After(log, k)
        /\ reqs[p].PrevLogTerm = IF k > 0 THEN log[k].Term ELSE 0
    BY <1>3 DEF AppendEntryRequest, After
  <2>3. reqs[p].PrevLogIndex + 1 = k
    BY <2>1, <2>2
  <2>4. InStep(more, logs'[p], currentTerm'[p], t, k)
    BY <1>3
  <2> HIDE DEF reqs, k
  <2>5. RequestFits(more, t, reqs[p], logs'[p], currentTerm'[p])
    BY <2>1, <2>2, <2>3, <2>4 DEF RequestFits
  <2> QED
    BY <2>3, <2>5 DEF k
<1>4. DOMAIN reqs = CurrentPeers(n, log)
  OBVIOUS
<1> HIDE DEF reqs
<1> QED
  BY <1>2, <1>3, <1>4 DEF BroadcastFits

LEMMA LeaderStep ==
  ASSUME Calm, NEW lead, NEW ack, CommitInv(lead, ack), NEW n \in Server, LeaderTimeout(n)
  PROVE  CommitInv(lead, ack)'
<1> DEFINE b == Caller(n, "run")
<1>1. /\ UNCHANGED <<logs, won, committed, role, nextIndex, currentTerm>> /\ role[n] = "LEADER"
      /\ BroadcastEntry(b, logs[n])
  BY DEF LeaderTimeout, persistent, volatile
<1>2. TypeOK /\ CallsOK /\ b \in Callers /\ b[1] = n /\ logs[n] \in Seq(Commanded)
  BY CalmTypes, CallerTypes
<1>3. /\ call'[b].kind = "append"
      /\ \A d \in Callers : d # b =>
             call'[d] = call[d] /\ Successes(d)' = Successes(d) /\ Voters(d)' = Voters(d)
  BY <1>1, <1>2, Sent DEF BroadcastEntry
<1>4. LeaderFits(lead, ack, n)
  BY <1>1 DEF CommitInv
<1>5. Ahead(lead, lead, ack, ack)
  BY <1>1, Unmoved
<1> HIDE DEF b
<1>6. BroadcastFits(lead, ack, b)'
  <2>1. \A p \in Server \ {n} :
            InStep(lead, logs'[p], currentTerm'[p], currentTerm[n], nextIndex[n][p])
    BY <1>1, <1>4 DEF LeaderFits
  <2>2. lead[currentTerm[n]] = logs[n]
    BY <1>4 DEF LeaderFits
  <2> QED
    BY <1>1, <1>2, <2>1, <2>2, PeersTypes, SentFits
<1>7. ASSUME NEW d \in Callers, call'[d].kind = "append" PROVE BroadcastFits(lead, ack, d)'
  <2>1. CASE d # b
    BY <1>1, <1>3, <1>5, <1>7, <2>1, BroadcastStays
  <2> QED
    BY <1>6, <2>1
<1>8. ASSUME NEW d \in Callers, call'[d].kind = "vote" PROVE ElectionFits(lead, ack, d)'
  <2>1. call'[d] = call[d] /\ Successes(d)' = Successes(d) /\ Voters(d)' = Voters(d)
    BY <1>3, <1>8
  <2>2. (\A w \in won' : w.term = call[d].term => w.leader # d[1])
    BY <1>1, <1>8, <2>1 DEF CommitInv, ElectionFits
  <2> QED
    BY <1>1, <1>5, <1>8, <2>1, <2>2, ElectionStays
<1> QED
  BY <1>1, <1>7, <1>8, QuietStep

\* What a leader has counted up to after the answers, and what is acknowledged.
LEMMA MovedFits ==
  ASSUME Calm, NEW lead, NEW ack, CommitInv(lead, ack), NEW c \in Callers, call[c].kind = "append",
         Higher(c) = {}, currentTerm[c[1]] = call[c].term, role[c[1]] = "LEADER",
         NEW p \in Server \ {c[1]}
  PROVE  LET n == c[1]
             t == call[c].term
             next == Moved(c, DOMAIN call[c].answers)[p]
         IN /\ next \in 0..Len(logs[n]) /\ InStep(lead, logs[p], currentTerm[p], t, next)
            /\ p \in Successes(c) => next <= ack[p][t]
<1> DEFINE n == c[1]
           t == call[c].term
           old == nextIndex[n][p]
           next == Moved(c, DOMAIN call[c].answers)[p]
           a == call[c].answers[p]
<1>1. /\ TypeOK /\ n \in Server /\ p \in Server /\ t \in Terms /\ old \in Int
      /\ logs[n] \in Seq(Commanded) /\ lead \in LeaderLogs
  <2>1. /\ TypeOK /\ n \in Server /\ p \in Server /\ t \in Terms
        /\ logs[n] \in Seq(Commanded) /\ lead \in LeaderLogs
    BY CalmTypes DEF CommitInv
  <2> QED
    BY <2>1 DEF TypeOK
<1>2. Len(logs[n]) \in Nat
  BY <1>1, LogTypes
<1>3. LeaderFits(lead, ack, n) /\ BroadcastFits(lead, ack, c)
  BY <1>1 DEF CommitInv
<1>4. /\ lead[t] = logs[n] /\ old >= 0 /\ old <= Len(logs[n])
      /\ InStep(lead, logs[p], currentTerm[p], t, old)
  BY <1>1, <1>3 DEF LeaderFits, Calm, NextInLog
<1>5. next = IF p \notin DOMAIN call[c].answers \/ a.Err THEN old
             ELSE IF ~a.Success THEN old - 1
             ELSE IF old < Len(logs[n]) THEN old + 1 ELSE old
  BY <1>1 DEF Moved
<1>6. p \in DOMAIN call[c].answers => AnswerFits(lead, t, a, old, ack[p][t], logs[p], currentTerm[p])
  BY <1>3 DEF BroadcastFits
<1>7. p \in DOMAIN call[c].answers => a.Term <= t
  <2>1. p \in DOMAIN call[c].answers => a.Term \in Nat /\ ~(a.Term > t)
    BY <1>1, ConstantsAssumption DEF Higher, TypeOK, IsCall, Answers, Terms
  <2>2. t \in Nat
    BY CalmTypes
  <2> QED
    BY <2>1, <2>2
<1>8. p \in Successes(c) => p \in DOMAIN call[c].answers /\ a.Success
  BY DEF Successes
<1>9. InStep(lead, logs[p], currentTerm[p], t, old + 1)
  BY <1>1, <1>4, InStepNext
<1> HIDE DEF t, old, next, a, n
<1>10. CASE p \notin DOMAIN call[c].answers \/ a.Err
  <2>1. ~(p \in Successes(c))
    BY <1>6, <1>8, <1>10 DEF AnswerFits
  <2> QED
    BY <1>1, <1>2, <1>4, <1>5, <1>10, <2>1 DEF t, n, next
<1>11. CASE p \in DOMAIN call[c].answers /\ ~a.Err /\ ~a.Success
  <2>1. old >= 1 /\ InStep(lead, logs[p], currentTerm[p], t, old - 1)
    BY <1>6, <1>7, <1>11 DEF AnswerFits
  <2>2. next = old - 1 /\ next \in 0..Len(logs[n])
    BY <1>1, <1>2, <1>4, <1>5, <1>11, <2>1
  <2> QED
    BY <1>8, <1>11, <2>1, <2>2 DEF t, n, next
<1>12. CASE p \in DOMAIN call[c].answers /\ ~a.Err /\ a.Success
  <2>1. next = (IF old < Len(logs[n]) THEN old + 1 ELSE old) /\ next <= ack[p][t]
    BY <1>4, <1>5, <1>6, <1>12 DEF AnswerFits
  <2>2. next \in 0..Len(logs[n]) /\ InStep(lead, logs[p], currentTerm[p], t, next)
    BY <1>1, <1>2, <1>4, <1>9, <2>1
  <2> QED
    BY <2>1, <2>2 DEF t, n, next
<1> QED
  BY <1>10, <1>11, <1>12

\* A leader that counts an entry as committed has a quorum that has acknowledged it.
LEMMA CountedFits ==
  ASSUME Calm, NEW lead, NEW ack, CommitInv(lead, ack), NEW c \in Callers, call[c].kind = "append",
         Higher(c) = {}, currentTerm[c[1]] = call[c].term, role[c[1]] = "LEADER",
         NEW next, next = Moved(c, DOMAIN call[c].answers),
         NEW index \in NewCommittedIndex(c, next), index # committedIndex[c[1]]
  PROVE  CommitFits(lead, ack, [term |-> currentTerm[c[1]], log |-> SubSeq(logs[c[1]], 1, index + 1)])
<1> DEFINE n == c[1]
           t == call[c].term
           size == Cardinality(Server)
           log == SubSeq(logs[n], 1, index + 1)
           agreed == {next[p] : p \in {q \in Acks(c, next) : HalfHas(c, next, next[q])}}
<1>1. /\ TypeOK /\ n \in Server /\ t \in Terms /\ logs[n] \in Seq(Commanded) /\ lead \in LeaderLogs
      /\ Len(logs[n]) \in Nat
  <2>1. TypeOK /\ n \in Server /\ t \in Terms /\ logs[n] \in Seq(Commanded) /\ lead \in LeaderLogs
    BY CalmTypes DEF CommitInv
  <2> QED
    BY <2>1, LogTypes
<1>2. /\ CurrentPeers(n, logs[n]) = Server \ {n} /\ Cardinality(CurrentPeers(n, logs[n])) = size - 1
      /\ size \in Nat /\ IsFiniteSet(Server) /\ ((size - 1) \div 2 = 0 => Server = {n})
  BY <1>1, CalmPeers
<1>3. Successes(c) \subseteq Server \ {n}
  BY <1>1 DEF Successes, TypeOK, IsCall, Calm, CallsLead, FromLeader
<1>4. \A p \in Server \ {n} :
          /\ next[p] \in 0..Len(logs[n]) /\ (p \in Successes(c) => next[p] <= ack[p][t])
  BY MovedFits
<1>5. Acks(c, next) \subseteq Server \ {n}
  BY <1>3 DEF Acks
<1>6. index + 1 \in 0..Len(logs[n])
  <2>1. CASE CurrentPeers(n, logs[n]) = {}
    BY <1>1, <2>1 DEF NewCommittedIndex
  <2>2. CASE CurrentPeers(n, logs[n]) # {}
    <3>1. index \in {i - 1 : i \in {i \in agreed : \A j \in agreed : j <= i}}
      BY <2>2 DEF NewCommittedIndex
    <3>2. agreed \subseteq 0..Len(logs[n])
      BY <1>4, <1>5
    <3> HIDE DEF agreed
    <3>3. PICK i \in agreed : index = i - 1
      BY <3>1
    <3>4. i \in 0..Len(logs[n]) /\ index + 1 = i
      BY <1>1, <3>2, <3>3
    <3> QED
      BY <3>4
  <2> QED
    BY <2>1, <2>2
<1>7. /\ log \in Seq(Commanded) /\ Len(log) = index + 1
      /\ \A i \in 1..index + 1 : log[i] = logs[n][i]
  <2> DEFINE k == index + 1
  <2>0. k \in 0..Len(logs[n]) /\ \A i \in 1..k : logs[n][i] \in Commanded
    BY <1>1, <1>6, ElementOfSeq
  <2> HIDE DEF k
  <2>1. /\ SubSeq(logs[n], 1, k) \in Seq(Commanded) /\ Len(SubSeq(logs[n], 1, k)) = k
        /\ \A i \in 1..k : SubSeq(logs[n], 1, k)[i] = logs[n][i]
    BY <1>1, <2>0, SubSeqProperties
  <2> QED
    BY <2>1 DEF k
<1> HIDE DEF log
<1>8. ASSUME size # 1
      PROVE  /\ 1 <= index + 1 /\ lead[t][index + 1].Term = t /\ Agree(log, lead[t], index + 1)
             /\ \E Q : IsQuorum(Q) /\ \A r \in Q : index + 1 <= ack[r][t]
  <2>1. LeaderFits(lead, ack, n)
    BY <1>1 DEF CommitInv
  <2>2. lead[t] = logs[n] /\ ack[n][t] = Len(logs[n])
    BY <2>1 DEF LeaderFits
  <2>3. CurrentPeers(n, logs[n]) # {}
    <3> SUFFICES ASSUME Server \ {n} = {} PROVE FALSE
      BY <1>2
    <3>1. Server = {n}
      BY <1>1
    <3> QED
      BY <1>8, <3>1, FS_Singleton
  <2>4. PICK q \in Acks(c, next) : HalfHas(c, next, next[q]) /\ index + 1 = next[q]
    <3>1. index \in {i - 1 : i \in {i \in agreed : \A j \in agreed : j <= i}}
      BY <2>3 DEF NewCommittedIndex
    <3>2. agreed \subseteq Int
      BY <1>4, <1>5
    <3>3. PICK q \in Acks(c, next) : HalfHas(c, next, next[q]) /\ index = next[q] - 1
      BY <3>1
    <3>4. next[q] \in Int
      BY <1>4, <1>5
    <3> QED
      BY <3>3, <3>4
  <2>5. next[q] > 0 /\ logs[n][next[q]].Term = t
    BY DEF Acks
  <2> DEFINE P == {p \in Acks(c, next) : next[p] >= next[q]}
  <2>6. /\ IsFiniteSet(P) /\ n \notin P /\ P \subseteq Server
        /\ Cardinality(P) >= (size - 1) \div 2
    <3>1. P \subseteq Server \ {n}
      BY <1>5
    <3>2. Cardinality(P) >= (size - 1) \div 2
      BY <1>2, <2>4 DEF HalfHas
    <3> QED
      BY <1>2, <3>1, <3>2, FS_Subset
  <2>7. \A r \in P \cup {n} : index + 1 <= ack[r][t]
    <3>1. ack[n][t] = Len(logs[n]) /\ index + 1 <= Len(logs[n])
      BY <1>1, <1>6, <2>2
    <3>2. ASSUME NEW r \in P PROVE index + 1 <= ack[r][t]
      <4>1. r \in Server \ {n} /\ r \in Successes(c) /\ next[r] >= next[q] /\ next[q] \in Int
        BY <1>4, <1>5 DEF Acks
      <4>2. next[r] \in Int /\ next[r] <= ack[r][t]
        BY <1>4, <4>1
      <4>3. ack[r][t] \in Nat
        BY <1>1, <4>1 DEF CommitInv, Acknowledged
      <4> QED
        BY <2>4, <4>1, <4>2, <4>3
    <3> QED
      BY <3>1, <3>2
  <2> HIDE DEF P
  <2>8. IsQuorum(P \cup {n})
    <3>1. Cardinality(P \cup {n}) = Cardinality(P) + 1 /\ Cardinality(P) \in Nat
      BY <2>6, FS_AddElement, FS_CardinalityType
    <3>2. size % 2 = 1
      BY DEF Calm, Cluster
    <3>3. 2 * (Cardinality(P) + 1) > size
      BY <1>2, <2>6, <3>1, <3>2
    <3> QED
      BY <1>1, <2>6, <3>1, <3>3 DEF IsQuorum
  <2>9. 1 <= index + 1 /\ lead[t][index + 1].Term = t
    <3>1. next[q] \in Int
      BY <1>4, <1>5
    <3> QED
      BY <2>2, <2>4, <2>5, <3>1
  <2>10. Agree(log, lead[t], index + 1)
    <3> DEFINE k == index + 1
    <3>1. k \in 0..Len(logs[n]) /\ Len(log) = k /\ \A i \in 1..k : log[i] = logs[n][i]
      BY <1>6, <1>7
    <3> HIDE DEF k
    <3>2. Agree(log, logs[n], k)
      BY <1>1, <3>1 DEF Agree
    <3> QED
      BY <2>2, <3>2 DEF k
  <2> QED
    BY <2>7, <2>8, <2>9, <2>10
<1> DEFINE e == [term |-> currentTerm[n], log |-> log]
<1>9. e.term = t /\ e.log = log
  OBVIOUS
<1> HIDE DEF e
<1>10. CommitFits(lead, ack, e)
  BY <1>1, <1>7, <1>8, <1>9 DEF CommitFits
<1> QED
  BY <1>10 DEF e, log

\* The leader counts the answers.
LEMMA DoneStep ==
  ASSUME Calm, NEW lead, NEW ack, CommitInv(lead, ack), NEW c \in Callers, BroadcastDone(c)
  PROVE  CommitInv(lead, ack)'
<1> DEFINE n == c[1]
           t == call[c].term
<1>1. PICK next, index :
          /\ next = Moved(c, DOMAIN call[c].answers) /\ nextIndex' = [nextIndex EXCEPT ![n] = next]
          /\ index \in NewCommittedIndex(c, next)
          /\ committed' = IF index = committedIndex[n] THEN committed
                          ELSE committed \cup {[term |-> currentTerm[n],
                                                log |-> SubSeq(logs[n], 1, index + 1)]}
  BY DEF BroadcastDone
<1>2. /\ CallEnds(c) /\ UNCHANGED <<logs, won, role, currentTerm>>
      /\ call[c].kind = "append" /\ Higher(c) = {} /\ Late(c) = {}
  BY DEF BroadcastDone, persistent, Complete, Calm
<1>3. TypeOK /\ CallsOK /\ n \in Server
  BY CalmTypes
<1>4. currentTerm[n] = t /\ role[n] = "LEADER"
  BY <1>2 DEF Late, Calm, CallsLead, FromLeader
<1>5. \A p \in Server \ {n} :
          next[p] \in 0..Len(logs[n]) /\ InStep(lead, logs[p], currentTerm[p], t, next[p])
  BY <1>1, <1>2, <1>4, MovedFits
<1>6. Ahead(lead, lead, ack, ack) /\ LeadersAgree(lead, LedTerms')
  BY <1>2, Unmoved
<1>7. nextIndex'[n] = next /\ \A m \in Server \ {n} : nextIndex'[m] = nextIndex[m]
  BY <1>1, <1>3 DEF TypeOK
<1>8. ASSUME NEW m \in Server, role'[m] = "LEADER" PROVE LeaderFits(lead, ack, m)'
  <2>1. CASE m # n
    BY <1>2, <1>6, <1>7, <1>8, <2>1, LeaderStays
  <2>2. CASE m = n
    <3>1. LeaderFits(lead, ack, n)
      BY <1>3, <1>4 DEF CommitInv
    <3> QED
      BY <1>2, <1>4, <1>5, <1>7, <2>2, <3>1 DEF LeaderFits
  <2> QED
    BY <2>1, <2>2
<1>9. \A d \in Callers : call'[d].kind # "none" =>
          /\ d # c /\ call'[d] = call[d] /\ Successes(d)' = Successes(d)
          /\ Voters(d)' = Voters(d)
  BY <1>2, <1>3, CallIsOver DEF Successes, Voters
<1>10. ASSUME NEW d \in Callers, call'[d].kind = "append" PROVE BroadcastFits(lead, ack, d)'
  <2>1. d # c /\ call'[d] = call[d]
    BY <1>9, <1>10
  <2>2. d[1] \in Server \ {n}
    BY <1>2, <1>10, <2>1, CallerTypes DEF Calm, CallsLead
  <2> QED
    BY <1>2, <1>6, <1>7, <1>10, <2>1, <2>2, BroadcastStays
<1>11. ASSUME NEW d \in Callers, call'[d].kind = "vote" PROVE ElectionFits(lead, ack, d)'
  <2>1. call'[d] = call[d] /\ Successes(d)' = Successes(d) /\ Voters(d)' = Voters(d)
    BY <1>9, <1>11
  <2>2. (\A w \in won' : w.term = call[d].term => w.leader # d[1])
    BY <1>2, <1>11, <2>1 DEF CommitInv, ElectionFits
  <2> QED
    BY <1>2, <1>6, <1>11, <2>1, <2>2, ElectionStays
<1>12. \A e \in committed' \ committed : CommitFits(lead, ack, e)
  <2>1. index # committedIndex[n] =>
            CommitFits(lead, ack, [term |-> currentTerm[n], log |-> SubSeq(logs[n], 1, index + 1)])
    BY <1>1, <1>2, <1>4, CountedFits
  <2> QED
    BY <1>1, <2>1
<1>13. \A q \in Server : logs'[q] = logs[q]
  BY <1>2
<1> QED
  BY <1>2, <1>6, <1>8, <1>10, <1>11, <1>12, <1>13, StepFits

\* A client's command is a new entry of the leader's log.
LEMMA AddingFacts ==
  ASSUME Calm, NEW lead, NEW ack, CommitInv(lead, ack), NEW n \in Server, role[n] = "LEADER",
         NEW e \in Commanded, e.Term = currentTerm[n], logs'[n] = Append(logs[n], e),
         UNCHANGED <<currentTerm, won>>, \A q \in Server \ {n} : logs'[q] = logs[q],
         NEW more \in LeaderLogs, more[currentTerm[n]] = logs'[n],
         \A s \in Terms : s # currentTerm[n] => more[s] = lead[s],
         NEW acked \in Acknowledged, acked[n][currentTerm[n]] = Len(logs'[n]),
         \A s \in Terms : s # currentTerm[n] => acked[n][s] = ack[n][s],
         \A q \in Server \ {n} : acked[q] = ack[q]
  PROVE  /\ Ahead(lead, more, ack, acked) /\ LeadersAgree(more, LedTerms') /\ LedTerms' = LedTerms
         /\ LogFits(more, logs'[n], currentTerm'[n])
         /\ AcksKept(more, LedTerms', acked[n], logs'[n], currentTerm'[n])
         /\ \A p \in Server \ {n} :
                InStep(more, logs'[p], currentTerm'[p], currentTerm[n], nextIndex[n][p])
<1> DEFINE t == currentTerm[n]
           old == logs[n]
           new == logs'[n]
<1>1. /\ TypeOK /\ t \in Terms /\ t \in Nat /\ old \in Seq(Commanded) /\ lead \in LeaderLogs
      /\ LedTerms \in SUBSET Terms /\ LeadersAgree(lead, LedTerms) /\ ack \in Acknowledged
      /\ LeaderFits(lead, ack, n) /\ t \in LedTerms
      /\ AcksKept(lead, LedTerms, ack[n], old, t)
  BY CalmTypes, LedBy DEF CommitInv, Calm, NodesLead, NodesFit
<1>2. /\ Len(old) \in Nat /\ Len(new) = Len(old) + 1 /\ new[Len(new)] = e
      /\ \A i \in 1..Len(old) : new[i] = old[i]
  BY <1>1, LogTypes, AppendProperties
<1>3. /\ lead[t] = old /\ ack[n][t] = Len(old)
      /\ \A p \in Server \ {n} : nextIndex[n][p] \in Int /\ InStep(lead, logs[p], currentTerm[p], t, nextIndex[n][p])
  BY <1>1 DEF LeaderFits, TypeOK
<1>4. LeadersAgree(more, LedTerms) /\ LeadGrows(lead, more, LedTerms)
  <2>1. more[t] = Append(lead[t], e)
    BY <1>3
  <2> QED
    BY <1>1, <2>1, LeaderAdds
<1>5. LedTerms' = LedTerms
  BY DEF LedTerms
<1>6. Ahead(lead, more, ack, acked)
  <2>1. \A r \in Server : \A s \in Terms :
            acked[r][s] = ack[r][s] \/ (ack[r][s] <= acked[r][s] /\ currentTerm'[r] = s)
    BY <1>2, <1>3
  <2> QED
    BY <1>4, <2>1 DEF Ahead, Calm
<1>7. LogFits(more, new, t)
  <2>1. \A i \in 1..Len(more[t]) :
            more[t][i].Term <= t /\ Agree(more[t], more[more[t][i].Term], i)
    BY <1>1, <1>4 DEF LeadersAgree
  <2> QED
    BY <2>1 DEF LogFits
<1>8. AcksKept(more, LedTerms, acked[n], new, t)
  <2>1. \A s \in Terms, k \in Nat : Agree(old, lead[s], k) => Agree(new, more[s], k)
    <3> SUFFICES ASSUME NEW s \in Terms, NEW k \in Nat, Agree(old, lead[s], k)
                 PROVE  Agree(new, more[s], k)
      OBVIOUS
    <3>1. Agree(old, more[s], k)
      BY <1>1, <1>4, AgreeGrows
    <3> HIDE DEF new, old
    <3> QED
      BY <1>2, <3>1 DEF Agree
  <2>2. ack[n] \in [Terms -> Nat] /\ acked[n] \in [Terms -> Nat]
    BY <1>1 DEF Acknowledged
  <2>3. \A s \in Terms : acked[n][s] = ack[n][s] \/ (s <= t /\ new = more[s] /\ acked[n][s] = Len(new))
    BY <1>1
  <2>4. LedTerms \in SUBSET Terms /\ t \in Int /\ t <= t
    BY <1>1
  <2>5. AcksKept(lead, LedTerms, ack[n], old, t) /\ LeadersAgree(lead, LedTerms)
    BY <1>1
  <2> DEFINE L == LedTerms
             acks == ack[n]
             all == acked[n]
  <2>6. L \in SUBSET Terms /\ L \subseteq L /\ AcksKept(lead, L, acks, old, t)
    BY <2>4, <2>5
  <2> HIDE DEF new, old, t, L, acks, all
  <2>7. AcksKept(more, L, all, new, t)
    BY <1>1, <1>4, <2>1, <2>2, <2>3, <2>4, <2>5, <2>6, AcksGrow DEF L, acks, all
  <2> QED
    BY <2>7 DEF L, all
<1>9. ASSUME NEW p \in Server \ {n}
      PROVE  InStep(more, logs'[p], currentTerm'[p], t, nextIndex[n][p])
  <2> DEFINE k == nextIndex[n][p]
             log == logs[p]
             term == currentTerm[p]
  <2>1. /\ k \in Int /\ InStep(lead, log, term, t, k) /\ LogFits(lead, log, term)
        /\ log \in Seq(Commanded) /\ term \in Nat
    BY <1>3, CalmTypes DEF CommitInv, NodesFit
  <2>2. Len(log) \in Nat
    BY <2>1, LogTypes
  <2> HIDE DEF k, log, term
  <2>3. ASSUME term < t, NEW i \in 1..Len(new), i > k PROVE new[i].Term = t
    BY <1>1, <1>2, <1>3, <2>1, <2>3 DEF InStep
  <2>4. ASSUME term = t, NEW i \in 1..Len(new), Agree(log, new, i) PROVE i <= k + 1
    <3>1. CASE i = Len(old) + 1
      <4>1. i \in 1..Len(log) /\ log[i].Term = t
        BY <1>1, <1>2, <2>2, <2>4, <3>1 DEF Agree
      <4>2. Agree(log, lead[t], i)
        BY <2>1, <4>1 DEF LogFits
      <4> QED
        BY <1>2, <1>3, <3>1, <4>2 DEF Agree
    <3>2. CASE i \in 1..Len(old)
      <4>1. Agree(log, old, i)
        BY <1>2, <2>4, <3>2 DEF Agree
      <4> QED
        BY <1>3, <2>1, <2>4, <3>2, <4>1 DEF InStep
    <3> QED
      BY <1>2, <3>1, <3>2
  <2>5. InStep(more, log, term, t, k)
    BY <2>3, <2>4 DEF InStep
  <2> QED
    BY <2>5 DEF k, log, term
<1> QED
  BY <1>4, <1>5, <1>6, <1>7, <1>8, <1>9

\* The node is the leader that has taken the request still.
LEMMA AddsTaken ==
  ASSUME Calm, NEW n \in Server, ClientAppends(n)
  PROVE  \E e \in Commanded :
             /\ role[n] = "LEADER" /\ e.Term = currentTerm[n]
             /\ logs' = [logs EXCEPT ![n] = Append(logs[n], e)]
             /\ BroadcastEntry(Caller(n, "client"), Append(logs[n], e))
<1>1. TestedByClient(n) /\ taken[n] # <<>>
  BY DEF Calm, WinInv, VoteInv, Knows, ClientAppends
<1>2. PICK e \in Commanded : taken[n] = <<e>> /\ e.Term = currentTerm[n]
  BY <1>1 DEF TestedByClient
<1>3. logs[n] \in Seq(Commanded)
  BY CalmTypes
<1>4. logs[n] \o taken[n] = Append(logs[n], e)
  BY <1>2, <1>3
<1> QED
  BY <1>1, <1>2, <1>4 DEF TestedByClient, ClientAppends

LEMMA ClientStep ==
  ASSUME Calm, NEW lead, NEW ack, CommitInv(lead, ack), NEW n \in Server, ClientAppends(n)
  PROVE  \E more, acked : CommitInv(more, acked)'
<1> DEFINE b == Caller(n, "client")
           t == currentTerm[n]
<1>0. PICK e \in Commanded :
          /\ role[n] = "LEADER" /\ e.Term = t
          /\ logs' = [logs EXCEPT ![n] = Append(logs[n], e)]
          /\ BroadcastEntry(b, Append(logs[n], e))
  BY AddsTaken
<1>1. /\ UNCHANGED <<currentTerm, role, nextIndex, won, committed>> /\ role[n] = "LEADER"
      /\ logs' = [logs EXCEPT ![n] = Append(logs[n], e)]
      /\ BroadcastEntry(b, Append(logs[n], e)) /\ Broadcasts(n) = {}
  BY <1>0 DEF ClientAppends, volatile, Calm, Overlap
<1>2. /\ TypeOK /\ CallsOK /\ b \in Callers /\ b[1] = n /\ t \in Terms
      /\ lead \in LeaderLogs /\ ack \in Acknowledged /\ LeaderOf(n, t)
      /\ logs'[n] \in Seq(Commanded) /\ Len(logs'[n]) \in Nat
  <2>1. logs'[n] \in Seq(Commanded)
    BY CalmTypes
  <2> QED
    BY <1>1, <2>1, CalmTypes, CallerTypes, LogTypes DEF CommitInv, Calm, NodesLead
<1>3. e \in Commanded /\ e.Term = t
  BY <1>0
<1>4. /\ logs'[n] = Append(logs[n], e) /\ \A q \in Server \ {n} : logs'[q] = logs[q]
  BY <1>1, <1>2 DEF TypeOK
<1>5. /\ call'[b].kind = "append"
      /\ \A d \in Callers : d # b =>
             call'[d] = call[d] /\ Successes(d)' = Successes(d) /\ Voters(d)' = Voters(d)
  BY <1>1, <1>2, Sent DEF BroadcastEntry
<1> HIDE DEF b
<1>6. PICK more \in LeaderLogs : more[t] = logs'[n] /\ \A s \in Terms : s # t => more[s] = lead[s]
  <2>1. [lead EXCEPT ![t] = logs'[n]] \in LeaderLogs
    BY <1>2 DEF LeaderLogs
  <2> WITNESS [lead EXCEPT ![t] = logs'[n]] \in LeaderLogs
  <2> QED
    BY <1>2 DEF LeaderLogs
<1>7. PICK acked \in Acknowledged :
          /\ acked[n][t] = Len(logs'[n]) /\ \A s \in Terms : s # t => acked[n][s] = ack[n][s]
          /\ \A q \in Server \ {n} : acked[q] = ack[q]
  <2> DEFINE most == Len(logs'[n])
  <2> HIDE DEF t
  <2>1. [ack EXCEPT ![n] = [ack[n] EXCEPT ![t] = most]] \in Acknowledged
    BY <1>2 DEF Acknowledged
  <2> WITNESS [ack EXCEPT ![n] = [ack[n] EXCEPT ![t] = most]] \in Acknowledged
  <2> QED
    BY <1>2 DEF Acknowledged
<1>8. /\ Ahead(lead, more, ack, acked) /\ LeadersAgree(more, LedTerms') /\ LedTerms' = LedTerms
      /\ LogFits(more, logs'[n], currentTerm'[n])
      /\ AcksKept(more, LedTerms', acked[n], logs'[n], currentTerm'[n])
      /\ \A p \in Server \ {n} :
             InStep(more, logs'[p], currentTerm'[p], t, nextIndex[n][p])
  BY <1>1, <1>3, <1>4, <1>6, <1>7, AddingFacts
<1>9. BroadcastFits(more, acked, b)'
  <2>1. BroadcastEntry(b, logs'[n]) /\ CurrentPeers(n, logs'[n]) \subseteq Server \ {n}
    BY <1>1, <1>4, PeersTypes
  <2> QED
    BY <1>1, <1>2, <1>6, <1>8, <2>1, SentFits
<1>10. ASSUME NEW m \in Server, role'[m] = "LEADER" PROVE LeaderFits(more, acked, m)'
  <2>1. CASE m # n
    <3>1. role[m] = "LEADER" /\ LeaderOf(m, currentTerm[m]) /\ currentTerm[m] \in Terms
      BY <1>1, <1>10, CalmTypes DEF Calm, NodesLead
    <3>2. currentTerm[m] # t
      BY <1>2, <2>1, <3>1, OneLeader DEF Calm
    <3>3. more[currentTerm[m]] = lead[currentTerm[m]] /\ acked[m] = ack[m]
      BY <1>6, <1>7, <2>1, <3>1, <3>2
    <3>4. \A p \in Server : logs'[p] = logs[p] \/ currentTerm'[p] # currentTerm[m]
      BY <1>1, <1>4, <3>2
    <3> QED
      BY <1>1, <1>4, <1>8, <2>1, <3>1, <3>3, <3>4, LeaderStays
  <2>2. CASE m = n
    <3>1. LeaderFits(lead, ack, n)
      BY <1>1 DEF CommitInv
    <3> QED
      BY <1>1, <1>6, <1>7, <1>8, <2>2, <3>1 DEF LeaderFits
  <2> QED
    BY <2>1, <2>2
<1>11. ASSUME NEW d \in Callers, call'[d].kind = "append" PROVE BroadcastFits(more, acked, d)'
  <2>1. CASE d # b
    <3>1. call'[d] = call[d] /\ call[d].kind = "append"
      BY <1>5, <1>11, <2>1
    <3>2. LeaderOf(d[1], call[d].term) /\ d[1] # n /\ call[d].term \in Terms
      BY <1>1, <3>1, CalmTypes DEF Calm, CallsLead, FromLeader, Broadcasts
    <3>3. call[d].term # t
      BY <1>2, <3>2, OneLeader DEF Calm
    <3>4. more[call[d].term] = lead[call[d].term]
      BY <1>6, <3>2, <3>3
    <3>5. \A p \in Server : logs'[p] = logs[p] \/ currentTerm'[p] # call[d].term
      BY <1>1, <1>4, <3>3
    <3>6. DOMAIN call[d].reqs \subseteq Server /\ DOMAIN call[d].answers \subseteq Server
      BY <1>2 DEF TypeOK, IsCall
    <3> QED
      BY <1>1, <1>8, <3>1, <3>4, <3>5, <3>6, BroadcastStays
  <2> QED
    BY <1>9, <2>1
<1>12. ASSUME NEW d \in Callers, call'[d].kind = "vote" PROVE ElectionFits(more, acked, d)'
  <2>1. /\ call'[d] = call[d] /\ Successes(d)' = Successes(d) /\ d[1] \in Server
        /\ Voters(d)' = Voters(d)
    BY <1>5, <1>12, CallerTypes
  <2>2. (\A w \in won' : w.term = call[d].term => w.leader # d[1])
    BY <1>1, <1>12, <2>1 DEF CommitInv, ElectionFits
  <2>3. d[1] # n
    BY <1>1, <1>12, <2>1 DEF Calm, NodesLead
  <2>4. logs'[d[1]] = logs[d[1]]
    BY <1>4, <2>1, <2>3
  <2> QED
    BY <1>8, <1>12, <2>1, <2>2, <2>4, ElectionStays
<1>13. \A q \in Server :
           \/ logs'[q] = logs[q] /\ acked[q] = ack[q]
           \/ /\ LogFits(more, logs'[q], currentTerm'[q])
              /\ AcksKept(more, LedTerms', acked[q], logs'[q], currentTerm'[q])
  BY <1>4, <1>7, <1>8
<1>14. CommitInv(more, acked)'
  BY <1>1, <1>8, <1>10, <1>11, <1>12, <1>13, StepFits
<1> QED
  BY <1>14

\* Nobody has led the term of an election that is won.
LEMMA NewTerm ==
  ASSUME Calm, NEW lead, NEW ack, CommitInv(lead, ack), NEW c \in Callers, ElectionWon(c)
  PROVE  call[c].term \notin LedTerms /\ currentTerm[c[1]] = call[c].term
<1>1. /\ call[c].kind = "vote" /\ Late(c) = {}
      /\ won' = won \cup {[term |-> call[c].term, leader |-> c[1]]}
  BY DEF ElectionWon, Complete, Calm
<1>2. 1 <= call[c].term /\ (\A w \in won : w.term = call[c].term => w.leader # c[1])
  BY <1>1 DEF Calm, WinInv, VoteInv, Elections, CommitInv, ElectionFits
<1>3. ASSUME NEW w \in won, w.term = call[c].term PROVE FALSE
  <2>1. OneWinner'
    <3>1. (CalmWinInv => OneWinner)'
      BY WinnersMeet, PTL
    <3> QED
      BY <3>1 DEF Calm, CalmWinInv
  <2> DEFINE v == [term |-> call[c].term, leader |-> c[1]]
  <2>2. v \in won' /\ w \in won' /\ v.term = w.term /\ v.leader = c[1]
    BY <1>1, <1>3
  <2>3. Variant # "elastic" /\ Cardinality(Server) % 2 = 1 /\ upsets' \cap {"clash", "members"} = {}
    BY DEF Calm, Cluster
  <2> HIDE DEF v
  <2>4. v.leader = w.leader
    BY <2>1, <2>2, <2>3 DEF OneWinner
  <2> QED
    BY <1>2, <1>3, <2>2, <2>4
<1> QED
  BY <1>1, <1>2, <1>3 DEF LedTerms, Late

\* The winner has the votes of a majority, and its log is now the one of its term.
LEMMA WinningFacts ==
  ASSUME Calm, NEW lead, NEW ack, CommitInv(lead, ack), NEW c \in Callers, ElectionWon(c),
         NEW more \in LeaderLogs, more[call[c].term] = logs[c[1]],
         \A s \in Terms : s # call[c].term => more[s] = lead[s],
         NEW acked \in Acknowledged, acked[c[1]][call[c].term] = Len(logs[c[1]]),
         \A s \in Terms : s # call[c].term => acked[c[1]][s] = ack[c[1]][s],
         \A q \in Server \ {c[1]} : acked[q] = ack[q]
  PROVE  /\ Ahead(lead, more, ack, acked) /\ LeadersAgree(more, LedTerms')
         /\ LogFits(more, logs'[c[1]], currentTerm'[c[1]])
         /\ AcksKept(more, LedTerms', acked[c[1]], logs'[c[1]], currentTerm'[c[1]])
         /\ \A p \in Server : InStep(more, logs'[p], currentTerm'[p], call[c].term, Len(logs[c[1]]))
         /\ \E Q : IsQuorum(Q) /\ \A r \in Q :
                VotesFor(more, LedTerms', acked[r], currentTerm'[r], logs[c[1]], call[c].term)
<1> DEFINE n == c[1]
           t == call[c].term
           log == logs[n]
<1>1. /\ call[c].kind = "vote" /\ UNCHANGED <<logs, currentTerm>> /\ Elected(c)
      /\ won' = won \cup {[term |-> t, leader |-> n]}
  BY DEF ElectionWon, Complete, persistent
<1>2. /\ n \in Server /\ t \in Terms /\ t \in Nat /\ log \in Seq(Commanded) /\ LedTerms \in SUBSET Terms
      /\ TypeOK /\ TypeOK' /\ \A u \in LedTerms : u \in Nat
  BY CalmTypes
<1>3. /\ lead \in LeaderLogs /\ LeadersAgree(lead, LedTerms) /\ ack \in Acknowledged
      /\ LogFits(lead, log, currentTerm[n]) /\ AcksKept(lead, LedTerms, ack[n], log, currentTerm[n])
      /\ ElectionFits(lead, ack, c)
  BY <1>1, <1>2 DEF CommitInv, NodesFit
<1>4. t \notin LedTerms /\ currentTerm[n] = t /\ Len(log) \in Nat /\ lead[t] = <<>>
  BY <1>2, <1>3, NewTerm, LogTypes DEF LeadersAgree
<1>5. t \in LedTerms' /\ LedTerms \subseteq LedTerms' /\ won \subseteq won'
  <2> DEFINE w == [term |-> t, leader |-> n]
  <2>1. w \in won' /\ w.term = t /\ won \subseteq won'
    BY <1>1
  <2> HIDE DEF w, t
  <2> QED
    BY <2>1, LedStay DEF LedTerms
<1>6. LeadersAgree(more, LedTerms') /\ LeadGrows(lead, more, LedTerms)
  <2>1. /\ t \in Terms \ LedTerms /\ LogFits(lead, log, t) /\ more[t] = log
        /\ \A s \in Terms : s # t => more[s] = lead[s]
    BY <1>2, <1>3, <1>4
  <2> HIDE DEF t, log
  <2> QED
    BY <1>2, <1>3, <1>5, <2>1, WinnersLog
<1>7. Ahead(lead, more, ack, acked)
  <2>1. \A k \in 1..ack[n][t] : FALSE
    BY <1>2, <1>3, <1>4, EmptySeq DEF AcksKept
  <2>2. ack[n][t] \in Nat
    BY <1>2, <1>3 DEF Acknowledged
  <2>3. ack[n][t] = 0
    BY <2>1, <2>2
  <2>4. ack[n][t] <= acked[n][t] /\ currentTerm'[n] = t
    BY <1>1, <1>4, <2>3
  <2>5. \A r \in Server : \A s \in Terms :
            acked[r][s] = ack[r][s] \/ (ack[r][s] <= acked[r][s] /\ currentTerm'[r] = s)
    <3> SUFFICES ASSUME NEW r \in Server, NEW s \in Terms
                 PROVE  acked[r][s] = ack[r][s] \/ (ack[r][s] <= acked[r][s] /\ currentTerm'[r] = s)
      OBVIOUS
    <3>1. CASE r = n /\ s = t
      BY <2>4, <3>1
    <3>2. CASE r = n /\ s # t
      BY <3>2
    <3>3. CASE r # n
      BY <3>3
    <3> QED
      BY <3>1, <3>2, <3>3
  <2> QED
    BY <1>5, <1>6, <2>5 DEF Ahead, Calm
<1>8. LogFits(more, log, t)
  BY <1>2, <1>3, <1>4, <1>6, LogGrows
<1>9. \A s \in Terms, k \in Nat : Agree(log, lead[s], k) => Agree(log, more[s], k)
  BY <1>3, <1>6, AgreeGrows
<1>10. AcksKept(more, LedTerms', acked[n], log, t)
  <2> DEFINE M == LedTerms'
             acks == ack[n]
             new == acked[n]
  <2>1. /\ acks \in [Terms -> Nat] /\ new \in [Terms -> Nat] /\ t \in Int /\ t <= t
        /\ LedTerms \subseteq M /\ LedTerms \in SUBSET Terms
    BY <1>2, <1>3, <1>5 DEF Acknowledged
  <2>2. \A s \in Terms : new[s] = acks[s] \/ (s <= t /\ log = more[s] /\ new[s] = Len(log))
    BY <1>2
  <2>3. AcksKept(lead, LedTerms, acks, log, t)
    BY <1>3, <1>4
  <2> HIDE DEF t, log, M, acks, new
  <2>4. AcksKept(more, M, new, log, t)
    BY <1>3, <1>6, <1>9, <2>1, <2>2, <2>3, AcksGrow
  <2> QED
    BY <2>4 DEF M, new
<1>11. \A p \in Server : InStep(more, logs'[p], currentTerm'[p], t, Len(log))
  <2>1. more[t] = log
    OBVIOUS
  <2> HIDE DEF log
  <2> QED
    BY <1>4, <2>1 DEF InStep
<1> DEFINE Q == Successes(c) \cup {n}
<1>12. IsQuorum(Q)
  <2>1. VoteInv /\ PlainLogs /\ "members" \notin upsets /\ Cardinality(Server) % 2 = 1
    BY DEF Calm, WinInv, Cluster
  <2> QED
    BY <1>1, <2>1, ElectedQuorum
<1>13. ASSUME NEW r \in Q
       PROVE  VotesFor(more, LedTerms', acked[r], currentTerm'[r], log, t)
  <2>1. r \in Server
    BY <1>12 DEF IsQuorum
  <2>2. VotesFor(lead, LedTerms, ack[r], currentTerm[r], log, t)
    <3>1. CASE r \in Successes(c)
      BY <1>3, <1>4, <3>1 DEF ElectionFits
    <3>2. CASE r = n
      <4>1. ASSUME NEW s \in Terms, NEW k \in 1..ack[n][s] PROVE Kept(lead, LedTerms, log, s, k, t - 1)
        <5>1. Kept(lead, LedTerms, log, s, k, t)
          BY <1>3, <1>4, <4>1 DEF AcksKept
        <5>2. \A u \in LedTerms : u <= t => u <= t - 1
          BY <1>2, <1>4
        <5> QED
          BY <5>1, <5>2 DEF Kept
      <4> QED
        BY <1>2, <1>4, <3>2, <4>1 DEF VotesFor, VoteSafe
    <3> QED
      BY <3>1, <3>2
  <2> HIDE DEF t, log, Q
  <2> QED
    BY <1>2, <1>7, <1>9, <2>1, <2>2, VoterStays
<1> HIDE DEF Q
<1> QED
  BY <1>1, <1>4, <1>6, <1>7, <1>8, <1>10, <1>11, <1>12, <1>13

LEMMA WonStep ==
  ASSUME Calm, NEW lead, NEW ack, CommitInv(lead, ack), NEW c \in Callers, ElectionWon(c)
  PROVE  \E more, acked : CommitInv(more, acked)'
<1> DEFINE n == c[1]
           t == call[c].term
<1>1. /\ call[c].kind = "vote" /\ CallEnds(c) /\ UNCHANGED <<logs, currentTerm, committed>>
      /\ role' = [role EXCEPT ![n] = "LEADER"]
      /\ nextIndex' = [nextIndex EXCEPT ![n] =
             [p \in Server |-> IF p \in CurrentPeers(n, logs[n]) THEN Len(logs[n]) ELSE @[p]]]
      /\ won' = won \cup {[term |-> t, leader |-> n]}
  BY DEF ElectionWon, Complete, persistent
<1>2. /\ n \in Server /\ t \in Terms /\ logs[n] \in Seq(Commanded) /\ TypeOK /\ CallsOK
      /\ lead \in LeaderLogs /\ ack \in Acknowledged
  BY CalmTypes DEF CommitInv
<1>3. t \notin LedTerms /\ currentTerm[n] = t /\ Len(logs[n]) \in Nat
  BY <1>2, NewTerm, LogTypes
<1>4. \A d \in Callers : call'[d].kind # "none" =>
          /\ d # c /\ call'[d] = call[d] /\ Successes(d)' = Successes(d)
          /\ Voters(d)' = Voters(d)
  BY <1>1, <1>2, CallIsOver DEF Successes, Voters
<1>5. /\ \A m \in Server : m # n => role'[m] = role[m] /\ nextIndex'[m] = nextIndex[m]
      /\ \A p \in Server \ {n} : nextIndex'[n][p] = Len(logs[n])
  BY <1>1, <1>2, CalmPeers DEF TypeOK
<1>6. PICK more \in LeaderLogs : more[t] = logs[n] /\ \A s \in Terms : s # t => more[s] = lead[s]
  <2>1. [lead EXCEPT ![t] = logs[n]] \in LeaderLogs
    BY <1>2 DEF LeaderLogs
  <2> WITNESS [lead EXCEPT ![t] = logs[n]] \in LeaderLogs
  <2> QED
    BY <1>2 DEF LeaderLogs
<1>7. PICK acked \in Acknowledged :
          /\ acked[n][t] = Len(logs[n]) /\ \A s \in Terms : s # t => acked[n][s] = ack[n][s]
          /\ \A q \in Server \ {n} : acked[q] = ack[q]
  <2> DEFINE most == Len(logs[n])
  <2> HIDE DEF t
  <2>1. [ack EXCEPT ![n] = [ack[n] EXCEPT ![t] = most]] \in Acknowledged
    BY <1>2, <1>3 DEF Acknowledged
  <2> WITNESS [ack EXCEPT ![n] = [ack[n] EXCEPT ![t] = most]] \in Acknowledged
  <2> QED
    BY <1>2 DEF Acknowledged
<1>8. /\ Ahead(lead, more, ack, acked) /\ LeadersAgree(more, LedTerms')
      /\ LogFits(more, logs'[n], currentTerm'[n])
      /\ AcksKept(more, LedTerms', acked[n], logs'[n], currentTerm'[n])
      /\ \A p \in Server : InStep(more, logs'[p], currentTerm'[p], t, Len(logs[n]))
      /\ \E Q : IsQuorum(Q) /\ \A r \in Q :
             VotesFor(more, LedTerms', acked[r], currentTerm'[r], logs[n], t)
  BY <1>6, <1>7, WinningFacts
<1>9. \A s \in LedTerms : s \in Terms /\ s # t /\ more[s] = lead[s]
  BY <1>3, <1>6, CalmTypes
<1>10. ASSUME NEW m \in Server, role'[m] = "LEADER" PROVE LeaderFits(more, acked, m)'
  <2>1. CASE m # n
    <3>1. role[m] = "LEADER" /\ currentTerm[m] \in LedTerms
      BY <1>5, <1>10, <2>1, LedBy DEF Calm, NodesLead
    <3>2. more[currentTerm[m]] = lead[currentTerm[m]] /\ acked[m] = ack[m]
      BY <1>7, <1>9, <2>1, <3>1
    <3> QED
      BY <1>1, <1>5, <1>8, <2>1, <3>1, <3>2, LeaderStays
  <2>2. CASE m = n
    <3>1. more[currentTerm'[n]] = logs'[n] /\ acked[n][currentTerm'[n]] = Len(logs'[n])
      BY <1>1, <1>3, <1>6, <1>7
    <3>2. \A p \in Server \ {n} :
              /\ nextIndex'[n][p] >= 0
              /\ InStep(more, logs'[p], currentTerm'[p], currentTerm'[n], nextIndex'[n][p])
      BY <1>1, <1>3, <1>5, <1>8
    <3> QED
      BY <2>2, <3>1, <3>2 DEF LeaderFits
  <2> QED
    BY <2>1, <2>2
<1>11. ASSUME NEW d \in Callers, call'[d].kind = "append" PROVE BroadcastFits(more, acked, d)'
  <2>1. call'[d] = call[d] /\ call[d].kind = "append" /\ d[1] \in Server
    BY <1>4, <1>11, CallerTypes
  <2>2. call[d].term \in LedTerms
    BY <2>1, LedBy DEF Calm, CallsLead, FromLeader
  <2>3. currentTerm'[d[1]] = call[d].term => nextIndex'[d[1]] = nextIndex[d[1]]
    BY <1>1, <1>3, <1>5, <1>9, <2>1, <2>2
  <2> QED
    BY <1>1, <1>8, <1>9, <2>1, <2>2, <2>3, BroadcastStays
<1>12. ASSUME NEW d \in Callers, call'[d].kind = "vote" PROVE ElectionFits(more, acked, d)'
  <2>1. /\ d # c /\ call'[d] = call[d] /\ Successes(d)' = Successes(d) /\ call[d].kind = "vote"
        /\ Voters(d)' = Voters(d)
    BY <1>4, <1>12
  <2>2. \A w \in won : w.term = call[d].term => w.leader # d[1]
    BY <2>1 DEF CommitInv, ElectionFits
  <2>3. d[1] # n
    <3>1. d[2] = "run" /\ c[2] = "run"
      BY <1>1, <2>1 DEF Calm, NodesLead
    <3> QED
      BY <2>1, <3>1 DEF Callers
  <2>4. \A w \in won' : w.term = call[d].term => w.leader # d[1]
    BY <1>1, <2>2, <2>3
  <2> QED
    BY <1>1, <1>8, <2>1, <2>4, ElectionStays
<1>13. \A w \in won' \ won : WinnerFits(more, acked, w)'
  <2>1. ASSUME NEW w, w.term = t, w.leader = n PROVE WinnerFits(more, acked, w)'
    <3>1. w.term <= currentTerm'[w.leader]
      BY <1>1, <1>3, <2>1, CalmTypes
    <3> QED
      BY <1>6, <1>8, <2>1, <3>1 DEF WinnerFits
  <2> QED
    BY <1>1, <2>1
<1>14. \A q \in Server :
           \/ logs'[q] = logs[q] /\ acked[q] = ack[q]
           \/ /\ LogFits(more, logs'[q], currentTerm'[q])
              /\ AcksKept(more, LedTerms', acked[q], logs'[q], currentTerm'[q])
  BY <1>1, <1>7, <1>8
<1>15. CommitInv(more, acked)'
  BY <1>1, <1>8, <1>10, <1>11, <1>12, <1>13, <1>14, StepFits
<1> QED
  BY <1>15

LEMMA HandleFits ==
  ASSUME Calm, NEW lead, NEW ack, CommitInv(lead, ack), NEW c \in Callers, NEW p \in Server,
         Handle(c, p) \/ RequestLost(c, p)
  PROVE  \E more, acked : CommitInv(more, acked)'
<1>1. CASE AppendEntryTo(c, p) \/ RequestVoteFrom(c, p)
  BY <1>1, ArrivalStep
<1>2. CASE \/ AppendEntryCompares(c, p) \/ AppendEntryAdopts(c, p)
           \/ RequestVoteCompares(c, p) \/ RequestVoteRaises(c, p)
  BY <1>2, EarlyStep
<1>3. CASE AppendEntryStores(c, p)
  <2>1. CASE ~Matches(logs[p], call[c].reqs[p])
    BY <1>3, <2>1, RefusedStep
  <2>2. CASE Matches(logs[p], call[c].reqs[p])
    BY <1>3, <2>2, AppendedStep
  <2> QED
    BY <2>1, <2>2
<1>4. CASE RequestVoteDecides(c, p)
  BY <1>4, DecisionStep
<1>5. CASE Vote(c, p)
  BY <1>5, VoteStep
<1>6. CASE RequestLost(c, p)
  BY <1>6, LostStep
<1> QED
  BY <1>1, <1>2, <1>3, <1>4, <1>5, <1>6 DEF Handle, HandleAppendEntry, HandleRequestVote

\* Every step of a calm cluster keeps the invariant, with more history.
LEMMA CommitStep ==
  ASSUME Calm, [Next]_vars, NEW lead, NEW ack, CommitInv(lead, ack)
  PROVE  \E more, acked : CommitInv(more, acked)'
<1>0. TypeOK
  BY CalmTypes
<1>1. CASE UNCHANGED vars
  <2>1. UNCHANGED <<logs, currentTerm, nextIndex, call, won, committed, role>>
    BY <1>1 DEF vars, persistent, volatile, history
  <2> QED
    BY <2>1, IdleStep
<1>2. ASSUME NEW n \in Server, Loop(n) PROVE \E more, acked : CommitInv(more, acked)'
  <2>1. CASE TakeInbound(n) \/ FollowerTimeout(n)
    <3>1. /\ UNCHANGED <<logs, currentTerm, nextIndex, call, won, committed>>
          /\ UNCHANGED role \/ role' = [role EXCEPT ![n] = "CANDIDATE"]
      BY <2>1 DEF TakeInbound, FollowerTimeout, persistent, volatile, history
    <3>2. \A m \in Server : role'[m] = "LEADER" => role[m] = "LEADER"
      BY <1>0, <3>1 DEF TypeOK
    <3> QED
      BY <3>1, <3>2, IdleStep
  <2>2. CASE LeaderTimeout(n)
    BY <2>2, LeaderStep
  <2>3. CASE CandidateTimeout(n)
    BY <2>3, CandidateStep
  <2> QED
    BY <1>2, <2>1, <2>2, <2>3 DEF Loop
<1>3. ASSUME NEW n \in Server, Client(n) PROVE \E more, acked : CommitInv(more, acked)'
  <2>1. CASE ClientOther(n)
    <3>1. UNCHANGED <<logs, currentTerm, nextIndex, call, won, committed, role>>
      BY <2>1 DEF ClientOther, persistent, volatile, history
    <3> QED
      BY <3>1, IdleStep
  <2>2. ASSUME NEW cmd \in Commands, ClientRequest(n, cmd)
        PROVE  \E more, acked : CommitInv(more, acked)'
    <3>1. UNCHANGED <<logs, currentTerm, nextIndex, call, won, committed, role>>
      BY <2>2 DEF ClientRequest, persistent, volatile
    <3> QED
      BY <3>1, IdleStep
  <2>3. CASE ClientAppends(n)
    BY <2>3, ClientStep
  <2> QED
    BY <1>3, <2>1, <2>2, <2>3 DEF Client
<1>4. ASSUME NEW c \in Callers, Ends(c) PROVE \E more, acked : CommitInv(more, acked)'
  <2>1. CASE ElectionLost(c) \/ BroadcastStale(c)
    BY <2>1, StaleStep
  <2>2. CASE ElectionWon(c)
    BY <2>2, WonStep
  <2>3. CASE BroadcastDone(c)
    BY <2>3, DoneStep
  <2>4. CASE BroadcastPanics(c)
    BY <2>4, PanicStep
  <2> QED
    BY <1>4, <2>1, <2>2, <2>3, <2>4 DEF Ends
<1> QED
  BY <1>1, <1>2, <1>3, <1>4, HandleFits DEF Next

\* A cluster of one node commits what it has, and never takes it back.
Alone ==
    Cardinality(Server) = 1 =>
        \A e \in committed : \A n \in Server :
            Len(e.log) <= Len(logs[n]) /\ \A i \in 1..Len(e.log) : logs[n][i] = e.log[i]

\* A node that is alone only adds to its log.
LEMMA AloneLog ==
  ASSUME Calm, [Next]_vars, Cardinality(Server) = 1, NEW n \in Server
  PROVE  \/ logs'[n] = logs[n]
         \/ \E e \in Commanded : logs'[n] = Append(logs[n], e)
<1>1. TypeOK /\ Server = {n}
  BY CalmTypes, CalmPeers
<1>2. ASSUME NEW m \in Server, Client(m) PROVE logs' = logs \/ \E e \in Commanded : logs'[n] = Append(logs[n], e)
  <2>1. CASE ClientOther(m) \/ \E cmd \in Commands : ClientRequest(m, cmd)
    BY <2>1 DEF ClientOther, ClientRequest, persistent
  <2>2. CASE ClientAppends(m)
    <3>1. PICK e \in Commanded : logs' = [logs EXCEPT ![m] = Append(logs[m], e)]
      BY <2>2, AddsTaken
    <3>2. m = n /\ logs'[n] = Append(logs[n], e)
      BY <1>1, <3>1 DEF TypeOK
    <3> QED
      BY <3>2
  <2> QED
    BY <1>2, <2>1, <2>2 DEF Client
<1>3. ASSUME NEW c \in Callers, NEW p \in Server, Handle(c, p) \/ RequestLost(c, p)
      PROVE  logs' = logs
  <2>1. p \in DOMAIN call[c].reqs
    BY <1>1, <1>3, HandlesRequest
  <2>2. c[1] \notin DOMAIN call[c].reqs /\ c[1] \in Server
    BY CallerTypes DEF Calm, WinInv, VoteInv, Knows, Others
  <2> QED
    BY <1>1, <2>1, <2>2
<1>4. ASSUME NEW c \in Callers, Ends(c) PROVE logs' = logs
  BY <1>4 DEF Ends, ElectionLost, ElectionWon, BroadcastStale, BroadcastDone, BroadcastPanics,
              StepsDown, persistent
<1>5. ASSUME NEW m \in Server, Loop(m) PROVE logs' = logs
  BY <1>5 DEF Loop, TakeInbound, FollowerTimeout, LeaderTimeout, CandidateTimeout, persistent
<1>6. UNCHANGED vars => logs' = logs
  BY DEF vars, persistent
<1> QED
  BY <1>2, <1>3, <1>4, <1>5, <1>6 DEF Next

LEMMA AloneStep ==
  ASSUME Calm, [Next]_vars, NEW lead, NEW ack, CommitInv(lead, ack), Alone
  PROVE  Alone'
<1> SUFFICES ASSUME Cardinality(Server) = 1, NEW e \in committed', NEW n \in Server
             PROVE  Len(e.log) <= Len(logs'[n]) /\ \A i \in 1..Len(e.log) : logs'[n][i] = e.log[i]
  BY DEF Alone
<1>1. /\ TypeOK /\ Server = {n} /\ logs[n] \in Seq(Commanded) /\ Len(logs[n]) \in Nat
      /\ CurrentPeers(n, logs[n]) = {}
  <2>1. TypeOK /\ Server = {n}
    BY CalmTypes, CalmPeers
  <2>2. logs[n] \in Seq(Commanded) /\ CurrentPeers(n, logs[n]) = Server \ {n}
    BY CalmTypes, CalmPeers
  <2> QED
    BY <2>1, <2>2, LogTypes
<1>2. ASSUME Len(e.log) <= Len(logs[n]), \A i \in 1..Len(e.log) : logs[n][i] = e.log[i],
             Len(e.log) \in Nat
      PROVE  Len(e.log) <= Len(logs'[n]) /\ \A i \in 1..Len(e.log) : logs'[n][i] = e.log[i]
  <2>1. CASE logs'[n] = logs[n]
    BY <1>2, <2>1
  <2>2. ASSUME NEW new \in Commanded, logs'[n] = Append(logs[n], new)
        PROVE  Len(e.log) <= Len(logs'[n]) /\ \A i \in 1..Len(e.log) : logs'[n][i] = e.log[i]
    <3>1. Len(logs'[n]) = Len(logs[n]) + 1 /\ \A i \in 1..Len(logs[n]) : logs'[n][i] = logs[n][i]
      BY <1>1, <2>2, AppendProperties
    <3> QED
      BY <1>1, <1>2, <3>1
  <2> QED
    BY <2>1, <2>2, AloneLog
<1>3. ASSUME NEW c \in Callers, BroadcastDone(c), e \notin committed
      PROVE  /\ Len(e.log) <= Len(logs[n]) /\ \A i \in 1..Len(e.log) : logs[n][i] = e.log[i]
             /\ Len(e.log) \in Nat
  <2>1. c[1] = n
    BY <1>1, CallerTypes
  <2>2. e.log = SubSeq(logs[n], 1, Len(logs[n]) - 1 + 1)
    BY <1>1, <1>3, <2>1 DEF BroadcastDone, NewCommittedIndex
  <2> DEFINE k == Len(logs[n])
  <2>3. k \in Nat /\ e.log = SubSeq(logs[n], 1, k) /\ \A i \in 1..k : logs[n][i] \in Commanded
    BY <1>1, <2>2, ElementOfSeq
  <2> HIDE DEF k
  <2>4. Len(e.log) = k /\ \A i \in 1..k : e.log[i] = logs[n][i]
    BY <2>3, SubSeqProperties
  <2> QED
    BY <2>3, <2>4 DEF k
<1>4. CASE e \in committed
  <2>1. e.log \in Seq(Commanded)
    BY <1>4 DEF CommitInv, CommitFits
  <2>2. Len(e.log) \in Nat
    BY <2>1, LogTypes
  <2>3. Len(e.log) <= Len(logs[n]) /\ \A i \in 1..Len(e.log) : logs[n][i] = e.log[i]
    BY <1>4 DEF Alone
  <2> QED
    BY <1>2, <2>2, <2>3
<1>5. CASE e \notin committed
  <2>1. PICK c \in Callers : BroadcastDone(c)
    <3>1. ASSUME NEW m \in Server, Loop(m) \/ Client(m) PROVE committed' = committed
      BY <3>1 DEF Loop, Client, TakeInbound, FollowerTimeout, LeaderTimeout, CandidateTimeout,
                  ClientOther, ClientRequest, ClientAppends, history
    <3>2. ASSUME NEW c \in Callers, NEW p \in Server, Handle(c, p) \/ RequestLost(c, p)
          PROVE  committed' = committed
      BY <1>1, <3>2, HandlesRequest
    <3>3. ASSUME NEW c \in Callers, Ends(c), ~BroadcastDone(c) PROVE committed' = committed
      BY <3>3 DEF Ends, ElectionLost, ElectionWon, BroadcastStale, BroadcastPanics, history
    <3>4. UNCHANGED vars => committed' = committed
      BY DEF vars, history
    <3> QED
      BY <1>5, <3>1, <3>2, <3>3, <3>4 DEF Next
  <2>2. /\ Len(e.log) <= Len(logs[n]) /\ \A i \in 1..Len(e.log) : logs[n][i] = e.log[i]
        /\ Len(e.log) \in Nat
    BY <1>3, <1>5, <2>1
  <2> QED
    BY <1>2, <2>2
<1> QED
  BY <1>4, <1>5

\* No leader has a log at first, and nobody has acknowledged anything.
LEMMA CommitInit ==
  ASSUME Init
  PROVE  (\E lead, ack : CommitInv(lead, ack)) /\ Alone
<1> DEFINE lead == [t \in Terms |-> <<>>]
           ack == [n \in Server |-> [t \in Terms |-> 0]]
<1>1. lead \in LeaderLogs /\ ack \in Acknowledged
  BY EmptySeq DEF LeaderLogs, Acknowledged
<1>2. /\ \A t \in Terms : lead[t] = <<>> /\ Len(lead[t]) = 0 /\ 1..Len(lead[t]) = {}
      /\ \A n \in Server : \A t \in Terms : ack[n][t] = 0 /\ 1..ack[n][t] = {}
      /\ 0 \in Terms
  BY ConstantsAssumption DEF Terms
<1> HIDE DEF lead, ack
<1>3. /\ \A n \in Server : /\ currentTerm[n] = 0 /\ logs[n] = <<>> /\ Len(logs[n]) = 0
                           /\ 1..Len(logs[n]) = {}
                           /\ \A p \in Server : nextIndex[n][p] = 0
      /\ \A c \in Callers : call[c].kind = "none"
      /\ won = {} /\ committed = {}
  BY DEF Init, NoCall
<1>4. LeadersAgree(lead, LedTerms)
  BY <1>2 DEF LeadersAgree
<1>5. NodesFit(lead, ack)
  BY <1>2, <1>3 DEF NodesFit, LogFits, AcksKept
<1>6. \A n \in Server : LeaderFits(lead, ack, n)
  BY <1>2, <1>3 DEF LeaderFits, InStep
<1>7. Alone
  BY <1>3 DEF Alone
<1>8. CommitInv(lead, ack)
  BY <1>1, <1>3, <1>4, <1>5, <1>6 DEF CommitInv
<1> QED
  BY <1>7, <1>8

\* A leader has what was committed in its term or an older one.
LEMMA CommitsLed ==
  ASSUME WinInv, upsets = {}, NodesLead, NEW lead, NEW ack, CommitInv(lead, ack),
         Cardinality(Server) # 1, NEW e \in committed,
         NEW n \in Server, role[n] = "LEADER", currentTerm[n] >= e.term
  PROVE  Len(e.log) <= Len(logs[n]) /\ \A i \in 1..Len(e.log) : logs[n][i] = e.log[i]
<1> DEFINE t == e.term
           T == currentTerm[n]
           k == Len(e.log)
<1>1. /\ t \in Terms /\ T \in Terms /\ t \in Nat /\ T \in Nat /\ k \in Nat /\ e.log \in Seq(Commanded)
      /\ 1 <= k /\ Agree(e.log, lead[t], k) /\ lead[t][k].Term = t
  <2>1. /\ e.term \in Terms /\ e.log \in Seq(Commanded) /\ 1 <= Len(e.log)
        /\ Agree(e.log, lead[e.term], Len(e.log)) /\ lead[e.term][Len(e.log)].Term = e.term
    BY DEF CommitInv, CommitFits
  <2>2. currentTerm[n] \in Terms
    BY DEF WinInv, VoteInv, TypeOK
  <2> QED
    BY <2>1, <2>2, LogTypes, ConstantsAssumption DEF Terms
<1>2. PICK Q : IsQuorum(Q) /\ \A r \in Q : k <= ack[r][t]
  BY DEF CommitInv, CommitFits
<1>3. /\ lead \in LeaderLogs /\ ack \in [Server -> [Terms -> Nat]] /\ logs[n] = lead[T]
      /\ LedTerms \in SUBSET Terms
  BY LedTypes DEF CommitInv, Acknowledged, LeaderFits
<1>4. \A u \in LedTerms : u # 0 =>
          \E R : IsQuorum(R) /\ \A r \in R : VoteSafe(lead, LedTerms, ack[r], lead[u], u)
  <2>1. \A w \in won : \E R : IsQuorum(R) /\ \A r \in R : VoteSafe(lead, LedTerms, ack[r], lead[w.term], w.term)
    BY DEF CommitInv, WinnerFits, VotesFor
  <2> QED
    BY <2>1 DEF LedTerms
<1>5. T \in LedTerms
  BY LedBy DEF NodesLead
<1>6. T = t \/ t < T
  BY <1>1
<1> HIDE DEF t, T, k
<1>7. Agree(lead[T], lead[t], k)
  <2>1. CASE T = t
    BY <1>1, <2>1 DEF Agree
  <2>2. CASE t < T
    <3>1. k \in Nat \ {0}
      BY <1>1
    <3>2. \A u \in LedTerms : t < u => Agree(lead[u], lead[t], k)
      BY <1>1, <1>2, <1>3, <1>4, <3>1, LedHave
    <3> QED
      BY <1>5, <2>2, <3>2
  <2> QED
    BY <1>6, <2>1, <2>2
<1>8. k <= Len(logs[n]) /\ \A i \in 1..k : logs[n][i] = e.log[i]
  BY <1>1, <1>3, <1>7 DEF Agree
<1> QED
  BY <1>8 DEF k

LEMMA CommitsKept ==
  ASSUME Cluster, CalmWinInv, Leaders,
         upsets = {} => (\E lead, ack : CommitInv(lead, ack)) /\ Alone
  PROVE  CommittedKept
<1> SUFFICES ASSUME upsets = {}, NEW e \in committed, NEW n \in Server,
                    role[n] = "LEADER", currentTerm[n] >= e.term
             PROVE  Len(e.log) <= Len(logs[n]) /\ SubSeq(logs[n], 1, Len(e.log)) = e.log
  BY DEF CommittedKept, Orderly
<1>1. PICK lead, ack : CommitInv(lead, ack)
  OBVIOUS
<1>0. WinInv
  BY DEF CalmWinInv
<1>2. Len(e.log) <= Len(logs[n]) /\ \A i \in 1..Len(e.log) : logs[n][i] = e.log[i]
  <2>1. CASE Cardinality(Server) = 1
    BY <2>1 DEF Alone
  <2>2. CASE Cardinality(Server) # 1
    BY <1>0, <1>1, <2>2, CommitsLed DEF Leaders
  <2> QED
    BY <2>1, <2>2
<1>3. e.log \in Seq(Commanded) /\ logs[n] \in Seq(Commanded) /\ Len(logs[n]) \in Nat /\ Len(e.log) \in Nat
  <2>1. e.log \in Seq(Commanded) /\ logs[n] \in Seq(Commanded)
    BY <1>0, <1>1 DEF CommitInv, CommitFits, WinInv, VoteInv, TypeOK
  <2> QED
    BY <2>1, LogTypes
<1> DEFINE first == SubSeq(logs[n], 1, Len(e.log))
<1>4. \A i \in 1..Len(e.log) : logs[n][i] \in Commanded
  BY <1>2, <1>3, ElementOfSeq
<1>5. /\ first \in Seq(Commanded) /\ Len(first) = Len(e.log)
      /\ \A i \in 1..Len(e.log) : first[i] = logs[n][i]
  BY <1>3, <1>4, SubSeqProperties
<1> HIDE DEF first
<1>6. first = e.log
  BY <1>2, <1>3, <1>5, SeqEqual
<1> QED
  BY <1>2, <1>6 DEF first

\* A log that is counted as committed is never lost: in a cluster of an odd size
\* with at most one forced leader every later leader has it, whatever messages are
\* lost and whoever wins the elections, as long as nothing upsets the cluster: no
\* two goroutines of a node clash, no answer comes when its term is over, no node
\* has two broadcasts at a time, and nobody changes the members.
THEOREM RaftKeeps == Spec => []CommittedKept
<1>1. CASE Cluster
  <2> DEFINE Fits == upsets = {} => (\E lead, ack : CommitInv(lead, ack)) /\ Alone
  <2>1. Spec => []CalmWinInv
    BY <1>1, WinInvariant DEF Cluster
  <2>2. Init => Fits
    BY CommitInit
  <2>3. CalmWinInv /\ CalmWinInv' /\ Leaders /\ NextInLog /\ Fits /\ [Next]_vars
            => Leaders' /\ NextInLog' /\ Fits'
    <3> SUFFICES ASSUME CalmWinInv, CalmWinInv', Leaders, NextInLog, Fits, [Next]_vars
                 PROVE  Leaders' /\ NextInLog' /\ Fits'
      OBVIOUS
    <3>1. Leaders' /\ NextInLog'
      BY <1>1, LeadersStep, NextInLogStep, UpsetsStay DEF CalmWinInv, Leaders, NextInLog
    <3>2. ASSUME upsets' = {} PROVE (\E lead, ack : CommitInv(lead, ack)') /\ Alone'
      <4>1. upsets = {}
        BY <3>2, UpsetsStay
      <4>2. WinInv /\ WinInv'
        BY <3>2, <4>1 DEF CalmWinInv
      <4>3. TermsRise
        BY <1>1, <3>2, <4>2, VoteInvariant DEF Cluster, WinInv
      <4>4. Calm
        BY <1>1, <3>1, <3>2, <4>1, <4>2, <4>3 DEF Calm, Leaders
      <4>5. PICK lead, ack : CommitInv(lead, ack)
        BY <4>1
      <4> QED
        BY <4>1, <4>4, <4>5, CommitStep, AloneStep
    <3> QED
      BY <3>1, <3>2
  <2>4. CalmWinInv /\ Leaders /\ Fits => CommittedKept
    BY <1>1, CommitsKept
  <2> HIDE DEF Fits
  <2> QED
    BY <2>1, <2>2, <2>3, <2>4, LeadInit, PTL DEF Spec
<1>2. CASE ~Cluster
  <2>1. CommittedKept
    BY <1>2 DEF CommittedKept, Orderly, Cluster
  <2> QED
    BY <2>1, PTL
<1> QED
  BY <1>1, <1>2
==============================================================================
