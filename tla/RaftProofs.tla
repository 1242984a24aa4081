------------------------------ MODULE RaftProofs ------------------------------
(* Proofs about Raft, for every size of the cluster and every bound: types,  *)
(* votes that are final, one winner per term, and a leader that finds in its *)
(* log what it has sent.                                                     *)
EXTENDS Raft, FiniteSetTheorems, SequenceTheorems, TLAPS

(***************************************************************************)
(* Types of the operators.                                                 *)
(***************************************************************************)
CallsOK ==
    /\ call = [c \in Callers |-> call[c]]
    /\ \A c \in Callers : IsCall(call[c])

LEMMA CallerTypes ==
  /\ \A c \in Callers : c[1] \in Server /\ c[2] \in {"run", "client"}
  /\ \A n \in Server : Caller(n, "run") \in Callers /\ Caller(n, "client") \in Callers
  /\ \A n \in Server : Caller(n, "run")[1] = n /\ Caller(n, "client")[1] = n
  BY DEF Callers, Caller

\* One call is replaced by another of the right type.
LEMMA CallReplaced ==
  ASSUME CallsOK, NEW c \in Callers, NEW k, IsCall(k), call' = [call EXCEPT ![c] = k]
  PROVE  CallsOK'
  BY DEF CallsOK

LEMMA AnsweredTypes ==
  ASSUME CallsOK, NEW c \in Callers, NEW p \in DOMAIN call[c].reqs, NEW a \in Answers,
         Answered(c, p, a)
  PROVE  CallsOK'
<1> DEFINE k == [kind |-> call[c].kind, term |-> call[c].term,
                 reqs |-> [q \in DOMAIN call[c].reqs \ {p} |-> call[c].reqs[q]],
                 at |-> [q \in DOMAIN call[c].at \ {p} |-> call[c].at[q]],
                 answers |-> [q \in DOMAIN call[c].answers \cup {p} |->
                                 IF q = p THEN a ELSE call[c].answers[q]]]
<1>1. call' = [call EXCEPT ![c] = k]
  BY DEF Answered
<1>2. IsCall(k)
  BY DEF CallsOK, IsCall
<1> QED
  BY <1>1, <1>2, CallReplaced

LEMMA GoesOnTypes ==
  ASSUME CallsOK, NEW c \in Callers, NEW p \in DOMAIN call[c].reqs, NEW step \in Steps,
         GoesOn(c, p, step)
  PROVE  CallsOK'
<1> DEFINE k == [kind |-> call[c].kind, term |-> call[c].term, reqs |-> call[c].reqs,
                 at |-> [q \in DOMAIN call[c].at \cup {p} |->
                            IF q = p THEN step ELSE call[c].at[q]],
                 answers |-> call[c].answers]
<1>1. call' = [call EXCEPT ![c] = k]
  BY DEF GoesOn
<1>2. IsCall(k)
  BY DEF CallsOK, IsCall
<1> QED
  BY <1>1, <1>2, CallReplaced

LEMMA CallEndsTypes ==
  ASSUME CallsOK, NEW c \in Callers, CallEnds(c)
  PROVE  CallsOK'
<1>1. IsCall(NoCall)
  BY ConstantsAssumption DEF IsCall, NoCall, Nothing, Terms
<1> QED
  BY <1>1, CallReplaced DEF CallEnds

LEMMA SendTypes ==
  ASSUME CallsOK, NEW c \in Callers, NEW kind \in {"vote", "append"}, NEW reqs,
         Send(c, kind, reqs), currentTerm'[c[1]] \in Terms, DOMAIN reqs \subseteq Server,
         \A p \in DOMAIN reqs :
             /\ kind = "vote" => reqs[p] \in VoteRequests
             /\ kind = "append" =>
                    reqs[p] \in AppendRequests /\ reqs[p].PrevLogIndex >= -1
  PROVE  CallsOK'
<1> DEFINE k == [kind |-> kind, term |-> currentTerm'[c[1]], reqs |-> reqs,
                 at |-> Nothing, answers |-> Nothing]
<1>1. call' = [call EXCEPT ![c] = k]
  BY DEF Send
<1>2. IsCall(k)
  BY DEF IsCall, Nothing
<1> QED
  BY <1>1, <1>2, CallReplaced

LEMMA PeersTypes == \A n, log : CurrentPeers(n, log) \subseteq Server \ {n}
  BY DEF CurrentPeers

\* What broadcastEntry sends of a log is a part of it.
LEMMA EntryTypes ==
  ASSUME NEW S, NEW log \in Seq(S), NEW next \in 0..Len(log)
  PROVE  SubSeq(log, next + 1, IF next < Len(log) THEN next + 1 ELSE next) \in Seq(S)
<1>1. CASE next < Len(log)
  BY <1>1, SubSeqProperties
<1>2. CASE next >= Len(log)
  BY <1>2, SubSeqProperties
<1> QED
  BY <1>1, <1>2

LEMMA AppendedTypes ==
  ASSUME NEW S, NEW log \in Seq(S), NEW req,
         req.PrevLogIndex \in Int, req.PrevLogIndex >= -1, req.Entry \in Seq(S),
         Matches(log, req)
  PROVE  Appended(log, req) \in Seq(S)
<1>1. req.PrevLogIndex + 1 \in 0..Len(log)
  BY LenProperties DEF Matches
<1>2. SubSeq(log, 1, req.PrevLogIndex + 1) \in Seq(S)
  BY <1>1, SubSeqProperties
<1> QED
  BY <1>2, ConcatProperties DEF Appended

LEMMA BroadcastTypes ==
  ASSUME TypeOK, NEW c \in Callers, NEW log \in Seq(Commanded), UNCHANGED currentTerm,
         BroadcastEntry(c, log)
  PROVE  CallsOK'
<1> DEFINE n == c[1]
           peers == CurrentPeers(n, log)
<1>1. n \in Server /\ peers \subseteq Server
  BY CallerTypes, PeersTypes
<1>2. ASSUME NEW p \in peers
      PROVE  /\ AppendEntryRequest(n, p, log) \in AppendRequests
             /\ AppendEntryRequest(n, p, log).PrevLogIndex >= -1
  <2>1. nextIndex[n][p] \in 0..Len(log)
    BY <1>2 DEF BroadcastEntry
  <2>2. nextIndex[n][p] > 0 => log[nextIndex[n][p]] \in Commanded
    BY <2>1, LenProperties, ElementOfSeq
  <2>3. (IF nextIndex[n][p] > 0 THEN log[nextIndex[n][p]].Term ELSE 0) \in Terms
    BY <2>2, ConstantsAssumption DEF Commanded, Terms
  <2>4. currentTerm[n] \in Terms /\ committedIndex[n] \in Int /\ nextIndex[n][p] - 1 \in Int
    BY <1>1, <2>1 DEF TypeOK
  <2> QED
    BY <2>1, <2>3, <2>4, EntryTypes DEF AppendEntryRequest, AppendRequests
<1>3. CallsOK /\ currentTerm'[n] \in Terms
  BY <1>1 DEF TypeOK, CallsOK
<1> QED
  BY <1>1, <1>2, <1>3, SendTypes DEF BroadcastEntry

LEMMA VoteRequestTypes ==
  ASSUME TypeOK, NEW n \in Server, NEW term \in Terms
  PROVE  RequestVoteRequest(n, term) \in VoteRequests
<1>1. logs[n] \in Seq(Commanded) /\ Len(logs[n]) \in Nat
  BY LenProperties DEF TypeOK
<1>2. LastLogTerm(logs[n]) \in Terms
  <2>1. CASE logs[n] = <<>>
    BY <2>1, ConstantsAssumption DEF LastLogTerm, Terms
  <2>2. CASE logs[n] # <<>>
    <3>1. logs[n][Len(logs[n])] \in Commanded
      BY <1>1, <2>2, EmptySeq, ElementOfSeq, LenProperties
    <3> QED
      BY <3>1, <2>2 DEF LastLogTerm, Commanded
  <2> QED
    BY <2>1, <2>2
<1> QED
  BY <1>1, <1>2 DEF RequestVoteRequest, VoteRequests

LEMMA AnswerTypes ==
  /\ Lost \in Answers
  /\ \A term \in Terms, success \in BOOLEAN : Answer(term, success) \in Answers
  BY ConstantsAssumption DEF Lost, Answer, Answers, Terms

LEMMA MovedTypes ==
  ASSUME TypeOK, NEW c \in Callers, NEW done \in SUBSET DOMAIN call[c].answers
  PROVE  Moved(c, done) \in [Server -> Int]
  BY CallerTypes DEF TypeOK, Moved

LEMMA CommittedTypes ==
  ASSUME TypeOK, NEW c \in Callers, NEW next \in [Server -> Int]
  PROVE  NewCommittedIndex(c, next) \subseteq Int
<1> DEFINE n == c[1]
<1>1. n \in Server /\ logs[n] \in Seq(Commanded) /\ committedIndex[n] \in Int
  BY CallerTypes DEF TypeOK
<1>2. Len(logs[n]) \in Nat
  BY <1>1, LenProperties
<1>3. Acks(c, next) \subseteq Server
  BY DEF Acks, Successes, TypeOK, IsCall
<1> DEFINE agreed == {next[p] : p \in {q \in Acks(c, next) : HalfHas(c, next, next[q])}}
<1>4. agreed \subseteq Int
  BY <1>3
<1>5. NewCommittedIndex(c, next) =
        IF CurrentPeers(n, logs[n]) = {} THEN {Len(logs[n]) - 1}
        ELSE IF agreed = {} THEN {committedIndex[n]}
        ELSE {i - 1 : i \in {i \in agreed : \A j \in agreed : j <= i}}
  BY DEF NewCommittedIndex
<1> HIDE DEF agreed
<1>6. {i - 1 : i \in {i \in agreed : \A j \in agreed : j <= i}} \subseteq Int
  BY <1>4
<1> QED
  BY <1>1, <1>2, <1>5, <1>6

(***************************************************************************)
(* Type correctness.                                                       *)
(***************************************************************************)
LEMMA InitTypes == Init => TypeOK
<1> SUFFICES ASSUME Init PROVE TypeOK
  OBVIOUS
<1>1. 0 \in Terms /\ <<>> \in Seq(Commanded)
  BY ConstantsAssumption, EmptySeq DEF Terms
<1>2. IsCall(NoCall)
  BY ConstantsAssumption DEF IsCall, NoCall, Nothing, Terms
<1> QED
  BY <1>1, <1>2 DEF Init, TypeOK, Upsets

LEMMA ClashTypes == \A n, by : Clash(n, by) \subseteq Upsets
  BY DEF Clash, Upsets

LEMMA LoopTypes ==
  ASSUME TypeOK, NEW n \in Server, Loop(n)
  PROVE  TypeOK'
<1>1. CallsOK
  BY DEF TypeOK, CallsOK
<1>2. CASE TakeInbound(n)
  BY <1>2 DEF TakeInbound, NextRound, TypeOK, persistent, volatile, history, IsCall
<1>3. CASE FollowerTimeout(n)
  BY <1>3, ClashTypes DEF FollowerTimeout, TypeOK, persistent, IsCall
<1>4. CASE LeaderTimeout(n)
  <2> USE <1>4 DEF LeaderTimeout, persistent, volatile
  <2>1. logs[n] \in Seq(Commanded)
    BY DEF TypeOK
  <2>2. CallsOK'
    BY <2>1, BroadcastTypes, CallerTypes
  <2>3. upsets' \subseteq Upsets
    BY DEF TypeOK, Overlap, Upsets
  <2> QED
    BY <2>2, <2>3 DEF TypeOK, CallsOK
<1>5. CASE CandidateTimeout(n)
  <2> DEFINE term == currentTerm[n] + 1
  <2> USE <1>5 DEF CandidateTimeout
  <2>1. term \in Terms
    BY ConstantsAssumption DEF TypeOK, Terms
  <2>2. currentTerm' \in [Server -> Terms] /\ currentTerm'[n] \in Terms
    BY <2>1 DEF TypeOK
  <2>3. votedFor' \in [Server -> [Terms -> Server \cup {None}]]
    BY <2>1 DEF TypeOK
  <2>4. CallsOK'
    <3>1. Send(Caller(n, "run"), "vote",
               [p \in CurrentPeers(n, logs[n]) |-> RequestVoteRequest(n, term)])
      OBVIOUS
    <3>2. RequestVoteRequest(n, term) \in VoteRequests
      BY <2>1, VoteRequestTypes
    <3> QED
      BY <1>1, <2>2, <3>1, <3>2, SendTypes, CallerTypes, PeersTypes
  <2>5. upsets' \subseteq Upsets
    BY ClashTypes DEF TypeOK
  <2> QED
    BY <2>2, <2>3, <2>4, <2>5 DEF TypeOK, CallsOK, volatile
<1> QED
  BY <1>2, <1>3, <1>4, <1>5 DEF Loop

LEMMA HandleAppendTypes ==
  ASSUME TypeOK, NEW c \in Callers, NEW p \in Server, HandleAppendEntry(c, p)
  PROVE  TypeOK'
<1> DEFINE req == call[c].reqs[p]
<1>1. /\ CallsOK /\ IsCall(call[c]) /\ p \in DOMAIN call[c].reqs
      /\ req \in AppendRequests /\ req.PrevLogIndex >= -1
  BY DEF TypeOK, CallsOK, IsCall, HandleAppendEntry, AppendEntryTo, AppendEntryCompares,
         AppendEntryAdopts, AppendEntryStores, Handling, Pending
<1>2. {"compare", "adopt", "keep", "store"} \subseteq Steps
  BY DEF Steps
<1>3. CASE AppendEntryTo(c, p)
  <2>1. CallsOK'
    BY <1>1, <1>2, <1>3, AnswerTypes, AnsweredTypes, GoesOnTypes DEF AppendEntryTo, TypeOK
  <2>2. inbound' \in [Server -> BOOLEAN] /\ running' \in [Server -> {"yes", "stopped", "panicked"}]
    BY <1>3 DEF AppendEntryTo, Receives, LoopFree, TypeOK
  <2> QED
    BY <1>3, <2>1, <2>2 DEF AppendEntryTo, TypeOK, CallsOK, persistent, volatile, history
<1>4. CASE AppendEntryCompares(c, p)
  <2>1. CallsOK'
    BY <1>1, <1>2, <1>4, GoesOnTypes DEF AppendEntryCompares
  <2> QED
    BY <1>4, <2>1
    DEF AppendEntryCompares, Handling, TypeOK, CallsOK, persistent, volatile, history
<1>5. CASE AppendEntryAdopts(c, p)
  <2>1. CallsOK'
    BY <1>1, <1>2, <1>5, GoesOnTypes DEF AppendEntryAdopts
  <2>2. /\ currentTerm' \in [Server -> Terms] /\ committedIndex' \in [Server -> Int]
        /\ role' \in [Server -> {"LEADER", "CANDIDATE", "FOLLOWER"}]
    BY <1>1, <1>5 DEF AppendEntryAdopts, TypeOK, AppendRequests
  <2>3. upsets' \subseteq Upsets
    BY <1>5, ClashTypes DEF AppendEntryAdopts, TypeOK
  <2> QED
    BY <1>5, <2>1, <2>2, <2>3 DEF AppendEntryAdopts, Handling, TypeOK, CallsOK
<1>6. CASE AppendEntryStores(c, p)
  <2> DEFINE success == Matches(logs[p], req)
  <2>1. success \in BOOLEAN /\ currentTerm[p] \in Terms
    BY DEF Matches, TypeOK
  <2>2. CallsOK'
    BY <1>1, <1>6, <2>1, AnswerTypes, AnsweredTypes DEF AppendEntryStores
  <2>3. success => Appended(logs[p], req) \in Seq(Commanded)
    BY <1>1, AppendedTypes DEF TypeOK, AppendRequests
  <2>4. logs' \in [Server -> Seq(Commanded)]
    BY <1>6, <2>3 DEF AppendEntryStores, TypeOK
  <2>5. upsets' \subseteq Upsets
    BY <1>6, ClashTypes DEF AppendEntryStores, TypeOK
  <2> QED
    BY <1>6, <2>2, <2>4, <2>5 DEF AppendEntryStores, Handling, TypeOK, CallsOK, volatile
<1> QED
  BY <1>3, <1>4, <1>5, <1>6 DEF HandleAppendEntry

LEMMA HandleVoteTypes ==
  ASSUME TypeOK, NEW c \in Callers, NEW p \in Server, HandleRequestVote(c, p)
  PROVE  TypeOK'
<1> DEFINE req == call[c].reqs[p]
<1>1. /\ CallsOK /\ IsCall(call[c]) /\ p \in DOMAIN call[c].reqs
      /\ req \in VoteRequests /\ currentTerm[p] \in Terms
  BY DEF TypeOK, CallsOK, IsCall, HandleRequestVote, RequestVoteFrom, RequestVoteCompares,
         RequestVoteRaises, RequestVoteDecides, Vote, Handling, Pending
<1>2. {"compare", "raise", "decide", "vote"} \subseteq Steps
  BY DEF Steps
<1>3. CASE RequestVoteFrom(c, p)
  <2>1. CallsOK'
    BY <1>1, <1>2, <1>3, AnswerTypes, AnsweredTypes, GoesOnTypes DEF RequestVoteFrom
  <2>2. inbound' \in [Server -> BOOLEAN] /\ running' \in [Server -> {"yes", "stopped", "panicked"}]
    BY <1>3 DEF RequestVoteFrom, Receives, LoopFree, TypeOK
  <2> QED
    BY <1>3, <2>1, <2>2 DEF RequestVoteFrom, TypeOK, CallsOK, persistent, volatile, history
<1>4. CASE RequestVoteCompares(c, p) \/ RequestVoteDecides(c, p)
  <2>1. CallsOK'
    BY <1>1, <1>2, <1>4, AnswerTypes, AnsweredTypes, GoesOnTypes
    DEF RequestVoteCompares, RequestVoteDecides
  <2> QED
    BY <1>4, <2>1
    DEF RequestVoteCompares, RequestVoteDecides, Handling, TypeOK, CallsOK, persistent,
        volatile, history
<1>5. CASE RequestVoteRaises(c, p)
  <2>1. CallsOK'
    BY <1>1, <1>2, <1>5, GoesOnTypes DEF RequestVoteRaises
  <2>2. /\ currentTerm' \in [Server -> Terms]
        /\ role' \in [Server -> {"LEADER", "CANDIDATE", "FOLLOWER"}]
    BY <1>1, <1>5 DEF RequestVoteRaises, TypeOK, VoteRequests
  <2>3. upsets' \subseteq Upsets
    BY <1>5, ClashTypes DEF RequestVoteRaises, TypeOK
  <2> QED
    BY <1>5, <2>1, <2>2, <2>3 DEF RequestVoteRaises, Handling, TypeOK, CallsOK
<1>6. CASE Vote(c, p)
  <2>1. CallsOK'
    BY <1>1, <1>6, AnswerTypes, AnsweredTypes DEF Vote
  <2>2. votedFor' \in [Server -> [Terms -> Server \cup {None}]]
    BY <1>1, <1>6 DEF Vote, TypeOK, VoteRequests
  <2>3. upsets' \subseteq Upsets
    BY <1>6, ClashTypes DEF Vote, TypeOK
  <2> QED
    BY <1>6, <2>1, <2>2, <2>3 DEF Vote, Handling, TypeOK, CallsOK, volatile
<1> QED
  BY <1>3, <1>4, <1>5, <1>6 DEF HandleRequestVote

LEMMA HandleTypes ==
  ASSUME TypeOK, NEW c \in Callers, NEW p \in Server, Handle(c, p) \/ RequestLost(c, p)
  PROVE  TypeOK'
<1>1. CASE RequestLost(c, p)
  <2>1. CallsOK
    BY DEF TypeOK, CallsOK
  <2>2. CallsOK'
    BY <1>1, <2>1, AnswerTypes, AnsweredTypes DEF RequestLost, Pending
  <2> QED
    BY <1>1, <2>2 DEF RequestLost, TypeOK, CallsOK, persistent, volatile, history
<1> QED
  BY <1>1, HandleAppendTypes, HandleVoteTypes DEF Handle

LEMMA TermsSeenTypes ==
  ASSUME TypeOK, NEW c \in Callers, StepsDown(c)
  PROVE  /\ currentTerm' \in [Server -> Terms]
         /\ role' \in [Server -> {"LEADER", "CANDIDATE", "FOLLOWER"}]
<1>1. c[1] \in Server /\ IsCall(call[c])
  BY CallerTypes DEF TypeOK
<1>2. TermsSeen(c) \subseteq Terms
  BY <1>1 DEF TermsSeen, Higher, TypeOK, IsCall, Answers
<1> QED
  BY <1>2 DEF StepsDown, TypeOK

LEMMA EndsTypes ==
  ASSUME TypeOK, NEW c \in Callers, Ends(c)
  PROVE  TypeOK'
<1> DEFINE n == c[1]
<1>1. n \in Server /\ CallsOK
  BY CallerTypes DEF TypeOK, CallsOK
<1>2. CallEnds(c)
  BY DEF Ends, ElectionLost, ElectionWon, BroadcastStale, BroadcastDone, BroadcastPanics
<1>3. CallsOK'
  BY <1>1, <1>2, CallEndsTypes
<1>4. running' \in [Server -> {"yes", "stopped", "panicked"}]
  BY DEF Ends, ElectionLost, ElectionWon, BroadcastStale, BroadcastDone, BroadcastPanics,
         Returns, NextRound, TypeOK
<1>5. upsets' \subseteq Upsets
  BY ClashTypes DEF Ends, ElectionLost, ElectionWon, BroadcastStale, BroadcastDone,
                    BroadcastPanics, Late, TypeOK, Upsets
<1>6. CASE ElectionLost(c)
  BY <1>3, <1>4, <1>5, <1>6, TermsSeenTypes DEF ElectionLost, StepsDown, TypeOK, CallsOK
<1>7. CASE ElectionWon(c)
  <2>1. Len(logs[n]) \in Int
    BY <1>1, LenProperties DEF TypeOK
  <2>2. nextIndex' \in [Server -> [Server -> Int]]
    BY <1>1, <1>7, <2>1 DEF ElectionWon, TypeOK
  <2> QED
    BY <1>3, <1>4, <1>5, <1>7, <2>2 DEF ElectionWon, TypeOK, CallsOK, persistent
<1>8. CASE BroadcastStale(c)
  <2>1. PICK done \in SUBSET DOMAIN call[c].answers :
               nextIndex' = [nextIndex EXCEPT ![n] = Moved(c, done)]
    BY <1>8 DEF BroadcastStale
  <2>2. nextIndex' \in [Server -> [Server -> Int]]
    BY <2>1, MovedTypes DEF TypeOK
  <2> QED
    BY <1>3, <1>4, <1>5, <1>8, <2>2, TermsSeenTypes DEF BroadcastStale, StepsDown, TypeOK, CallsOK
<1>9. CASE BroadcastDone(c)
  <2> DEFINE next == Moved(c, DOMAIN call[c].answers)
  <2>1. next \in [Server -> Int]
    BY MovedTypes
  <2>2. nextIndex' \in [Server -> [Server -> Int]]
    BY <1>9, <2>1 DEF BroadcastDone, TypeOK
  <2>3. NewCommittedIndex(c, next) \subseteq Int
    BY <2>1, CommittedTypes
  <2>4. committedIndex' \in [Server -> Int]
    BY <1>9, <2>3 DEF BroadcastDone, TypeOK
  <2> QED
    BY <1>3, <1>4, <1>5, <1>9, <2>2, <2>4 DEF BroadcastDone, TypeOK, CallsOK, persistent
<1>10. CASE BroadcastPanics(c)
  <2>1. nextIndex' \in [Server -> [Server -> Int]]
    BY <1>1, <1>10, MovedTypes DEF BroadcastPanics, TypeOK
  <2> QED
    BY <1>3, <1>4, <1>5, <1>10, <2>1 DEF BroadcastPanics, TypeOK, CallsOK, persistent
<1> QED
  BY <1>6, <1>7, <1>8, <1>9, <1>10 DEF Ends

LEMMA ClientTypes ==
  ASSUME TypeOK, NEW n \in Server, Client(n)
  PROVE  TypeOK'
<1>1. inbound' \in [Server -> BOOLEAN] /\ running' \in [Server -> {"yes", "stopped", "panicked"}]
  BY DEF Client, ClientRequest, ClientAppends, ClientOther, Receives, LoopFree, TypeOK
<1>2. CASE ClientOther(n)
  BY <1>1, <1>2 DEF ClientOther, TypeOK, persistent, volatile, history, IsCall
<1>3. ASSUME NEW cmd \in Commands, ClientRequest(n, cmd) PROVE TypeOK'
  <2>1. PICK term \in 0..currentTerm[n] : taken' = [taken EXCEPT ![n] = <<logEntry(term, cmd)>>]
    BY <1>3 DEF ClientRequest
  <2> DEFINE entry == logEntry(term, cmd)
  <2>2. term \in Terms /\ entry \in Commanded /\ <<entry>> \in Seq(Commanded)
    <3>1. term \in Terms
      BY ConstantsAssumption DEF TypeOK, Terms
    <3>2. entry \in Commanded
      BY <3>1 DEF logEntry, Commanded
    <3> QED
      BY <3>1, <3>2
  <2>3. taken' \in [Server -> Seq(Commanded)]
    BY <2>1, <2>2 DEF TypeOK
  <2>4. upsets' \subseteq Upsets
    BY <1>3 DEF ClientRequest, TypeOK, Upsets
  <2> QED
    BY <1>1, <1>3, <2>3, <2>4 DEF ClientRequest, TypeOK, persistent, volatile, IsCall
<1>4. CASE ClientAppends(n)
  <2> DEFINE log == logs[n] \o taken[n]
  <2> USE <1>4 DEF ClientAppends, volatile
  <2>1. log \in Seq(Commanded)
    BY ConcatProperties DEF TypeOK
  <2>2. logs' \in [Server -> Seq(Commanded)] /\ taken' \in [Server -> Seq(Commanded)]
    BY <2>1, EmptySeq DEF TypeOK
  <2>3. CallsOK'
    BY <2>1, BroadcastTypes, CallerTypes
  <2>4. upsets' \subseteq Upsets
    BY ClashTypes DEF TypeOK, Overlap, Upsets
  <2> QED
    BY <1>1, <2>2, <2>3, <2>4 DEF TypeOK, CallsOK
<1> QED
  BY <1>2, <1>3, <1>4 DEF Client

LEMMA TypesStep == TypeOK /\ [Next]_vars => TypeOK'
<1> SUFFICES ASSUME TypeOK, [Next]_vars PROVE TypeOK'
  OBVIOUS
<1>1. CASE UNCHANGED vars
  BY <1>1 DEF vars, TypeOK, IsCall, persistent, volatile, history
<1> QED
  BY <1>1, LoopTypes, ClientTypes, EndsTypes, HandleTypes DEF Next

\* The state of the nodes, what they send and what they answer has its type: no
\* term leaves its range and no answer is from outside of the cluster.
THEOREM RaftTypes == Spec => []TypeOK
  BY InitTypes, TypesStep, PTL DEF Spec

(***************************************************************************)
(* What a handler knows.                                                   *)
(*                                                                         *)
(* No handler takes the lock, and yet, as long as no goroutine of a node   *)
(* changes what another one of it is in the middle of, what a handler has  *)
(* tested is true still when it goes on.                                   *)
(***************************************************************************)

\* A node sends nothing to itself.
Others == \A c \in Callers : c[1] \notin DOMAIN call[c].reqs

\* What the handler at p of the request of c has found out.
TestedAppend(c, p) ==
    call[c].kind = "append" =>
        /\ call[c].at[p] \in {"compare", "adopt", "store"}
        /\ currentTerm[p] <= call[c].reqs[p].Term
        /\ call[c].at[p] = "store" =>
               currentTerm[p] = call[c].reqs[p].Term /\ role[p] = "FOLLOWER"
TestedVote(c, p) ==
    call[c].kind = "vote" =>
        /\ call[c].at[p] \in {"compare", "raise", "decide", "vote"}
        /\ currentTerm[p] <= call[c].reqs[p].Term
        /\ call[c].at[p] = "raise" => currentTerm[p] < call[c].reqs[p].Term
        /\ call[c].at[p] \in {"decide", "vote"} => currentTerm[p] = call[c].reqs[p].Term
        /\ call[c].at[p] = "vote" =>
               VoteIsFree(p, call[c].reqs[p]) /\ UpToDate(logs[p], call[c].reqs[p])
Tested(c, p) == TestedAppend(c, p) /\ TestedVote(c, p)

\* The client's handler has found a leader, and waits for no answers yet.
TestedByClient(n) ==
    taken[n] # <<>> =>
        /\ role[n] = "LEADER" /\ call[Caller(n, "client")].kind = "none"
        /\ \E e \in Commanded : taken[n] = <<e>> /\ e.Term = currentTerm[n]

Knows ==
    /\ Others
    /\ \A c \in Callers : \A p \in DOMAIN call[c].at : Tested(c, p)
    /\ \A n \in Server : TestedByClient(n)

LEMMA KnowsInit == Init => Knows
  BY DEF Init, Knows, Others, TestedByClient, NoCall, Nothing

\* A handler that is where it was.
Stands(c, q) ==
    /\ q \in DOMAIN call[c].at
    /\ call'[c].at[q] = call[c].at[q] /\ call'[c].reqs[q] = call[c].reqs[q]
    /\ call'[c].kind = call[c].kind

LEMMA KeptCalls ==
  ASSUME CallsOK, Others, NEW c \in Callers,
         \/ UNCHANGED call
         \/ CallEnds(c)
         \/ \E p \in DOMAIN call[c].reqs, a \in Answers : Answered(c, p, a)
         \/ \E kind \in {"vote", "append"} : \E reqs : c[1] \notin DOMAIN reqs /\ Send(c, kind, reqs)
  PROVE  /\ Others'
         /\ \A d \in Callers : \A q \in DOMAIN call'[d].at : Stands(d, q)
         /\ \A d \in Callers : d = c \/ call'[d] = call[d]
<1>1. CASE UNCHANGED call
  BY <1>1 DEF Others, Stands
<1>2. CASE CallEnds(c)
  BY <1>2 DEF CallEnds, CallsOK, NoCall, Nothing, Others, Stands
<1>3. ASSUME NEW p \in DOMAIN call[c].reqs, NEW a \in Answers, Answered(c, p, a)
      PROVE  /\ Others'
             /\ \A d \in Callers : \A q \in DOMAIN call'[d].at : Stands(d, q)
             /\ \A d \in Callers : d = c \/ call'[d] = call[d]
  <2>1. IsCall(call[c])
    BY DEF CallsOK
  <2>2. /\ call'[c].kind = call[c].kind
        /\ call'[c].reqs = [q \in DOMAIN call[c].reqs \ {p} |-> call[c].reqs[q]]
        /\ call'[c].at = [q \in DOMAIN call[c].at \ {p} |-> call[c].at[q]]
        /\ \A d \in Callers : d = c \/ call'[d] = call[d]
    BY <1>3 DEF Answered, CallsOK
  <2>3. \A q \in DOMAIN call'[c].at : Stands(c, q)
    BY <2>1, <2>2 DEF Stands, IsCall
  <2>4. Others'
    BY <2>2 DEF Others
  <2> QED
    BY <2>2, <2>3, <2>4 DEF Stands
<1>4. ASSUME NEW kind, NEW reqs, c[1] \notin DOMAIN reqs, Send(c, kind, reqs)
      PROVE  /\ Others'
             /\ \A d \in Callers : \A q \in DOMAIN call'[d].at : Stands(d, q)
             /\ \A d \in Callers : d = c \/ call'[d] = call[d]
  <2>1. /\ call'[c].reqs = reqs /\ call'[c].at = Nothing
        /\ \A d \in Callers : d = c \/ call'[d] = call[d]
    BY <1>4 DEF Send, CallsOK
  <2> QED
    BY <1>4, <2>1 DEF Nothing, Others, Stands
<1> QED
  BY <1>1, <1>2, <1>3, <1>4

LEMMA KeptGoesOn ==
  ASSUME CallsOK, Others, NEW c \in Callers, NEW p \in DOMAIN call[c].reqs, NEW step,
         GoesOn(c, p, step)
  PROVE  /\ Others'
         /\ \A d \in Callers : \A q \in DOMAIN call'[d].at : (d = c /\ q = p) \/ Stands(d, q)
         /\ \A d \in Callers : d = c \/ call'[d] = call[d]
         /\ call'[c].at[p] = step /\ call'[c].reqs = call[c].reqs /\ call'[c].kind = call[c].kind
<1>1. /\ call'[c].reqs = call[c].reqs /\ call'[c].kind = call[c].kind
      /\ call'[c].at = [q \in DOMAIN call[c].at \cup {p} |-> IF q = p THEN step ELSE call[c].at[q]]
      /\ \A d \in Callers : d = c \/ call'[d] = call[d]
  BY DEF GoesOn, CallsOK
<1> QED
  BY <1>1 DEF Others, Stands

LEMMA NoClash ==
  ASSUME NEW n, NEW by, "clash" \notin Clash(n, by)
  PROVE  Local(n)' = Local(n) \/ HandlersOf(n) \subseteq {by}
  BY DEF Clash

\* Only node p changes, and no handler of it but that of d is in the middle of
\* anything; so all the others know what they knew.
LEMMA TestedStays ==
  ASSUME TypeOK, Knows, NEW d \in Callers, NEW p \in Server,
         \A q \in Server \ {p} : Local(q)' = Local(q),
         Local(p)' = Local(p) \/ HandlersOf(p) \subseteq {d},
         NEW c \in Callers, NEW q \in DOMAIN call'[c].at, Stands(c, q),
         (c = d /\ q = p) => Local(p)' = Local(p)
  PROVE  Tested(c, q)'
<1>1. IsCall(call[c]) /\ Tested(c, q) /\ q \in DOMAIN call[c].at /\ q \in Server
  BY DEF TypeOK, IsCall, Knows, Stands
<1>2. Local(q)' = Local(q)
  <2>1. CASE q # p
    BY <1>1, <2>1
  <2>2. CASE q = p
    <3>1. c \in HandlersOf(p)
      BY <1>1, <2>2 DEF HandlersOf
    <3> QED
      BY <2>2, <3>1
  <2> QED
    BY <2>1, <2>2
<1>3. /\ currentTerm'[q] = currentTerm[q] /\ votedFor'[q] = votedFor[q] /\ logs'[q] = logs[q]
      /\ role'[q] = role[q]
  BY <1>2 DEF Local
<1>4. TestedAppend(c, q)'
  BY <1>1, <1>3 DEF Stands, Tested, TestedAppend
<1>5. TestedVote(c, q)'
  BY <1>1, <1>3 DEF Stands, Tested, TestedVote, VoteIsFree, UpToDate, LastLogTerm
<1> QED
  BY <1>4, <1>5 DEF Tested

LEMMA ClientStays ==
  ASSUME TypeOK, Knows, NEW d \in Callers, NEW p \in Server,
         \A q \in Server \ {p} : Local(q)' = Local(q),
         Local(p)' = Local(p) \/ HandlersOf(p) \subseteq {d},
         NEW n \in Server, taken'[n] = taken[n],
         call'[Caller(n, "client")].kind = call[Caller(n, "client")].kind,
         n = p /\ taken[n] # <<>> => d # Caller(n, "client")
  PROVE  TestedByClient(n)'
<1> SUFFICES ASSUME taken[n] # <<>>
             PROVE  /\ role'[n] = "LEADER" /\ call'[Caller(n, "client")].kind = "none"
                    /\ \E e \in Commanded : taken'[n] = <<e>> /\ e.Term = currentTerm'[n]
  BY DEF TestedByClient
<1>1. TestedByClient(n)
  BY DEF Knows
<1>2. Local(n)' = Local(n)
  <2>1. CASE n = p
    <3>1. Caller(n, "client") \in HandlersOf(n)
      BY CallerTypes DEF HandlersOf
    <3> QED
      BY <2>1, <3>1
  <2> QED
    BY <2>1
<1>3. role'[n] = role[n] /\ currentTerm'[n] = currentTerm[n]
  BY <1>2 DEF Local
<1> QED
  BY <1>1, <1>3 DEF TestedByClient

LEMMA KnowsFrame ==
  ASSUME TypeOK, TypeOK', Knows, NEW d \in Callers, NEW p \in Server,
         \A q \in Server \ {p} : Local(q)' = Local(q),
         Local(p)' = Local(p) \/ HandlersOf(p) \subseteq {d},
         UNCHANGED taken, \A n \in Server : d = Caller(n, "client") => taken[n] = <<>>,
         Others', \A c \in Callers : c = d \/ call'[c] = call[c],
         \A c \in Callers : \A q \in DOMAIN call'[c].at : (c = d /\ q = p) \/ Stands(c, q),
         p \in DOMAIN call'[d].at => Tested(d, p)'
  PROVE  Knows'
<1>1. ASSUME NEW c \in Callers, NEW q \in DOMAIN call'[c].at PROVE Tested(c, q)'
  <2>1. CASE c = d /\ q = p
    BY <1>1, <2>1
  <2>2. CASE ~(c = d /\ q = p)
    BY <1>1, <2>2, TestedStays
  <2> QED
    BY <2>1, <2>2
<1>2. ASSUME NEW n \in Server PROVE TestedByClient(n)'
  <2>1. CASE taken[n] = <<>>
    BY <2>1 DEF TestedByClient
  <2>2. CASE taken[n] # <<>>
    <3>1. d # Caller(n, "client") /\ Caller(n, "client") \in Callers
      BY <2>2, CallerTypes
    <3>2. call'[Caller(n, "client")].kind = call[Caller(n, "client")].kind
      BY <3>1
    <3> QED
      BY <3>1, <3>2, ClientStays
  <2> QED
    BY <2>1, <2>2
<1> QED
  BY <1>1, <1>2 DEF Knows

\* Who waits for answers is not a client's handler that has yet to append.
LEMMA CallingClient ==
  ASSUME Knows, NEW d \in Callers, call[d].kind # "none"
  PROVE  \A n \in Server : d = Caller(n, "client") => taken[n] = <<>>
  BY DEF Knows, TestedByClient

LEMMA RunIsNoClient == \A m, n \in Server : Caller(m, "run") # Caller(n, "client")
  BY DEF Caller

\* The loop of n, or its client's handler, does something.
LEMMA OwnHandlers ==
  ASSUME TypeOK', NEW n \in Server, NEW d \in Callers, d[1] = n, Others'
  PROVE  n \notin DOMAIN call'[d].at
  BY DEF TypeOK, IsCall, Others

LEMMA LoopKnows ==
  ASSUME TypeOK, TypeOK', Knows, "clash" \notin upsets', NEW n \in Server, Loop(n)
  PROVE  Knows'
<1> DEFINE d == Caller(n, "run")
<1>1. d \in Callers /\ d[1] = n /\ CallsOK /\ Others
  BY CallerTypes DEF TypeOK, CallsOK, Knows
<1>2. UNCHANGED taken
  BY DEF Loop, TakeInbound, FollowerTimeout, LeaderTimeout, CandidateTimeout
<1>3. /\ \A q \in Server \ {n} : Local(q)' = Local(q)
      /\ Local(n)' = Local(n) \/ HandlersOf(n) \subseteq {d}
  <2>1. CASE TakeInbound(n) \/ LeaderTimeout(n)
    BY <2>1 DEF TakeInbound, LeaderTimeout, persistent, volatile, Local
  <2>2. CASE FollowerTimeout(n)
    BY <2>2, NoClash DEF FollowerTimeout, persistent, Local, TypeOK
  <2>3. CASE CandidateTimeout(n)
    BY <2>3, NoClash DEF CandidateTimeout, volatile, Local, TypeOK
  <2> QED
    BY <2>1, <2>2, <2>3 DEF Loop
<1>4. /\ Others'
      /\ \A c \in Callers : \A q \in DOMAIN call'[c].at : Stands(c, q)
      /\ \A c \in Callers : c = d \/ call'[c] = call[c]
  <2>1. CASE TakeInbound(n) \/ FollowerTimeout(n)
    BY <1>1, <2>1, KeptCalls DEF TakeInbound, FollowerTimeout
  <2>2. CASE LeaderTimeout(n)
    <3>1. \E reqs : n \notin DOMAIN reqs /\ Send(d, "append", reqs)
      BY <1>1, <2>2, PeersTypes DEF LeaderTimeout, BroadcastEntry
    <3> QED
      BY <1>1, <3>1, KeptCalls
  <2>3. CASE CandidateTimeout(n)
    <3>1. \E reqs : n \notin DOMAIN reqs /\ Send(d, "vote", reqs)
      BY <1>1, <2>3, PeersTypes DEF CandidateTimeout
    <3> QED
      BY <1>1, <3>1, KeptCalls
  <2> QED
    BY <2>1, <2>2, <2>3 DEF Loop
<1> QED
  BY <1>1, <1>2, <1>3, <1>4, OwnHandlers, RunIsNoClient, KnowsFrame

LEMMA EndsKnows ==
  ASSUME TypeOK, TypeOK', Knows, "clash" \notin upsets', NEW c \in Callers, Ends(c)
  PROVE  Knows'
<1> DEFINE n == c[1]
<1>1. n \in Server /\ CallsOK /\ Others
  BY CallerTypes DEF TypeOK, CallsOK, Knows
<1>2. CallEnds(c) /\ UNCHANGED taken /\ call[c].kind # "none"
  BY DEF Ends, ElectionLost, ElectionWon, BroadcastStale, BroadcastDone, BroadcastPanics, Complete
<1>3. Local(n)' = Local(n) \/ HandlersOf(n) \subseteq {c}
  BY NoClash DEF Ends, ElectionLost, ElectionWon, BroadcastStale, BroadcastDone, BroadcastPanics
<1>4. \A q \in Server \ {n} : Local(q)' = Local(q)
  <2>1. CASE ElectionLost(c)
    BY <1>1, <2>1 DEF ElectionLost, StepsDown, Local, TypeOK
  <2>2. CASE ElectionWon(c)
    BY <1>1, <2>2 DEF ElectionWon, persistent, Local, TypeOK
  <2>3. CASE BroadcastStale(c)
    BY <1>1, <2>3 DEF BroadcastStale, StepsDown, Local, TypeOK
  <2>4. CASE BroadcastDone(c)
    BY <1>1, <2>4 DEF BroadcastDone, persistent, Local, TypeOK
  <2>5. CASE BroadcastPanics(c)
    BY <1>1, <2>5 DEF BroadcastPanics, persistent, Local, TypeOK
  <2> QED
    BY <2>1, <2>2, <2>3, <2>4, <2>5 DEF Ends
<1>5. /\ Others'
      /\ \A d \in Callers : \A q \in DOMAIN call'[d].at : Stands(d, q)
      /\ \A d \in Callers : d = c \/ call'[d] = call[d]
  BY <1>1, <1>2, KeptCalls
<1> QED
  BY <1>1, <1>2, <1>3, <1>4, <1>5, OwnHandlers, CallingClient, KnowsFrame

LEMMA ClientKnows ==
  ASSUME TypeOK, TypeOK', Knows, "clash" \notin upsets', NEW n \in Server, Client(n)
  PROVE  Knows'
<1> DEFINE d == Caller(n, "client")
<1>1. d \in Callers /\ d[1] = n /\ CallsOK /\ Others /\ Caller(n, "run") \in Callers
  BY CallerTypes DEF TypeOK, CallsOK, Knows
<1>2. CASE ClientOther(n)
  <2>1. UNCHANGED <<call, taken>> /\ \A q \in Server : Local(q)' = Local(q)
    BY <1>2 DEF ClientOther, persistent, volatile, Local
  <2>2. /\ Others' /\ \A c \in Callers : \A q \in DOMAIN call'[c].at : Stands(c, q)
    BY <1>1, <2>1, KeptCalls
  <2>3. \A c \in Callers : \A q \in DOMAIN call'[c].at : Tested(c, q)'
    BY <1>1, <2>1, <2>2, TestedStays
  <2>4. \A m \in Server : TestedByClient(m)'
    BY <1>1, <2>1, RunIsNoClient, ClientStays
  <2> QED
    BY <2>2, <2>3, <2>4 DEF Knows
<1>3. ASSUME NEW cmd \in Commands, ClientRequest(n, cmd) PROVE Knows'
  <2> DEFINE e == logEntry(currentTerm[n], cmd)
  <2>1. UNCHANGED call /\ \A q \in Server : Local(q)' = Local(q)
    BY <1>3 DEF ClientRequest, persistent, volatile, Local
  <2>2. Others' /\ \A c \in Callers : \A q \in DOMAIN call'[c].at : Stands(c, q)
    BY <1>1, <2>1, KeptCalls
  <2>3. \A c \in Callers : \A q \in DOMAIN call'[c].at : Tested(c, q)'
    BY <1>1, <2>1, <2>2, TestedStays
  <2>4. ASSUME NEW m \in Server, m # n PROVE TestedByClient(m)'
    <3>1. taken'[m] = taken[m]
      BY <1>3, <2>4 DEF ClientRequest, TypeOK
    <3> QED
      BY <1>1, <2>1, <3>1, RunIsNoClient, ClientStays
  <2>5. TestedByClient(n)'
    <3>1. taken'[n] = <<e>> /\ role[n] = "LEADER" /\ call[d].kind = "none"
      <4>1. PICK term \in 0..currentTerm[n] :
                /\ taken' = [taken EXCEPT ![n] = <<logEntry(term, cmd)>>]
                /\ {"clash" : t \in {term} \ {currentTerm[n]}} \subseteq upsets'
        BY <1>3 DEF ClientRequest
      <4>2. term = currentTerm[n]
        BY <4>1, NoClash
      <4> QED
        BY <1>3, <4>1, <4>2 DEF ClientRequest, TypeOK, Calling
    <3>2. e \in Commanded /\ e.Term = currentTerm[n]
      BY DEF logEntry, Commanded, TypeOK
    <3>3. role'[n] = "LEADER" /\ currentTerm'[n] = currentTerm[n]
      BY <2>1, <3>1 DEF Local
    <3> QED
      BY <2>1, <3>1, <3>2, <3>3 DEF TestedByClient
  <2> QED
    BY <2>2, <2>3, <2>4, <2>5 DEF Knows
<1>4. CASE ClientAppends(n)
  <2>1. /\ \A q \in Server \ {n} : Local(q)' = Local(q)
        /\ Local(n)' = Local(n) \/ HandlersOf(n) \subseteq {d}
    BY <1>4, NoClash DEF ClientAppends, volatile, Local, TypeOK
  <2>2. \E reqs : n \notin DOMAIN reqs /\ Send(d, "append", reqs)
    BY <1>1, <1>4, PeersTypes DEF ClientAppends, BroadcastEntry
  <2>3. /\ Others'
        /\ \A c \in Callers : \A q \in DOMAIN call'[c].at : Stands(c, q)
        /\ \A c \in Callers : c = d \/ call'[c] = call[c]
    BY <1>1, <2>2, KeptCalls
  <2>4. n \notin DOMAIN call'[d].at
    BY <1>1, <2>3, OwnHandlers
  <2>5. \A c \in Callers : \A q \in DOMAIN call'[c].at : Tested(c, q)'
    BY <1>1, <2>1, <2>3, <2>4, TestedStays
  <2>6. ASSUME NEW m \in Server, m # n PROVE TestedByClient(m)'
    <3>1. taken'[m] = taken[m]
      BY <1>4, <2>6 DEF ClientAppends, TypeOK
    <3>2. Caller(m, "client") # d /\ Caller(m, "client") \in Callers
      BY <2>6, CallerTypes DEF Caller
    <3> QED
      BY <1>1, <2>1, <2>3, <3>1, <3>2, ClientStays
  <2>7. TestedByClient(n)'
    BY <1>4 DEF ClientAppends, TestedByClient, TypeOK
  <2> QED
    BY <2>3, <2>5, <2>6, <2>7 DEF Knows
<1> QED
  BY <1>2, <1>3, <1>4 DEF Client

\* The handler at p of the request of c does its next step.
LEMMA HandlerFrame ==
  ASSUME TypeOK, TypeOK', Knows, "clash" \notin upsets', NEW c \in Callers, NEW p \in Server,
         p \in DOMAIN call[c].reqs, call[c].kind # "none", UNCHANGED taken,
         \A q \in Server \ {p} : Local(q)' = Local(q),
         Local(p)' = Local(p) \/ Clash(p, c) \subseteq upsets',
         \/ \E a \in Answers : Answered(c, p, a)
         \/ \E step : GoesOn(c, p, step) /\ Tested(c, p)'
  PROVE  Knows'
<1>1. CallsOK /\ Others
  BY DEF TypeOK, CallsOK, Knows
<1>2. Local(p)' = Local(p) \/ HandlersOf(p) \subseteq {c}
  BY NoClash
<1>3. \A n \in Server : c = Caller(n, "client") => taken[n] = <<>>
  BY CallingClient
<1>4. ASSUME NEW a \in Answers, Answered(c, p, a) PROVE Knows'
  <2>1. /\ Others'
        /\ \A d \in Callers : \A q \in DOMAIN call'[d].at : Stands(d, q)
        /\ \A d \in Callers : d = c \/ call'[d] = call[d]
    BY <1>1, <1>4, KeptCalls
  <2>2. p \notin DOMAIN call'[c].at
    BY <1>1, <1>4 DEF Answered, CallsOK
  <2> QED
    BY <1>2, <1>3, <2>1, <2>2, KnowsFrame
<1>5. ASSUME NEW step, GoesOn(c, p, step), Tested(c, p)' PROVE Knows'
  <2>1. /\ Others'
        /\ \A d \in Callers : \A q \in DOMAIN call'[d].at : (d = c /\ q = p) \/ Stands(d, q)
        /\ \A d \in Callers : d = c \/ call'[d] = call[d]
    BY <1>1, <1>5, KeptGoesOn
  <2> QED
    BY <1>2, <1>3, <1>5, <2>1, KnowsFrame
<1> QED
  BY <1>4, <1>5

\* A handler that goes on has the same request still.
LEMMA GoesOnTo ==
  ASSUME CallsOK, NEW c \in Callers, NEW p, NEW step, GoesOn(c, p, step)
  PROVE  call'[c].at[p] = step /\ call'[c].reqs = call[c].reqs /\ call'[c].kind = call[c].kind
  BY DEF CallsOK, GoesOn

LEMMA AppendKnows ==
  ASSUME TypeOK, TypeOK', Variant # "elastic", Knows, "clash" \notin upsets',
         NEW c \in Callers, NEW p \in Server, HandleAppendEntry(c, p)
  PROVE  Knows'
<1> DEFINE req == call[c].reqs[p]
<1>1. /\ CallsOK /\ p \in DOMAIN call[c].reqs /\ call[c].kind = "append"
      /\ req.Term \in Terms /\ currentTerm[p] \in Terms
  BY DEF TypeOK, CallsOK, IsCall, AppendRequests, HandleAppendEntry, AppendEntryTo,
         AppendEntryCompares, AppendEntryAdopts, AppendEntryStores, Handling, Pending
<1>2. UNCHANGED taken
  BY DEF HandleAppendEntry, AppendEntryTo, AppendEntryCompares, AppendEntryAdopts,
         AppendEntryStores, Handling
<1>3. ASSUME NEW step, GoesOn(c, p, step)
      PROVE  call'[c].at[p] = step /\ call'[c].reqs = call[c].reqs /\ call'[c].kind = "append"
  BY <1>1, <1>3, GoesOnTo
<1>4. p \in DOMAIN call[c].at => Tested(c, p)
  BY DEF Knows
<1>5. currentTerm[p] \in Int /\ req.Term \in Int
  BY <1>1, ConstantsAssumption DEF Terms
<1>6. CASE AppendEntryTo(c, p)
  <2>1. \A q \in Server : Local(q)' = Local(q)
    BY <1>6 DEF AppendEntryTo, persistent, volatile, Local
  <2>2. ASSUME ~Refused(p, req), GoesOn(c, p, "compare") PROVE Tested(c, p)'
    <3>1. currentTerm[p] <= req.Term
      BY <1>5, <2>2 DEF Refused
    <3>2. currentTerm'[p] = currentTerm[p]
      BY <2>1 DEF Local
    <3> QED
      BY <1>3, <2>2, <3>1, <3>2 DEF Tested, TestedAppend, TestedVote
  <2> QED
    BY <1>1, <1>2, <1>6, <2>1, <2>2, AnswerTypes, HandlerFrame DEF AppendEntryTo
<1>7. CASE AppendEntryCompares(c, p)
  <2>1. \A q \in Server : Local(q)' = Local(q)
    BY <1>7 DEF AppendEntryCompares, persistent, volatile, Local
  <2>2. currentTerm[p] <= req.Term
    BY <1>1, <1>4, <1>7 DEF AppendEntryCompares, At, Tested, TestedAppend
  <2>3. GoesOn(c, p, "adopt")
    BY <1>5, <1>7, <2>2 DEF AppendEntryCompares
  <2>4. Tested(c, p)'
    <3>1. currentTerm'[p] = currentTerm[p]
      BY <2>1 DEF Local
    <3> QED
      BY <1>3, <2>2, <2>3, <3>1 DEF Tested, TestedAppend, TestedVote
  <2> QED
    BY <1>1, <1>2, <2>1, <2>3, <2>4, HandlerFrame
<1>8. CASE AppendEntryAdopts(c, p)
  <2>1. At(c, p, "adopt") /\ GoesOn(c, p, "store")
    BY <1>1, <1>4, <1>8 DEF AppendEntryAdopts, At, Tested, TestedAppend
  <2>2. /\ currentTerm' = [currentTerm EXCEPT ![p] = req.Term]
        /\ role' = [role EXCEPT ![p] = "FOLLOWER"]
        /\ committedIndex' = [committedIndex EXCEPT ![p] = req.CommittedIndex]
        /\ UNCHANGED <<votedFor, logs, nextIndex>> /\ Clash(p, c) \subseteq upsets'
    BY <1>8, <2>1 DEF AppendEntryAdopts
  <2>3. \A q \in Server \ {p} : Local(q)' = Local(q)
    BY <2>2 DEF Local, TypeOK
  <2>4. Tested(c, p)'
    <3>1. currentTerm'[p] = req.Term /\ role'[p] = "FOLLOWER"
      BY <2>2 DEF TypeOK
    <3> QED
      BY <1>3, <1>5, <2>1, <3>1 DEF Tested, TestedAppend, TestedVote
  <2> QED
    BY <1>1, <1>2, <2>1, <2>2, <2>3, <2>4, HandlerFrame
<1>9. CASE AppendEntryStores(c, p)
  <2>1. \A q \in Server \ {p} : Local(q)' = Local(q)
    BY <1>9 DEF AppendEntryStores, volatile, Local, TypeOK
  <2>2. Matches(logs[p], req) \in BOOLEAN
    BY DEF Matches
  <2> QED
    BY <1>1, <1>2, <1>9, <2>1, <2>2, AnswerTypes, HandlerFrame DEF AppendEntryStores
<1> QED
  BY <1>6, <1>7, <1>8, <1>9 DEF HandleAppendEntry

LEMMA VoteKnows ==
  ASSUME TypeOK, TypeOK', Variant # "elastic", Knows, "clash" \notin upsets',
         NEW c \in Callers, NEW p \in Server, HandleRequestVote(c, p)
  PROVE  Knows'
<1> DEFINE req == call[c].reqs[p]
<1>1. /\ CallsOK /\ p \in DOMAIN call[c].reqs /\ call[c].kind = "vote"
      /\ req.Term \in Terms /\ currentTerm[p] \in Terms
  BY DEF TypeOK, CallsOK, IsCall, VoteRequests, HandleRequestVote, RequestVoteFrom,
         RequestVoteCompares, RequestVoteRaises, RequestVoteDecides, Vote, Handling, Pending
<1>2. UNCHANGED taken
  BY DEF HandleRequestVote, RequestVoteFrom, RequestVoteCompares, RequestVoteRaises,
         RequestVoteDecides, Vote, Handling
<1>3. ASSUME NEW step, GoesOn(c, p, step)
      PROVE  call'[c].at[p] = step /\ call'[c].reqs = call[c].reqs /\ call'[c].kind = "vote"
  BY <1>1, <1>3, GoesOnTo
<1>4. p \in DOMAIN call[c].at => TestedVote(c, p)
  BY DEF Knows, Tested
<1>5. currentTerm[p] \in Int /\ req.Term \in Int
  BY <1>1, ConstantsAssumption DEF Terms
<1>6. CASE RequestVoteFrom(c, p)
  <2>1. \A q \in Server : Local(q)' = Local(q)
    BY <1>6 DEF RequestVoteFrom, persistent, volatile, Local
  <2>2. ASSUME ~NoVote(p, req), GoesOn(c, p, "compare") PROVE Tested(c, p)'
    <3>1. currentTerm[p] <= req.Term
      BY <1>5, <2>2 DEF NoVote
    <3>2. currentTerm'[p] = currentTerm[p]
      BY <2>1 DEF Local
    <3> QED
      BY <1>3, <2>2, <3>1, <3>2 DEF Tested, TestedAppend, TestedVote
  <2> QED
    BY <1>1, <1>2, <1>6, <2>1, <2>2, AnswerTypes, HandlerFrame DEF RequestVoteFrom
<1>7. CASE RequestVoteCompares(c, p)
  <2>1. \A q \in Server : Local(q)' = Local(q)
    BY <1>7 DEF RequestVoteCompares, persistent, volatile, Local
  <2>2. currentTerm[p] <= req.Term
    BY <1>1, <1>4, <1>7 DEF RequestVoteCompares, At, TestedVote
  <2> DEFINE step == IF req.Term > currentTerm[p] THEN "raise" ELSE "decide"
  <2>3. GoesOn(c, p, step)
    BY <1>7 DEF RequestVoteCompares
  <2>4. Tested(c, p)'
    <3>1. currentTerm'[p] = currentTerm[p]
      BY <2>1 DEF Local
    <3>2. call'[c].at[p] = step /\ call'[c].reqs = call[c].reqs /\ call'[c].kind = "vote"
      BY <1>3, <2>3
    <3> QED
      BY <1>5, <2>2, <3>1, <3>2 DEF Tested, TestedAppend, TestedVote
  <2> QED
    BY <1>1, <1>2, <2>1, <2>3, <2>4, HandlerFrame
<1>8. CASE RequestVoteRaises(c, p)
  <2>1. /\ currentTerm' = [currentTerm EXCEPT ![p] = req.Term]
        /\ role' = [role EXCEPT ![p] = "FOLLOWER"] /\ GoesOn(c, p, "decide")
        /\ UNCHANGED <<votedFor, logs, nextIndex, committedIndex>>
        /\ Clash(p, c) \subseteq upsets'
    BY <1>8 DEF RequestVoteRaises
  <2>2. \A q \in Server \ {p} : Local(q)' = Local(q)
    BY <2>1 DEF Local, TypeOK
  <2>3. Tested(c, p)'
    <3>1. currentTerm'[p] = req.Term
      BY <2>1 DEF TypeOK
    <3> QED
      BY <1>3, <1>5, <2>1, <3>1 DEF Tested, TestedAppend, TestedVote
  <2> QED
    BY <1>1, <1>2, <2>1, <2>2, <2>3, HandlerFrame
<1>9. CASE RequestVoteDecides(c, p)
  <2>1. \A q \in Server : Local(q)' = Local(q)
    BY <1>9 DEF RequestVoteDecides, persistent, volatile, Local
  <2>2. currentTerm[p] = req.Term
    BY <1>1, <1>4, <1>9 DEF RequestVoteDecides, At, TestedVote
  <2>3. ASSUME VoteIsFree(p, req), UpToDate(logs[p], req), GoesOn(c, p, "vote")
        PROVE  Tested(c, p)'
    <3>1. /\ currentTerm'[p] = currentTerm[p] /\ votedFor'[p] = votedFor[p]
          /\ logs'[p] = logs[p]
      BY <2>1 DEF Local
    <3>2. call'[c].at[p] = "vote" /\ call'[c].reqs = call[c].reqs /\ call'[c].kind = "vote"
      BY <1>3, <2>3
    <3>3. VoteIsFree(p, call[c].reqs[p])' /\ UpToDate(logs[p], call[c].reqs[p])'
      BY <2>3, <3>1, <3>2 DEF VoteIsFree, UpToDate, LastLogTerm
    <3> QED
      BY <1>5, <2>2, <3>1, <3>2, <3>3 DEF Tested, TestedAppend, TestedVote
  <2> QED
    BY <1>1, <1>2, <1>9, <2>1, <2>3, AnswerTypes, HandlerFrame DEF RequestVoteDecides
<1>10. CASE Vote(c, p)
  <2>1. \A q \in Server \ {p} : Local(q)' = Local(q)
    BY <1>10 DEF Vote, volatile, Local, TypeOK
  <2> QED
    BY <1>1, <1>2, <1>10, <2>1, AnswerTypes, HandlerFrame DEF Vote
<1> QED
  BY <1>6, <1>7, <1>8, <1>9, <1>10 DEF HandleRequestVote

LEMMA LostKnows ==
  ASSUME TypeOK, TypeOK', Knows, NEW c \in Callers, NEW p \in Server, RequestLost(c, p)
  PROVE  Knows'
<1>1. UNCHANGED taken /\ \A q \in Server : Local(q)' = Local(q)
  BY DEF RequestLost, persistent, volatile, Local
<1>2. CallsOK /\ Others /\ p \in DOMAIN call[c].reqs /\ Answered(c, p, Lost)
  BY DEF TypeOK, CallsOK, Knows, RequestLost, Pending
<1>3. /\ Others'
      /\ \A d \in Callers : \A q \in DOMAIN call'[d].at : Stands(d, q)
  BY <1>2, AnswerTypes, KeptCalls
<1>4. \A d \in Callers : \A q \in DOMAIN call'[d].at : Tested(d, q)'
  BY <1>1, <1>3, TestedStays
<1>5. ASSUME NEW n \in Server PROVE TestedByClient(n)'
  <2>1. call'[Caller(n, "client")].kind = call[Caller(n, "client")].kind
    BY <1>2, CallerTypes DEF Answered, CallsOK
  <2> QED
    BY <1>1, <2>1, RunIsNoClient, CallerTypes, ClientStays
<1> QED
  BY <1>3, <1>4, <1>5 DEF Knows

LEMMA KnowsStep ==
  ASSUME TypeOK, Variant # "elastic", Knows, [Next]_vars, "clash" \notin upsets'
  PROVE  Knows'
<1>1. TypeOK'
  BY TypesStep
<1>2. CASE UNCHANGED vars
  BY <1>2 DEF vars, persistent, volatile, Knows, Others, Tested, TestedAppend, TestedVote,
              TestedByClient, VoteIsFree
<1> QED
  BY <1>1, <1>2, LoopKnows, ClientKnows, EndsKnows, AppendKnows, VoteKnows, LostKnows
  DEF Next, Handle

(***************************************************************************)
(* Votes.                                                                  *)
(*                                                                         *)
(* What a candidate counts stays true: it has voted for itself in the term *)
(* of its election, the peers that have answered with success have voted   *)
(* for it in that term, and no vote is changed.                            *)
(***************************************************************************)

\* A node has voted in no term that is still to come.
VotesPast ==
    \A n \in Server : \A t \in Terms : votedFor[n][t] # None => t <= currentTerm[n]

\* What an election asks for, and whom.
Elections ==
    \A c \in Callers : call[c].kind = "vote" =>
        /\ 1 <= call[c].term /\ call[c].term <= currentTerm[c[1]]
        /\ c[1] \notin DOMAIN call[c].reqs \cup DOMAIN call[c].answers
        /\ \A p \in DOMAIN call[c].reqs :
               /\ call[c].reqs[p].Term = call[c].term
               /\ call[c].reqs[p].CandidateId = c[1]

\* What has been counted, and what will be.
VotesCounted ==
    \A c \in Callers : call[c].kind = "vote" =>
        \A p \in Successes(c) \cup {c[1]} : votedFor[p][call[c].term] = c[1]

VoteInv == TypeOK /\ Knows /\ VotesPast /\ Elections /\ VotesCounted

LEMMA VoteInit == Init => VoteInv
  BY InitTypes, KnowsInit DEF Init, VoteInv, VotesPast, Elections, VotesCounted, NoCall

\* A step that makes no call an election and counts no vote.
NoneCounted ==
    \A c \in Callers : call'[c].kind = "vote" =>
        /\ call[c].kind = "vote" /\ call'[c].term = call[c].term
        /\ DOMAIN call'[c].reqs \subseteq DOMAIN call[c].reqs
        /\ DOMAIN call'[c].answers \subseteq DOMAIN call[c].reqs \cup DOMAIN call[c].answers
        /\ \A p \in DOMAIN call'[c].reqs : call'[c].reqs[p] = call[c].reqs[p]
        /\ Successes(c)' \subseteq Successes(c)

TermsRise == \A n \in Server : currentTerm[n] <= currentTerm'[n]

LEMMA VoteFrame ==
  ASSUME VoteInv, TypeOK', UNCHANGED votedFor, TermsRise, NoneCounted
  PROVE  VotesPast' /\ Elections' /\ VotesCounted'
<1> USE DEF VoteInv, TermsRise, NoneCounted
<1>0. /\ \A n \in Server : currentTerm[n] \in Int /\ currentTerm'[n] \in Int
      /\ \A c \in Callers : c[1] \in Server /\ call[c].term \in Int
      /\ \A c \in Callers : DOMAIN call[c].reqs \subseteq Server
  BY CallerTypes, ConstantsAssumption DEF TypeOK, IsCall, Terms
<1>1. VotesPast'
  BY <1>0, ConstantsAssumption DEF VotesPast, Terms
<1>2. Elections'
  BY <1>0 DEF Elections
<1>3. VotesCounted'
  BY DEF VotesCounted
<1> QED
  BY <1>1, <1>2, <1>3

LEMMA TermsStay == ASSUME TypeOK, UNCHANGED currentTerm PROVE TermsRise
  BY DEF TypeOK, TermsRise, Terms

LEMMA CallsStay == ASSUME UNCHANGED call PROVE NoneCounted
  BY DEF NoneCounted, Successes

LEMMA CallEndsCounts == ASSUME CallsOK, NEW c \in Callers, CallEnds(c) PROVE NoneCounted
  BY DEF CallsOK, CallEnds, NoCall, NoneCounted, Successes

LEMMA SendCounts ==
  ASSUME CallsOK, NEW c \in Callers, NEW reqs, Send(c, "append", reqs)
  PROVE  NoneCounted
  BY DEF CallsOK, Send, NoneCounted, Successes

LEMMA GoesOnCounts ==
  ASSUME CallsOK, NEW c \in Callers, NEW p, NEW step, GoesOn(c, p, step)
  PROVE  NoneCounted
  BY DEF CallsOK, GoesOn, NoneCounted, Successes

LEMMA AnsweredCounts ==
  ASSUME CallsOK, NEW c \in Callers, NEW p \in DOMAIN call[c].reqs, NEW a, Answered(c, p, a),
         call[c].kind = "vote" => ~a.Success
  PROVE  NoneCounted
<1>1. /\ call'[c].kind = call[c].kind /\ call'[c].term = call[c].term
      /\ call'[c].reqs = [q \in DOMAIN call[c].reqs \ {p} |-> call[c].reqs[q]]
      /\ call'[c].answers = [q \in DOMAIN call[c].answers \cup {p} |->
                                 IF q = p THEN a ELSE call[c].answers[q]]
      /\ \A d \in Callers \ {c} : call'[d] = call[d]
  BY DEF CallsOK, Answered
<1>2. call[c].kind = "vote" => Successes(c)' \subseteq Successes(c)
  BY <1>1 DEF Successes
<1> QED
  BY <1>1, <1>2 DEF NoneCounted, Successes

LEMMA HigherRises == ASSUME TypeOK, NEW c \in Callers, StepsDown(c) PROVE TermsRise
<1>1. c[1] \in Server /\ IsCall(call[c]) /\ \A n \in Server : currentTerm[n] \in Int
  BY CallerTypes, ConstantsAssumption DEF TypeOK, Terms
<1>2. PICK term \in TermsSeen(c) : currentTerm' = [currentTerm EXCEPT ![c[1]] = term]
  BY DEF StepsDown
<1>3. term \in Int /\ currentTerm[c[1]] <= term
  BY <1>1, <1>2, ConstantsAssumption DEF TermsSeen, Higher, IsCall, Answers, Terms
<1> QED
  BY <1>1, <1>2, <1>3 DEF TermsRise, TypeOK

\* Only these two change votes.
Voting == (\E n \in Server : CandidateTimeout(n)) \/ (\E c \in Callers, p \in Server : Vote(c, p))

\* What has upset the cluster stays known.
LEMMA UpsetsStay == ASSUME [Next]_vars PROVE upsets \subseteq upsets'
<1>1. ASSUME NEW n \in Server, Loop(n) \/ Client(n) PROVE upsets \subseteq upsets'
  BY <1>1 DEF Loop, TakeInbound, FollowerTimeout, LeaderTimeout, CandidateTimeout, Client,
              ClientOther, ClientRequest, ClientAppends, history
<1>2. ASSUME NEW c \in Callers, NEW p \in Server, Handle(c, p) \/ RequestLost(c, p)
      PROVE  upsets \subseteq upsets'
  BY <1>2 DEF Handle, HandleAppendEntry, HandleRequestVote, AppendEntryTo, AppendEntryCompares,
              AppendEntryAdopts, AppendEntryStores, RequestVoteFrom, RequestVoteCompares,
              RequestVoteRaises, RequestVoteDecides, Vote, RequestLost, history
<1>3. ASSUME NEW c \in Callers, Ends(c) PROVE upsets \subseteq upsets'
  BY <1>3 DEF Ends, ElectionLost, ElectionWon, BroadcastStale, BroadcastDone, BroadcastPanics
<1> QED
  BY <1>1, <1>2, <1>3 DEF Next, vars, history

LEMMA HandlersVote ==
  ASSUME VoteInv, Variant # "elastic", NEW c \in Callers, NEW p \in Server,
         Handle(c, p) \/ RequestLost(c, p), ~Vote(c, p)
  PROVE  UNCHANGED votedFor /\ TermsRise /\ NoneCounted
<1> DEFINE req == call[c].reqs[p]
<1> USE DEF VoteInv
<1>1. /\ CallsOK /\ IsCall(call[c]) /\ \A n \in Server : currentTerm[n] \in Int
      /\ p \in DOMAIN call[c].at => Tested(c, p) /\ p \in DOMAIN call[c].reqs
  BY ConstantsAssumption DEF TypeOK, CallsOK, IsCall, Terms, Knows
<1>2. ~Lost.Success /\ \A term : ~Answer(term, FALSE).Success
  BY DEF Lost, Answer
<1>3. CASE HandleAppendEntry(c, p)
  <2>1. p \in DOMAIN call[c].reqs /\ call[c].kind = "append" /\ UNCHANGED votedFor
    BY <1>1, <1>3 DEF HandleAppendEntry, AppendEntryTo, AppendEntryCompares, AppendEntryAdopts,
                      AppendEntryStores, Handling, Pending, persistent
  <2>2. NoneCounted
    BY <1>1, <1>3, <2>1, AnsweredCounts, GoesOnCounts
    DEF HandleAppendEntry, AppendEntryTo, AppendEntryCompares, AppendEntryAdopts,
        AppendEntryStores
  <2>3. CASE AppendEntryAdopts(c, p)
    <3>1. At(c, p, "adopt") /\ currentTerm[p] <= req.Term
      BY <1>1, <2>1, <2>3 DEF AppendEntryAdopts, Handling, At, Tested, TestedAppend
    <3>2. currentTerm' = [currentTerm EXCEPT ![p] = req.Term]
      BY <2>3, <3>1 DEF AppendEntryAdopts
    <3> QED
      BY <1>1, <2>1, <2>2, <3>1, <3>2 DEF TermsRise, TypeOK
  <2>4. CASE ~AppendEntryAdopts(c, p)
    <3>1. UNCHANGED currentTerm
      BY <1>3, <2>4 DEF HandleAppendEntry, AppendEntryTo, AppendEntryCompares,
                        AppendEntryStores, persistent
    <3> QED
      BY <2>1, <2>2, <3>1, TermsStay
  <2> QED
    BY <2>3, <2>4
<1>4. CASE HandleRequestVote(c, p)
  <2>1. p \in DOMAIN call[c].reqs /\ call[c].kind = "vote" /\ UNCHANGED votedFor
    BY <1>1, <1>4 DEF HandleRequestVote, RequestVoteFrom, RequestVoteCompares,
                      RequestVoteRaises, RequestVoteDecides, Handling, Pending, persistent
  <2>2. NoneCounted
    BY <1>1, <1>2, <1>4, <2>1, AnsweredCounts, GoesOnCounts
    DEF HandleRequestVote, RequestVoteFrom, RequestVoteCompares, RequestVoteRaises,
        RequestVoteDecides
  <2>3. CASE RequestVoteRaises(c, p)
    <3>1. currentTerm[p] <= req.Term
      BY <1>1, <2>1, <2>3 DEF RequestVoteRaises, Handling, Tested, TestedVote
    <3>2. currentTerm' = [currentTerm EXCEPT ![p] = req.Term]
      BY <2>3 DEF RequestVoteRaises
    <3> QED
      BY <1>1, <2>1, <2>2, <3>1, <3>2 DEF TermsRise, TypeOK
  <2>4. CASE ~RequestVoteRaises(c, p)
    <3>1. UNCHANGED currentTerm
      BY <1>4, <2>4 DEF HandleRequestVote, RequestVoteFrom, RequestVoteCompares,
                        RequestVoteDecides, persistent
    <3> QED
      BY <2>1, <2>2, <3>1, TermsStay
  <2> QED
    BY <2>3, <2>4
<1>5. CASE RequestLost(c, p)
  <2>1. NoneCounted
    BY <1>1, <1>2, <1>5, AnsweredCounts DEF RequestLost, Pending
  <2> QED
    BY <1>5, <2>1, TermsStay DEF RequestLost, persistent
<1> QED
  BY <1>3, <1>4, <1>5 DEF Handle

LEMMA OtherSteps ==
  ASSUME VoteInv, Variant # "elastic", [Next]_vars, ~Voting
  PROVE  UNCHANGED votedFor /\ TermsRise /\ NoneCounted
<1> USE DEF VoteInv
<1>0. CallsOK
  BY DEF TypeOK, CallsOK
<1>1. CASE UNCHANGED vars
  BY <1>1, TermsStay, CallsStay DEF vars, persistent
<1>2. ASSUME NEW n \in Server, Loop(n)
      PROVE  UNCHANGED votedFor /\ TermsRise /\ NoneCounted
  <2>1. CASE TakeInbound(n) \/ FollowerTimeout(n)
    BY <2>1, TermsStay, CallsStay DEF TakeInbound, FollowerTimeout, persistent
  <2>2. CASE LeaderTimeout(n)
    BY <1>0, <2>2, TermsStay, SendCounts, CallerTypes
    DEF LeaderTimeout, BroadcastEntry, persistent
  <2> QED
    BY <1>2, <2>1, <2>2 DEF Loop, Voting
<1>3. ASSUME NEW n \in Server, Client(n)
      PROVE  UNCHANGED votedFor /\ TermsRise /\ NoneCounted
  <2>1. CASE ClientOther(n) \/ \E cmd \in Commands : ClientRequest(n, cmd)
    BY <2>1, TermsStay, CallsStay DEF ClientOther, ClientRequest, persistent
  <2>2. CASE ClientAppends(n)
    BY <1>0, <2>2, TermsStay, SendCounts, CallerTypes DEF ClientAppends, BroadcastEntry
  <2> QED
    BY <1>3, <2>1, <2>2 DEF Client
<1>4. ASSUME NEW c \in Callers, Ends(c)
      PROVE  UNCHANGED votedFor /\ TermsRise /\ NoneCounted
  <2>1. NoneCounted
    BY <1>0, <1>4, CallEndsCounts
    DEF Ends, ElectionLost, ElectionWon, BroadcastStale, BroadcastDone, BroadcastPanics
  <2>2. CASE ElectionLost(c) \/ BroadcastStale(c)
    BY <2>1, <2>2, HigherRises DEF ElectionLost, BroadcastStale, StepsDown
  <2>3. CASE ElectionWon(c) \/ BroadcastDone(c) \/ BroadcastPanics(c)
    BY <2>1, <2>3, TermsStay DEF ElectionWon, BroadcastDone, BroadcastPanics, persistent
  <2> QED
    BY <1>4, <2>2, <2>3 DEF Ends
<1>5. ASSUME NEW c \in Callers, NEW p \in Server, Handle(c, p) \/ RequestLost(c, p)
      PROVE  UNCHANGED votedFor /\ TermsRise /\ NoneCounted
  BY <1>5, HandlersVote DEF Voting
<1> QED
  BY <1>1, <1>2, <1>3, <1>4, <1>5 DEF Next

VotesStay ==
    \A n \in Server : \A t \in Terms :
        votedFor[n][t] # None => votedFor'[n][t] = votedFor[n][t]

LEMMA ElectionTerm ==
  ASSUME VoteInv, NEW c \in Callers, call[c].kind = "vote"
  PROVE  call[c].term \in 1..MaxTerm /\ call[c].term \in Terms
<1>1. call[c].term \in Terms
  BY DEF VoteInv, TypeOK, IsCall
<1>2. 1 <= call[c].term
  BY DEF VoteInv, Elections
<1> QED
  BY <1>1, <1>2, ConstantsAssumption DEF Terms

\* Who is counted is a node, and has voted for the candidate.
LEMMA CountedVote ==
  ASSUME VoteInv, NEW c \in Callers, call[c].kind = "vote",
         NEW p \in Successes(c) \cup {c[1]}
  PROVE  p \in Server /\ c[1] # None /\ votedFor[p][call[c].term] = c[1]
<1>1. c[1] \in Server /\ IsCall(call[c])
  BY CallerTypes DEF VoteInv, TypeOK
<1>2. p \in Server
  BY <1>1 DEF Successes, IsCall
<1>3. c[1] # None
  BY <1>1, ConstantsAssumption
<1> QED
  BY <1>2, <1>3 DEF VoteInv, VotesCounted

LEMMA CandidateSteps ==
  ASSUME VoteInv, TypeOK', NEW n \in Server, CandidateTimeout(n)
  PROVE  VotesPast' /\ Elections' /\ VotesCounted' /\ TermsRise /\ VotesStay
<1> DEFINE term == currentTerm[n] + 1
           c == Caller(n, "run")
           reqs == [p \in CurrentPeers(n, logs[n]) |-> RequestVoteRequest(n, term)]
<1> USE DEF VoteInv
<1>1. /\ currentTerm' = [currentTerm EXCEPT ![n] = term]
      /\ votedFor' = [votedFor EXCEPT ![n][term] = n]
      /\ term <= MaxTerm
  BY DEF CandidateTimeout
<1>2. \A m \in Server : currentTerm[m] \in Nat
  BY ConstantsAssumption DEF TypeOK, Terms
<1>3. /\ c \in Callers /\ c[1] = n
      /\ \A d \in Callers : d[1] \in Server /\ call[d].term \in Nat
  BY CallerTypes, ConstantsAssumption DEF TypeOK, IsCall, Terms
<1>4. /\ call'[c] = [kind |-> "vote", term |-> term, reqs |-> reqs, at |-> Nothing,
                     answers |-> Nothing]
      /\ \A d \in Callers \ {c} : call'[d] = call[d]
  <2>1. Send(c, "vote", reqs)
    BY DEF CandidateTimeout
  <2>2. currentTerm'[n] = term
    BY <1>1 DEF TypeOK
  <2> QED
    BY <1>3, <2>1, <2>2 DEF Send, TypeOK
<1>5. term \in Terms /\ term >= 1 /\ votedFor[n][term] = None
  BY <1>1, <1>2, ConstantsAssumption DEF VotesPast, Terms
<1> HIDE DEF VoteInv
<1>6. \A m \in Server : currentTerm'[m] = IF m = n THEN currentTerm[n] + 1 ELSE currentTerm[m]
  BY <1>1 DEF TypeOK, VoteInv
<1>7. TermsRise
  BY <1>2, <1>6 DEF TermsRise
<1> USE DEF VoteInv
<1>8. VotesStay
  BY <1>1, <1>5 DEF VotesStay, TypeOK
<1>9. VotesPast'
  <2> SUFFICES ASSUME NEW m \in Server, NEW t \in Terms, votedFor'[m][t] # None
               PROVE  t <= currentTerm'[m]
    BY DEF VotesPast
  <2>1. CASE m = n /\ t = term
    BY <1>2, <1>6, <2>1
  <2>2. CASE ~(m = n /\ t = term)
    <3>1. votedFor'[m][t] = votedFor[m][t]
      BY <1>1, <2>2 DEF TypeOK
    <3>2. t <= currentTerm[m]
      BY <3>1 DEF VotesPast
    <3>3. currentTerm[m] \in Nat /\ currentTerm'[m] \in Nat /\ t \in Nat
      BY <1>2, ConstantsAssumption DEF TypeOK, Terms
    <3>4. currentTerm[m] <= currentTerm'[m]
      BY <1>7 DEF TermsRise
    <3> HIDE DEF VoteInv
    <3> QED
      BY <3>2, <3>3, <3>4
  <2> QED
    BY <2>1, <2>2
<1>10. Elections'
  <2>1. /\ n \notin DOMAIN reqs
        /\ \A p \in DOMAIN reqs : reqs[p].Term = term /\ reqs[p].CandidateId = n
    BY PeersTypes DEF RequestVoteRequest
  <2>2. currentTerm'[n] = term /\ \A m \in Server : currentTerm[m] <= currentTerm'[m]
    BY <1>7, <1>6 DEF TermsRise
  <2>3. \A d \in Callers \ {c} : call[d].kind = "vote" =>
             call[d].term <= currentTerm[d[1]] /\ currentTerm[d[1]] <= currentTerm'[d[1]]
    BY <1>3, <2>2 DEF Elections
  <2>4. \A m \in Server : currentTerm'[m] \in Nat
    BY ConstantsAssumption DEF TypeOK, Terms
  <2> QED
    BY <1>2, <1>3, <1>4, <1>5, <2>1, <2>2, <2>3, <2>4 DEF Elections, Nothing
<1>11. VotesCounted'
  <2> SUFFICES ASSUME NEW d \in Callers, call'[d].kind = "vote",
                      NEW p \in Successes(d)' \cup {d[1]}
               PROVE  votedFor'[p][call'[d].term] = d[1]
    BY DEF VotesCounted
  <2>1. CASE d = c
    <3>1. p = n
      BY <1>3, <1>4, <2>1 DEF Successes, Nothing
    <3> QED
      BY <1>1, <1>3, <1>4, <1>5, <2>1, <3>1 DEF TypeOK
  <2>2. CASE d # c
    <3>1. call'[d] = call[d]
      BY <1>4, <2>2
    <3>2. call[d].kind = "vote" /\ p \in Successes(d) \cup {d[1]}
      BY <3>1 DEF Successes
    <3>3. /\ p \in Server /\ d[1] # None /\ votedFor[p][call[d].term] = d[1]
          /\ call[d].term \in Terms
      BY <3>2, CountedVote, ElectionTerm
    <3> QED
      BY <1>8, <3>1, <3>3 DEF VotesStay
  <2> QED
    BY <2>1, <2>2
<1> QED
  BY <1>7, <1>8, <1>9, <1>10, <1>11

LEMMA VoteSteps ==
  ASSUME VoteInv, TypeOK', Variant # "elastic", NEW c \in Callers, NEW p \in Server, Vote(c, p)
  PROVE  VotesPast' /\ Elections' /\ VotesCounted' /\ TermsRise /\ VotesStay
<1> DEFINE req == call[c].reqs[p]
           term == currentTerm[p]
<1> USE DEF VoteInv
<1>1. /\ p \in DOMAIN call[c].reqs /\ call[c].kind = "vote" /\ IsCall(call[c])
      /\ votedFor' = [votedFor EXCEPT ![p][term] = req.CandidateId]
      /\ UNCHANGED currentTerm /\ p \in DOMAIN call[c].at /\ call[c].at[p] = "vote"
  BY DEF Vote, Handling, At, TypeOK, IsCall
<1>2. req.Term = call[c].term /\ req.CandidateId = c[1] /\ p # c[1]
  BY <1>1 DEF Elections
<1>3. /\ \A d \in Callers : d[1] \in Server /\ call[d].term \in Nat
      /\ \A m \in Server : currentTerm[m] \in Nat
  BY CallerTypes, ConstantsAssumption DEF TypeOK, IsCall, Terms
<1>4. /\ call'[c].kind = "vote" /\ call'[c].term = call[c].term
      /\ call'[c].reqs = [q \in DOMAIN call[c].reqs \ {p} |-> call[c].reqs[q]]
      /\ DOMAIN call'[c].answers = DOMAIN call[c].answers \cup {p}
      /\ Successes(c)' \subseteq Successes(c) \cup {p}
      /\ \A d \in Callers \ {c} : call'[d] = call[d]
  <2>1. PICK a \in {Answer(term, TRUE), Lost} : Answered(c, p, a)
    BY DEF Vote
  <2>2. call'[c] = [kind |-> call[c].kind, term |-> call[c].term,
                    reqs |-> [q \in DOMAIN call[c].reqs \ {p} |-> call[c].reqs[q]],
                    at |-> [q \in DOMAIN call[c].at \ {p} |-> call[c].at[q]],
                    answers |-> [q \in DOMAIN call[c].answers \cup {p} |->
                                    IF q = p THEN a ELSE call[c].answers[q]]]
    BY <2>1 DEF Answered, TypeOK
  <2>3. \A d \in Callers \ {c} : call'[d] = call[d]
    BY <2>1 DEF Answered, TypeOK
  <2> QED
    BY <1>1, <2>2, <2>3 DEF Successes
<1>5. TermsRise
  BY <1>1, TermsStay
<1>6. VotesPast'
  <2> SUFFICES ASSUME NEW m \in Server, NEW t \in Terms, votedFor'[m][t] # None
               PROVE  t <= currentTerm[m]
    BY <1>1 DEF VotesPast
  <2>1. CASE m = p /\ t = term
    BY <1>3, <2>1
  <2>2. CASE ~(m = p /\ t = term)
    <3>1. votedFor'[m][t] = votedFor[m][t]
      BY <1>1, <2>2 DEF TypeOK
    <3> QED
      BY <3>1 DEF VotesPast
  <2> QED
    BY <2>1, <2>2
<1>7. Elections'
  BY <1>1, <1>2, <1>3, <1>4 DEF Elections
<1>8. term = call[c].term /\ term \in Terms /\ votedFor[p][term] \in {None, c[1]}
  <2>1. TestedVote(c, p)
    BY <1>1 DEF Knows, Tested
  <2>2. currentTerm[p] = req.Term /\ VoteIsFree(p, req)
    BY <1>1, <2>1 DEF TestedVote
  <2> QED
    BY <1>2, <2>2 DEF VoteIsFree, TypeOK
<1>9. VotesStay
  BY <1>1, <1>2, <1>8 DEF VotesStay, TypeOK
<1>10. VotesCounted'
  <2> SUFFICES ASSUME NEW d \in Callers, call'[d].kind = "vote",
                      NEW q \in Successes(d)' \cup {d[1]}
               PROVE  votedFor'[q][call'[d].term] = d[1]
    BY DEF VotesCounted
  <2>1. call[d].kind = "vote" /\ call'[d].term = call[d].term
    BY <1>1, <1>4
  <2>2. call[d].term \in Terms
    BY <2>1, ElectionTerm
  <2>3. CASE d = c /\ q = p
    BY <1>1, <1>2, <1>8, <2>1, <2>3 DEF TypeOK
  <2>4. CASE ~(d = c /\ q = p)
    <3>1. q \in Successes(d) \cup {d[1]}
      BY <1>4, <2>4 DEF Successes
    <3>2. q \in Server /\ votedFor[q][call[d].term] = d[1] /\ d[1] # None
      BY <2>1, <3>1, CountedVote
    <3> QED
      BY <1>9, <2>1, <2>2, <3>2 DEF VotesStay
  <2> QED
    BY <2>3, <2>4
<1> QED
  BY <1>5, <1>6, <1>7, <1>9, <1>10

LEMMA VoteInvariant ==
  ASSUME Variant # "elastic", VoteInv, [Next]_vars, "clash" \notin upsets'
  PROVE  VoteInv' /\ TermsRise /\ VotesStay
<1>1. TypeOK' /\ Knows'
  BY TypesStep, KnowsStep DEF VoteInv
<1>2. CASE ~Voting
  BY <1>1, <1>2, OtherSteps, VoteFrame DEF VoteInv, VotesStay
<1>3. ASSUME NEW n \in Server, CandidateTimeout(n) PROVE VoteInv' /\ TermsRise /\ VotesStay
  BY <1>1, <1>3, CandidateSteps DEF VoteInv
<1>4. ASSUME NEW c \in Callers, NEW p \in Server, Vote(c, p)
      PROVE  VoteInv' /\ TermsRise /\ VotesStay
  BY <1>1, <1>4, VoteSteps DEF VoteInv
<1> QED
  BY <1>2, <1>3, <1>4 DEF Voting

\* While no two goroutines of a node clash, no node changes a vote, and no node's
\* term falls, in any step of the cluster: neither a request of an old term, nor an
\* answer that comes late, nor a handler that was held up between its test and its
\* vote, nor the node's own election takes back what another node has counted.
THEOREM RaftVotes == Spec => VotesAreFinal
<1> DEFINE Calm == "clash" \notin upsets
           Stays == Variant # "elastic" /\ "clash" \notin upsets' =>
                        \A n \in Server :
                            /\ currentTerm[n] <= currentTerm'[n]
                            /\ \A t \in Terms :
                                   votedFor[n][t] # None => votedFor'[n][t] = votedFor[n][t]
<1>1. CASE Variant # "elastic"
  <2>1. Init => (Calm => VoteInv)
    BY VoteInit
  <2>2. (Calm => VoteInv) /\ [Next]_vars => (Calm => VoteInv)'
    BY <1>1, VoteInvariant, UpsetsStay
  <2>3. (Calm => VoteInv) /\ [Next]_vars => [Stays]_vars
    BY <1>1, VoteInvariant, UpsetsStay DEF TermsRise, VotesStay
  <2> QED
    BY <2>1, <2>2, <2>3, PTL DEF Spec, VotesAreFinal
<1>2. CASE Variant = "elastic"
  <2>1. [Next]_vars => [Stays]_vars
    BY <1>2
  <2> QED
    BY <2>1, PTL DEF Spec, VotesAreFinal
<1> QED
  BY <1>1, <1>2

(***************************************************************************)
(* One winner.                                                             *)
(*                                                                         *)
(* While nobody has asked for a change of the cluster every log is plain,  *)
(* every node counts all the others as its peers, and a winner has the     *)
(* votes of a majority; two majorities have a node in common, which has    *)
(* one vote.                                                               *)
(***************************************************************************)
Plain == {e \in Commanded : e.ServerID = None}

PlainLogs ==
    "members" \notin upsets =>
        /\ logs \in [Server -> Seq(Plain)] /\ taken \in [Server -> Seq(Plain)]
        /\ \A c \in Callers : call[c].kind = "append" =>
               \A p \in DOMAIN call[c].reqs : call[c].reqs[p].Entry \in Seq(Plain)

IsQuorum(Q) == Q \subseteq Server /\ 2 * Cardinality(Q) > Cardinality(Server)

WonByVotes ==
    "members" \notin upsets =>
        \A w \in won :
            /\ w.term \in 1..MaxTerm /\ w.leader \in Server
            /\ \E Q : IsQuorum(Q) /\ \A q \in Q : votedFor[q][w.term] = w.leader

WinInv == VoteInv /\ PlainLogs /\ WonByVotes

LEMMA QuorumsMeet ==
  ASSUME NEW Q, NEW R, IsQuorum(Q), IsQuorum(R)
  PROVE  Q \cap R # {}
<1>1. IsFiniteSet(Server) /\ IsFiniteSet(Q) /\ IsFiniteSet(R)
  BY ConstantsAssumption, FS_Subset DEF IsQuorum
<1>2. /\ Cardinality(Q) \in Nat /\ Cardinality(R) \in Nat
      /\ Cardinality(Server) \in Nat
  BY <1>1, FS_CardinalityType
<1>3. Cardinality(Q) + Cardinality(R) > Cardinality(Server)
  BY <1>2 DEF IsQuorum
<1> QED
  BY <1>1, <1>3, FS_MajoritiesIntersect DEF IsQuorum

LEMMA PlainPeers ==
  ASSUME NEW n \in Server, NEW log \in Seq(Plain)
  PROVE  CurrentPeers(n, log) = Server \ {n}
<1>1. \A i \in DOMAIN log : log[i].ServerID = None
  BY LenProperties, ElementOfSeq DEF Plain
<1>2. \A id \in Server : Mentions(id, log) = {}
  BY <1>1, ConstantsAssumption DEF Mentions
<1> QED
  BY <1>2 DEF CurrentPeers

LEMMA ElectedQuorum ==
  ASSUME VoteInv, PlainLogs, "members" \notin upsets, Cardinality(Server) % 2 = 1,
         NEW c \in Callers, call[c].kind = "vote", Elected(c)
  PROVE  IsQuorum(Successes(c) \cup {c[1]})
<1> DEFINE n == c[1]
           S == Successes(c)
<1>1. n \in Server /\ logs[n] \in Seq(Plain) /\ IsFiniteSet(Server)
  BY CallerTypes, ConstantsAssumption DEF PlainLogs
<1>2. S \subseteq Server /\ n \notin S
  BY DEF VoteInv, TypeOK, IsCall, Elections, Successes
<1>3. Cardinality(CurrentPeers(n, logs[n])) = Cardinality(Server) - 1
  BY <1>1, PlainPeers, FS_RemoveElement
<1>4. Cardinality(S) + 1 >= (Cardinality(Server) - 1) \div 2 + 1
  BY <1>3 DEF Elected, IsMajority
<1>5. IsFiniteSet(S) /\ Cardinality(S \cup {n}) = Cardinality(S) + 1
  BY <1>1, <1>2, FS_Subset, FS_AddElement
<1>6. Cardinality(S) \in Nat /\ Cardinality(Server) \in Nat
  BY <1>1, <1>5, FS_CardinalityType
<1>7. 2 * (Cardinality(S) + 1) > Cardinality(Server)
  BY <1>4, <1>6
<1> QED
  BY <1>1, <1>2, <1>5, <1>7 DEF IsQuorum

\* A broadcast of a plain log, and an entry that is added to one.
LEMMA PlainBroadcast ==
  ASSUME CallsOK, PlainLogs, NEW c \in Callers, NEW log \in Seq(Plain), "members" \notin upsets,
         BroadcastEntry(c, log)
  PROVE  \A d \in Callers : call'[d].kind = "append" =>
             \A p \in DOMAIN call'[d].reqs : call'[d].reqs[p].Entry \in Seq(Plain)
<1> DEFINE peers == CurrentPeers(c[1], log)
           reqs == [p \in peers |-> AppendEntryRequest(c[1], p, log)]
<1>1. Send(c, "append", reqs)
  BY DEF BroadcastEntry
<1>2. call'[c].reqs = reqs /\ \A d \in Callers \ {c} : call'[d] = call[d]
  BY <1>1 DEF Send, CallsOK
<1>3. \A p \in peers : nextIndex[c[1]][p] \in 0..Len(log)
  BY DEF BroadcastEntry
<1>4. \A p \in peers : reqs[p].Entry \in Seq(Plain)
  BY <1>3, EntryTypes DEF AppendEntryRequest
<1> QED
  BY <1>2, <1>4 DEF PlainLogs

\* Calls whose requests are some of those there were.
Fewer ==
    \A c \in Callers : call'[c].kind = "append" =>
        /\ call[c].kind = "append" /\ DOMAIN call'[c].reqs \subseteq DOMAIN call[c].reqs
        /\ \A p \in DOMAIN call'[c].reqs : call'[c].reqs[p] = call[c].reqs[p]

LEMMA PlainFrame ==
  ASSUME PlainLogs, UNCHANGED <<logs, taken>>, upsets \subseteq upsets', Fewer
  PROVE  PlainLogs'
  BY DEF PlainLogs, Fewer

LEMMA FewerCalls ==
  ASSUME CallsOK, NEW c \in Callers, NEW p, NEW a, NEW step, NEW reqs,
         \/ UNCHANGED call
         \/ CallEnds(c) \/ Send(c, "vote", reqs) \/ GoesOn(c, p, step) \/ Answered(c, p, a)
  PROVE  Fewer
  BY DEF CallsOK, CallEnds, NoCall, Send, GoesOn, Answered, Fewer

LEMMA PlainSteps ==
  ASSUME TypeOK, PlainLogs, [Next]_vars
  PROVE  PlainLogs'
<1>0. CallsOK /\ upsets \subseteq upsets'
  BY UpsetsStay DEF TypeOK, CallsOK
<1>1. CASE UNCHANGED vars
  BY <1>1 DEF vars, persistent, history, PlainLogs
<1>2. ASSUME NEW n \in Server, Loop(n) PROVE PlainLogs'
  <2>1. UNCHANGED <<logs, taken>>
    BY <1>2 DEF Loop, TakeInbound, FollowerTimeout, LeaderTimeout, CandidateTimeout, persistent
  <2>2. CASE TakeInbound(n) \/ FollowerTimeout(n)
    BY <1>0, <2>1, <2>2 DEF TakeInbound, FollowerTimeout, PlainLogs
  <2>3. CASE LeaderTimeout(n)
    <3>1. BroadcastEntry(Caller(n, "run"), logs[n])
      BY <2>3 DEF LeaderTimeout
    <3>2. "members" \notin upsets' => "members" \notin upsets /\ logs[n] \in Seq(Plain)
      BY <1>0 DEF PlainLogs
    <3> QED
      BY <1>0, <2>1, <3>1, <3>2, PlainBroadcast, CallerTypes DEF PlainLogs
  <2>4. CASE CandidateTimeout(n)
    BY <1>0, <2>1, <2>4, FewerCalls, PlainFrame, CallerTypes DEF CandidateTimeout
  <2> QED
    BY <1>2, <2>2, <2>3, <2>4 DEF Loop
<1>3. ASSUME NEW n \in Server, Client(n) PROVE PlainLogs'
  <2>1. CASE ClientOther(n)
    BY <2>1 DEF ClientOther, persistent, history, PlainLogs
  <2>2. ASSUME NEW cmd \in Commands, ClientRequest(n, cmd), "members" \notin upsets'
        PROVE  PlainLogs'
    <3>0. PICK term \in 0..currentTerm[n] : taken' = [taken EXCEPT ![n] = <<logEntry(term, cmd)>>]
      BY <2>2 DEF ClientRequest
    <3> DEFINE entry == logEntry(term, cmd)
    <3>1. /\ cmd.ServerID = None /\ "members" \notin upsets
          /\ taken' = [taken EXCEPT ![n] = <<entry>>] /\ UNCHANGED <<logs, call>>
      BY <2>2, <3>0 DEF ClientRequest, persistent
    <3>2. entry \in Plain
      <4>1. term \in Terms
        BY ConstantsAssumption DEF TypeOK, Terms
      <4> QED
        BY <3>1, <4>1 DEF Plain, Commanded, logEntry
    <3>3. <<entry>> \in Seq(Plain)
      BY <3>2
    <3> QED
      BY <3>1, <3>3 DEF PlainLogs
  <2>3. ASSUME ClientAppends(n), "members" \notin upsets' PROVE PlainLogs'
    <3> DEFINE log == logs[n] \o taken[n]
    <3>1. /\ "members" \notin upsets
          /\ logs' = [logs EXCEPT ![n] = log] /\ taken' = [taken EXCEPT ![n] = <<>>]
          /\ BroadcastEntry(Caller(n, "client"), log)
      BY <1>0, <2>3 DEF ClientAppends
    <3>2. log \in Seq(Plain)
      BY <3>1, ConcatProperties DEF PlainLogs
    <3>3. logs' \in [Server -> Seq(Plain)] /\ taken' \in [Server -> Seq(Plain)]
      BY <3>1, <3>2, EmptySeq DEF PlainLogs
    <3> QED
      BY <1>0, <3>1, <3>2, <3>3, PlainBroadcast, CallerTypes DEF PlainLogs
  <2> QED
    BY <1>3, <2>1, <2>2, <2>3 DEF Client, PlainLogs
<1>4. ASSUME NEW c \in Callers, Ends(c) PROVE PlainLogs'
  <2>1. CallEnds(c) /\ UNCHANGED <<logs, taken>>
    BY <1>4 DEF Ends, ElectionLost, ElectionWon, BroadcastStale, BroadcastDone,
                BroadcastPanics, StepsDown, persistent
  <2> QED
    BY <1>0, <2>1, FewerCalls, PlainFrame
<1>5. ASSUME NEW c \in Callers, NEW p \in Server, Handle(c, p) \/ RequestLost(c, p)
      PROVE  PlainLogs'
  <2>1. Fewer /\ UNCHANGED taken
    BY <1>0, <1>5, FewerCalls
    DEF Handle, HandleAppendEntry, HandleRequestVote, AppendEntryTo, AppendEntryCompares,
        AppendEntryAdopts, AppendEntryStores, RequestVoteFrom, RequestVoteCompares,
        RequestVoteRaises, RequestVoteDecides, Vote, RequestLost, Handling
  <2>2. CASE AppendEntryStores(c, p)
    <3> DEFINE req == call[c].reqs[p]
    <3>1. /\ p \in DOMAIN call[c].reqs /\ req \in AppendRequests /\ req.PrevLogIndex >= -1
          /\ call[c].kind = "append"
      BY <2>2 DEF AppendEntryStores, Handling, TypeOK, IsCall
    <3>2. ASSUME "members" \notin upsets' PROVE logs' \in [Server -> Seq(Plain)]
      <4>1. logs \in [Server -> Seq(Plain)] /\ req.Entry \in Seq(Plain)
        BY <1>0, <3>1, <3>2 DEF PlainLogs
      <4>2. Matches(logs[p], req) => Appended(logs[p], req) \in Seq(Plain)
        BY <3>1, <4>1, AppendedTypes DEF AppendRequests
      <4> QED
        BY <2>2, <4>1, <4>2 DEF AppendEntryStores
    <3> QED
      BY <1>0, <2>1, <3>2 DEF PlainLogs, Fewer
  <2>3. CASE ~AppendEntryStores(c, p)
    <3>1. UNCHANGED logs
      BY <1>5, <2>3
      DEF Handle, HandleAppendEntry, HandleRequestVote, AppendEntryTo, AppendEntryCompares,
          AppendEntryAdopts, RequestVoteFrom, RequestVoteCompares, RequestVoteRaises,
          RequestVoteDecides, Vote, RequestLost, persistent
    <3> QED
      BY <1>0, <2>1, <3>1, PlainFrame
  <2> QED
    BY <2>2, <2>3
<1> QED
  BY <1>1, <1>2, <1>3, <1>4, <1>5 DEF Next

\* Nobody wins but in ElectionWon.
LEMMA WinnersAdded ==
  ASSUME [Next]_vars, NEW w \in won' \ won
  PROVE  \E c \in Callers : ElectionWon(c) /\ w = [term |-> call[c].term, leader |-> c[1]]
<1>1. ASSUME NEW n \in Server, Loop(n) \/ Client(n) PROVE won' = won
  BY <1>1 DEF Loop, Client, TakeInbound, FollowerTimeout, LeaderTimeout, CandidateTimeout,
              ClientOther, ClientRequest, ClientAppends, history
<1>2. ASSUME NEW c \in Callers, NEW p \in Server, Handle(c, p) \/ RequestLost(c, p)
      PROVE  won' = won
  BY <1>2 DEF Handle, HandleAppendEntry, HandleRequestVote, AppendEntryTo, AppendEntryCompares,
              AppendEntryAdopts, AppendEntryStores, RequestVoteFrom, RequestVoteCompares,
              RequestVoteRaises, RequestVoteDecides, Vote, RequestLost, history
<1>3. ASSUME NEW c \in Callers, Ends(c), ~ElectionWon(c) PROVE won' = won
  BY <1>3 DEF Ends, ElectionLost, BroadcastStale, BroadcastDone, BroadcastPanics
<1>4. UNCHANGED vars => won' = won
  BY DEF vars, history
<1>5. PICK c \in Callers : ElectionWon(c)
  BY <1>1, <1>2, <1>3, <1>4 DEF Next
<1> QED
  BY <1>5 DEF ElectionWon

LEMMA WonSteps ==
  ASSUME WinInv, [Next]_vars, VotesStay, Cardinality(Server) % 2 = 1
  PROVE  WonByVotes'
<1> USE DEF WinInv
<1> SUFFICES ASSUME "members" \notin upsets', NEW w \in won'
             PROVE  /\ w.term \in 1..MaxTerm /\ w.leader \in Server
                    /\ \E Q : IsQuorum(Q) /\ \A q \in Q : votedFor'[q][w.term] = w.leader
  BY DEF WonByVotes
<1>1. "members" \notin upsets
  BY UpsetsStay
<1>2. ASSUME NEW Q, IsQuorum(Q), \A q \in Q : votedFor[q][w.term] = w.leader,
             w.term \in 1..MaxTerm, w.leader \in Server
      PROVE  \A q \in Q : votedFor'[q][w.term] = w.leader
  <2>1. w.term \in Terms /\ w.leader # None
    BY <1>2, ConstantsAssumption DEF Terms
  <2> QED
    BY <1>2, <2>1 DEF VotesStay, IsQuorum
<1>3. CASE w \in won
  BY <1>1, <1>2, <1>3 DEF WonByVotes
<1>4. CASE w \notin won
  <2>1. PICK c \in Callers : ElectionWon(c) /\ w = [term |-> call[c].term, leader |-> c[1]]
    BY <1>4, WinnersAdded
  <2> DEFINE Q == Successes(c) \cup {c[1]}
  <2>2. call[c].kind = "vote" /\ Elected(c)
    BY <2>1 DEF ElectionWon, Complete
  <2>3. IsQuorum(Q)
    BY <1>1, <2>2, ElectedQuorum
  <2>4. w.term \in 1..MaxTerm /\ w.leader \in Server
    BY <2>1, <2>2, ElectionTerm, CallerTypes
  <2>5. \A q \in Q : votedFor[q][w.term] = w.leader
    BY <1>1, <2>1, <2>2, CountedVote
  <2> QED
    BY <1>2, <2>3, <2>4, <2>5
<1> QED
  BY <1>3, <1>4

LEMMA WinStep ==
  ASSUME Variant # "elastic", Cardinality(Server) % 2 = 1, WinInv, [Next]_vars,
         "clash" \notin upsets'
  PROVE  WinInv'
<1>1. VoteInv' /\ VotesStay
  BY VoteInvariant DEF WinInv
<1>2. PlainLogs'
  BY PlainSteps DEF WinInv, VoteInv
<1> QED
  BY <1>1, <1>2, WonSteps DEF WinInv

\* While no goroutines clash.
CalmWinInv == "clash" \notin upsets => WinInv

LEMMA WinInvariant ==
  ASSUME Variant # "elastic", Cardinality(Server) % 2 = 1
  PROVE  Spec => []CalmWinInv
<1>1. Init => CalmWinInv
  <2>1. Init => PlainLogs
    BY EmptySeq DEF Init, PlainLogs, NoCall
  <2>2. Init => WonByVotes
    BY DEF Init, WonByVotes
  <2> QED
    BY <2>1, <2>2, VoteInit DEF WinInv, CalmWinInv
<1>2. CalmWinInv /\ [Next]_vars => CalmWinInv'
  BY WinStep, UpsetsStay DEF CalmWinInv
<1> QED
  BY <1>1, <1>2, PTL DEF Spec

LEMMA WinnersMeet == ASSUME CalmWinInv PROVE OneWinner
<1> SUFFICES ASSUME upsets \cap {"clash", "members"} = {}, NEW w \in won, NEW v \in won,
                    w.term = v.term
             PROVE  w.leader = v.leader
  BY DEF OneWinner
<1>1. PICK Q : IsQuorum(Q) /\ \A q \in Q : votedFor[q][w.term] = w.leader
  BY DEF CalmWinInv, WinInv, WonByVotes
<1>2. PICK R : IsQuorum(R) /\ \A q \in R : votedFor[q][w.term] = v.leader
  BY DEF CalmWinInv, WinInv, WonByVotes
<1> QED
  BY <1>1, <1>2, QuorumsMeet

\* In a cluster of an odd size that nobody changes no two nodes win the same term,
\* whatever is lost or late and however the handlers of different nodes are
\* interleaved, unless two goroutines of one node have clashed.
THEOREM RaftWinner == Spec => []OneWinner
<1>1. CASE Variant # "elastic" /\ Cardinality(Server) % 2 = 1
  BY <1>1, WinInvariant, WinnersMeet, PTL
<1>2. CASE ~(Variant # "elastic" /\ Cardinality(Server) % 2 = 1)
  <2>1. OneWinner
    BY <1>2 DEF OneWinner
  <2> QED
    BY <2>1, PTL
<1> QED
  BY <1>1, <1>2

\* What Orderly says of the cluster.
Cluster == Variant # "elastic" /\ Cardinality(Server) % 2 = 1 /\ Cardinality(Forced) <= 1

(***************************************************************************)
(* Leaders.                                                                *)
(***************************************************************************)

\* Node n leads term t: it has been started so, or has won.
LeaderOf(n, t) == (t = 0 /\ n \in Forced) \/ [term |-> t, leader |-> n] \in won

\* A node that leads does so in its own term, and has no election going on.
NodesLead ==
    /\ \A n \in Server : role[n] = "LEADER" => LeaderOf(n, currentTerm[n])
    /\ \A c \in Callers : call[c].kind = "vote" => role[c[1]] # "LEADER" /\ c[2] = "run"

\* Broadcast c comes from a leader, and goes to the others.
FromLeader(c) ==
    /\ LeaderOf(c[1], call[c].term)
    /\ call[c].term <= currentTerm[c[1]]
    /\ call[c].term = currentTerm[c[1]] => role[c[1]] = "LEADER"
    /\ c[1] \notin DOMAIN call[c].reqs \cup DOMAIN call[c].answers
    /\ \A p \in DOMAIN call[c].reqs : call[c].reqs[p].Term = call[c].term

CallsLead ==
    /\ \A c \in Callers : call[c].kind = "append" => FromLeader(c)
    /\ \A c, d \in Callers :
           call[c].kind = "append" /\ call[d].kind = "append" /\ c[1] = d[1] => c = d

Leaders == upsets = {} => NodesLead /\ CallsLead

LEMMA OneForced ==
  ASSUME Cluster, NEW m \in Forced, NEW n \in Forced
  PROVE  m = n
<1> SUFFICES ASSUME m # n PROVE FALSE
  OBVIOUS
<1>1. IsFiniteSet(Forced) /\ {m, n} \subseteq Forced
  BY ConstantsAssumption, FS_Subset
<1> DEFINE M == {m}
<1>2. Cardinality(M) = 1 /\ IsFiniteSet(M) /\ n \notin M /\ M \cup {n} = {m, n}
  BY FS_Singleton
<1> HIDE DEF M
<1>3. Cardinality(M \cup {n}) = 1 + 1
  BY <1>2, FS_AddElement
<1>4. Cardinality({m, n}) = 2
  BY <1>2, <1>3
<1>5. Cardinality({m, n}) <= Cardinality(Forced) /\ Cardinality(Forced) \in Nat
  BY <1>1, FS_Subset, FS_CardinalityType
<1> QED
  BY <1>4, <1>5 DEF Cluster

LEMMA OneLeader ==
  ASSUME Cluster, WinInv, upsets = {}, NEW t, NEW m, NEW n, LeaderOf(m, t), LeaderOf(n, t)
  PROVE  m = n
<1>1. \A w \in won : w.term # 0
  BY ConstantsAssumption DEF WinInv, WonByVotes
<1>2. \A w, v \in won : w.term = v.term => w.leader = v.leader
  BY WinnersMeet DEF OneWinner, Cluster, CalmWinInv
<1> QED
  BY <1>1, <1>2, OneForced DEF LeaderOf

\* Calls whose requests and answers come from those there were.
Older ==
    \A c \in Callers : call'[c].kind # "none" =>
        /\ call'[c].kind = call[c].kind /\ call'[c].term = call[c].term
        /\ DOMAIN call'[c].reqs \subseteq DOMAIN call[c].reqs
        /\ DOMAIN call'[c].answers \subseteq DOMAIN call[c].reqs \cup DOMAIN call[c].answers
        /\ \A p \in DOMAIN call'[c].reqs : call'[c].reqs[p] = call[c].reqs[p]

LEMMA OlderCalls ==
  ASSUME CallsOK, NEW c \in Callers, NEW p \in DOMAIN call[c].reqs, NEW a,
         NEW step, GoesOn(c, p, step) \/ Answered(c, p, a)
  PROVE  Older
  BY DEF CallsOK, GoesOn, Answered, Older

LEMMA OlderEnds == ASSUME CallsOK, NEW c \in Callers, CallEnds(c) PROVE Older
  BY DEF CallsOK, CallEnds, NoCall, Older

LEMMA OlderStays == ASSUME UNCHANGED call PROVE Older
  BY DEF Older

\* Nobody becomes a leader, and who ceases to lead goes to a later term.
NoNewLeader ==
    \A n \in Server :
        /\ role'[n] = "LEADER" => role[n] = "LEADER" /\ currentTerm'[n] = currentTerm[n]
        /\ role[n] = "LEADER" /\ role'[n] # "LEADER" => currentTerm'[n] > currentTerm[n]

LEMMA LeadFrame ==
  ASSUME TypeOK, TypeOK', NodesLead, CallsLead, Older, TermsRise, NoNewLeader, won \subseteq won'
  PROVE  NodesLead' /\ CallsLead'
<1>1. /\ \A n \in Server : currentTerm[n] \in Int /\ currentTerm'[n] \in Int
      /\ \A c \in Callers : c[1] \in Server /\ call[c].term \in Int
  BY CallerTypes, ConstantsAssumption DEF TypeOK, IsCall, Terms
<1>2. \A n, t : LeaderOf(n, t) => LeaderOf(n, t)'
  BY DEF LeaderOf
<1>3. NodesLead'
  BY <1>1, <1>2 DEF NodesLead, Older, NoNewLeader
<1>4. ASSUME NEW c \in Callers, call'[c].kind = "append" PROVE FromLeader(c)'
  <2>1. /\ FromLeader(c) /\ call'[c].term = call[c].term
        /\ DOMAIN call'[c].reqs \subseteq DOMAIN call[c].reqs
        /\ DOMAIN call'[c].answers \subseteq DOMAIN call[c].reqs \cup DOMAIN call[c].answers
        /\ \A p \in DOMAIN call'[c].reqs : call'[c].reqs[p] = call[c].reqs[p]
    BY <1>4 DEF Older, CallsLead
  <2>2. currentTerm[c[1]] <= currentTerm'[c[1]]
    BY <1>1 DEF TermsRise
  <2>3. call[c].term = currentTerm'[c[1]] => role'[c[1]] = "LEADER"
    BY <1>1, <2>1, <2>2 DEF NoNewLeader, FromLeader
  <2> QED
    BY <1>1, <1>2, <2>1, <2>2, <2>3 DEF FromLeader
<1>5. \A c, d \in Callers :
          call'[c].kind = "append" /\ call'[d].kind = "append" /\ c[1] = d[1] => c = d
  BY DEF CallsLead, Older
<1> QED
  BY <1>3, <1>4, <1>5 DEF CallsLead

\* A leader that broadcasts has no other broadcast going on.
LEMMA BroadcastLeads ==
  ASSUME TypeOK, NodesLead, CallsLead, NEW c \in Callers, NEW log,
         role[c[1]] = "LEADER", UNCHANGED <<currentTerm, role, won>>, Broadcasts(c[1]) = {},
         BroadcastEntry(c, log)
  PROVE  NodesLead' /\ CallsLead'
<1> DEFINE n == c[1]
           reqs == [p \in CurrentPeers(n, log) |-> AppendEntryRequest(n, p, log)]
<1>0. n \in Server /\ CallsOK /\ currentTerm[n] \in Int
  BY CallerTypes, ConstantsAssumption DEF TypeOK, CallsOK, Terms
<1>1. /\ call'[c] = [kind |-> "append", term |-> currentTerm[n], reqs |-> reqs,
                     at |-> Nothing, answers |-> Nothing]
      /\ \A d \in Callers : d # c => call'[d] = call[d]
  BY <1>0 DEF BroadcastEntry, Send, CallsOK
<1>2. \A m, t : LeaderOf(m, t)' <=> LeaderOf(m, t)
  BY DEF LeaderOf
<1>3. NodesLead'
  BY <1>1, <1>2 DEF NodesLead
<1>4. FromLeader(c)'
  <2>1. n \notin CurrentPeers(n, log)
    BY DEF CurrentPeers
  <2>2. \A p \in DOMAIN reqs : reqs[p].Term = currentTerm[n]
    BY DEF AppendEntryRequest
  <2>3. LeaderOf(n, currentTerm[n])
    BY <1>0 DEF NodesLead
  <2> HIDE DEF reqs
  <2>4. DOMAIN reqs = CurrentPeers(n, log)
    BY DEF reqs
  <2> QED
    BY <1>0, <1>1, <1>2, <2>1, <2>2, <2>3, <2>4 DEF FromLeader, Nothing
<1>5. \A d \in Callers : d # c /\ call'[d].kind = "append" => FromLeader(d)' /\ d[1] # n
  BY <1>1, <1>2 DEF CallsLead, FromLeader, Broadcasts
<1> QED
  BY <1>1, <1>3, <1>4, <1>5 DEF CallsLead

LEMMA LoopLeads ==
  ASSUME WinInv, TypeOK', TermsRise, NodesLead, CallsLead, upsets' = {}, NEW n \in Server, Loop(n)
  PROVE  NodesLead' /\ CallsLead'
<1>0. TypeOK /\ CallsOK /\ Caller(n, "run") \in Callers /\ Caller(n, "run")[1] = n
  BY CallerTypes DEF WinInv, VoteInv, TypeOK, CallsOK
<1>1. CASE TakeInbound(n) \/ FollowerTimeout(n)
  <2>1. /\ UNCHANGED <<call, won, currentTerm>>
        /\ \A m \in Server : role'[m] = role[m] \/ (role[m] = "FOLLOWER" /\ role'[m] = "CANDIDATE")
    BY <1>0, <1>1 DEF TakeInbound, FollowerTimeout, persistent, volatile, history, TypeOK
  <2>2. NoNewLeader
    BY <2>1 DEF NoNewLeader
  <2> QED
    BY <1>0, <2>1, <2>2, OlderStays, LeadFrame
<1>2. CASE LeaderTimeout(n)
  <2>1. /\ role[n] = "LEADER" /\ UNCHANGED <<currentTerm, role, won>>
        /\ BroadcastEntry(Caller(n, "run"), logs[n]) /\ Overlap(n) = {}
    BY <1>2 DEF LeaderTimeout, persistent, volatile
  <2>2. logs[n] \in Seq(Commanded) /\ Broadcasts(n) = {}
    BY <1>0, <2>1 DEF TypeOK, Overlap
  <2> QED
    BY <1>0, <2>1, <2>2, BroadcastLeads
<1>3. CASE CandidateTimeout(n)
  <2> DEFINE term == currentTerm[n] + 1
             reqs == [p \in CurrentPeers(n, logs[n]) |-> RequestVoteRequest(n, term)]
  <2>1. /\ role[n] = "CANDIDATE" /\ UNCHANGED <<role, won>> /\ LoopFree(n)
        /\ currentTerm' = [currentTerm EXCEPT ![n] = term]
        /\ Send(Caller(n, "run"), "vote", reqs)
    BY <1>3 DEF CandidateTimeout, volatile, history
  <2>2. /\ call'[Caller(n, "run")].kind = "vote"
        /\ \A c \in Callers : c # Caller(n, "run") => call'[c] = call[c]
    BY <1>0, <2>1 DEF Send, CallsOK
  <2>3. \A m \in Server : currentTerm[m] \in Int
    BY <1>0, ConstantsAssumption DEF TypeOK, Terms
  <2>4. /\ \A m, t : LeaderOf(m, t)' <=> LeaderOf(m, t)
        /\ \A m \in Server : m # n => currentTerm'[m] = currentTerm[m]
        /\ currentTerm'[n] = currentTerm[n] + 1
    BY <1>0, <2>1 DEF LeaderOf, TypeOK
  <2>5. Caller(n, "run")[2] = "run"
    BY DEF Caller
  <2>6. NodesLead'
    BY <1>0, <2>1, <2>2, <2>3, <2>4, <2>5 DEF NodesLead
  <2>7. ASSUME NEW c \in Callers, call'[c].kind = "append" PROVE FromLeader(c)'
    <3>1. call'[c] = call[c] /\ FromLeader(c)
      BY <2>2, <2>7 DEF CallsLead
    <3>2. call[c].term \in Int
      BY <1>0, ConstantsAssumption DEF TypeOK, IsCall, Terms
    <3>3. c[1] \in Server
      BY CallerTypes
    <3> QED
      BY <2>1, <2>3, <2>4, <3>1, <3>2, <3>3 DEF FromLeader
  <2>8. \A c, d \in Callers :
            call'[c].kind = "append" /\ call'[d].kind = "append" /\ c[1] = d[1] => c = d
    BY <2>2 DEF CallsLead
  <2> QED
    BY <2>6, <2>7, <2>8 DEF CallsLead
<1> QED
  BY <1>1, <1>2, <1>3 DEF Loop

LEMMA ClientLeads ==
  ASSUME WinInv, TypeOK', TermsRise, NodesLead, CallsLead, upsets' = {}, NEW n \in Server, Client(n)
  PROVE  NodesLead' /\ CallsLead'
<1>0. TypeOK /\ CallsOK /\ Caller(n, "client") \in Callers /\ Caller(n, "client")[1] = n
  BY CallerTypes DEF WinInv, VoteInv, TypeOK, CallsOK
<1>1. CASE ClientOther(n)
  <2>1. UNCHANGED <<call, won, currentTerm, role>>
    BY <1>1 DEF ClientOther, persistent, volatile, history
  <2>2. NoNewLeader
    BY <2>1 DEF NoNewLeader
  <2> QED
    BY <1>0, <2>1, <2>2, OlderStays, LeadFrame
<1>2. ASSUME NEW cmd \in Commands, ClientRequest(n, cmd)
      PROVE  NodesLead' /\ CallsLead'
  <2>1. UNCHANGED <<call, won, currentTerm, role>>
    BY <1>2 DEF ClientRequest, persistent, volatile
  <2>2. NoNewLeader
    BY <2>1 DEF NoNewLeader
  <2> QED
    BY <1>0, <2>1, <2>2, OlderStays, LeadFrame
<1>3. CASE ClientAppends(n)
  <2>1. /\ UNCHANGED <<currentTerm, role, won>> /\ Overlap(n) = {} /\ taken[n] # <<>>
        /\ BroadcastEntry(Caller(n, "client"), logs[n] \o taken[n])
    BY <1>3 DEF ClientAppends, volatile
  <2>2. role[n] = "LEADER"
    BY <2>1 DEF WinInv, VoteInv, Knows, TestedByClient
  <2>3. Broadcasts(n) = {}
    BY <2>1 DEF Overlap
  <2> QED
    BY <1>0, <2>1, <2>2, <2>3, BroadcastLeads
<1> QED
  BY <1>1, <1>2, <1>3 DEF Client

\* A leader takes no entry from another: there is none in its term, and what an
\* older one sends it refuses.
LEMMA LeaderRefuses ==
  ASSUME Cluster, WinInv, NodesLead, CallsLead, upsets = {}, NEW c \in Callers, NEW p \in Server,
         AppendEntryAdopts(c, p)
  PROVE  /\ currentTerm' = [currentTerm EXCEPT ![p] = call[c].reqs[p].Term]
         /\ role' = [role EXCEPT ![p] = "FOLLOWER"]
         /\ currentTerm[p] <= call[c].reqs[p].Term /\ call[c].reqs[p].Term \in Terms
         /\ role[p] = "LEADER" => currentTerm[p] < call[c].reqs[p].Term
<1> DEFINE req == call[c].reqs[p]
<1>1. /\ TypeOK /\ p \in DOMAIN call[c].at /\ call[c].kind = "append"
      /\ p \in DOMAIN call[c].reqs
  BY DEF AppendEntryAdopts, Handling, WinInv, VoteInv, TypeOK, IsCall
<1>2. LeaderOf(c[1], req.Term) /\ c[1] # p
  BY <1>1 DEF CallsLead, FromLeader
<1>3. req.Term \in Terms /\ req.Term \in Int /\ currentTerm[p] \in Int
  BY <1>1, ConstantsAssumption DEF TypeOK, IsCall, AppendRequests, Terms
<1>4. TestedAppend(c, p)
  BY <1>1 DEF WinInv, VoteInv, Knows, Tested
<1>5. At(c, p, "adopt") /\ currentTerm[p] <= req.Term
  BY <1>1, <1>4 DEF TestedAppend, AppendEntryAdopts, At
<1>6. role[p] = "LEADER" => currentTerm[p] # req.Term
  BY <1>2, OneLeader DEF NodesLead
<1> QED
  BY <1>3, <1>5, <1>6 DEF AppendEntryAdopts

\* The handler that stores an entry has made its node a follower.
LEMMA FollowerStores ==
  ASSUME WinInv, NEW c \in Callers, NEW p \in Server, AppendEntryStores(c, p)
  PROVE  role[p] = "FOLLOWER" /\ currentTerm[p] = call[c].reqs[p].Term
  BY DEF AppendEntryStores, At, Handling, WinInv, VoteInv, Knows, Tested, TestedAppend

LEMMA RaisesTerm ==
  ASSUME WinInv, NEW c \in Callers, NEW p \in Server, RequestVoteRaises(c, p)
  PROVE  currentTerm[p] < call[c].reqs[p].Term /\ call[c].reqs[p].Term \in Terms
<1>1. IsCall(call[c]) /\ p \in DOMAIN call[c].reqs /\ call[c].kind = "vote"
  BY DEF RequestVoteRaises, Handling, WinInv, VoteInv, TypeOK, IsCall
<1> QED
  BY <1>1
  DEF RequestVoteRaises, At, Handling, WinInv, VoteInv, Knows, Tested, TestedVote, IsCall,
      VoteRequests

\* What of the handlers changes no term and no role.
LEMMA SameTerms ==
  ASSUME NEW c \in Callers, NEW p \in Server, Handle(c, p) \/ RequestLost(c, p),
         ~AppendEntryAdopts(c, p), ~RequestVoteRaises(c, p)
  PROVE  UNCHANGED <<currentTerm, role, nextIndex, committedIndex>>
  BY DEF Handle, HandleAppendEntry, HandleRequestVote, AppendEntryTo, AppendEntryCompares,
         AppendEntryStores, RequestVoteFrom, RequestVoteCompares, RequestVoteDecides, Vote,
         RequestLost, persistent, volatile

LEMMA HandlesRequest ==
  ASSUME TypeOK, NEW c \in Callers, NEW p \in Server, Handle(c, p) \/ RequestLost(c, p)
  PROVE  /\ p \in DOMAIN call[c].reqs /\ UNCHANGED <<won, committed, taken>>
         /\ (\E a \in Answers : Answered(c, p, a)) \/ (\E step : GoesOn(c, p, step))
<1>1. p \in DOMAIN call[c].reqs /\ UNCHANGED <<won, committed, taken>>
  BY DEF TypeOK, IsCall, Handle, HandleAppendEntry, HandleRequestVote, AppendEntryTo,
         AppendEntryCompares, AppendEntryAdopts, AppendEntryStores, RequestVoteFrom,
         RequestVoteCompares, RequestVoteRaises, RequestVoteDecides, Vote, RequestLost,
         Handling, Pending, history
<1>2. currentTerm[p] \in Terms /\ Matches(logs[p], call[c].reqs[p]) \in BOOLEAN
  BY DEF TypeOK, Matches
<1> QED
  BY <1>1, <1>2, AnswerTypes
  DEF Handle, HandleAppendEntry, HandleRequestVote, AppendEntryTo, AppendEntryCompares,
      AppendEntryAdopts, AppendEntryStores, RequestVoteFrom, RequestVoteCompares,
      RequestVoteRaises, RequestVoteDecides, Vote, RequestLost

LEMMA HandleLeads ==
  ASSUME Cluster, WinInv, TypeOK', TermsRise, NodesLead, CallsLead, upsets = {},
         NEW c \in Callers, NEW p \in Server, Handle(c, p) \/ RequestLost(c, p)
  PROVE  NodesLead' /\ CallsLead'
<1> DEFINE req == call[c].reqs[p]
<1>0. TypeOK /\ CallsOK /\ \A n \in Server : currentTerm[n] \in Int
  BY ConstantsAssumption DEF WinInv, VoteInv, TypeOK, CallsOK, Terms
<1>1. Older /\ UNCHANGED won
  BY <1>0, HandlesRequest, OlderCalls
<1>2. NoNewLeader
  <2>1. CASE AppendEntryAdopts(c, p)
    <3>1. /\ currentTerm' = [currentTerm EXCEPT ![p] = req.Term]
          /\ role' = [role EXCEPT ![p] = "FOLLOWER"]
          /\ role[p] = "LEADER" => currentTerm[p] < req.Term
      BY <2>1, LeaderRefuses
    <3> QED
      BY <1>0, <3>1 DEF NoNewLeader, TypeOK
  <2>2. CASE RequestVoteRaises(c, p)
    <3>1. /\ currentTerm' = [currentTerm EXCEPT ![p] = req.Term]
          /\ role' = [role EXCEPT ![p] = "FOLLOWER"] /\ currentTerm[p] < req.Term
      BY <2>2, RaisesTerm DEF RequestVoteRaises
    <3> QED
      BY <1>0, <3>1 DEF NoNewLeader, TypeOK
  <2>3. CASE ~AppendEntryAdopts(c, p) /\ ~RequestVoteRaises(c, p)
    BY <2>3, SameTerms DEF NoNewLeader
  <2> QED
    BY <2>1, <2>2, <2>3
<1> QED
  BY <1>0, <1>1, <1>2, LeadFrame

LEMMA EndsLeads ==
  ASSUME WinInv, TypeOK', TermsRise, NodesLead, CallsLead, upsets' = {}, NEW c \in Callers, Ends(c)
  PROVE  NodesLead' /\ CallsLead'
<1> DEFINE n == c[1]
<1>0. /\ TypeOK /\ CallsOK /\ n \in Server
      /\ \A m \in Server : currentTerm[m] \in Int /\ currentTerm'[m] \in Int
  <2>1. TypeOK /\ n \in Server
    BY CallerTypes DEF WinInv, VoteInv
  <2>2. \A m \in Server : currentTerm[m] \in Int /\ currentTerm'[m] \in Int
    BY <2>1, ConstantsAssumption DEF TypeOK, Terms
  <2> QED
    BY <2>1, <2>2 DEF TypeOK, CallsOK
<1>1. CallEnds(c) /\ Older
  BY <1>0, OlderEnds
  DEF Ends, ElectionLost, ElectionWon, BroadcastStale, BroadcastDone, BroadcastPanics
<1>2. CASE ElectionLost(c) \/ BroadcastStale(c)
  <2>1. StepsDown(c) /\ UNCHANGED won
    BY <1>2 DEF ElectionLost, BroadcastStale, history
  <2>2. PICK term \in TermsSeen(c) : currentTerm' = [currentTerm EXCEPT ![n] = term]
    BY <2>1 DEF StepsDown
  <2>3. CASE Higher(c) = {}
    <3>1. UNCHANGED <<role, currentTerm>>
      BY <1>0, <2>1, <2>2, <2>3 DEF StepsDown, TermsSeen, TypeOK
    <3> QED
      BY <1>0, <1>1, <2>1, <3>1, LeadFrame DEF NoNewLeader
  <2>4. CASE Higher(c) # {}
    <3>1. role' = [role EXCEPT ![n] = "FOLLOWER"] /\ term > currentTerm[n]
      BY <2>1, <2>2, <2>4 DEF StepsDown, TermsSeen, Higher
    <3>2. NoNewLeader
      BY <1>0, <2>2, <3>1 DEF NoNewLeader, TypeOK
    <3> QED
      BY <1>0, <1>1, <2>1, <3>2, LeadFrame
  <2> QED
    BY <2>3, <2>4
<1>3. CASE BroadcastDone(c) \/ BroadcastPanics(c)
  <2>1. UNCHANGED <<role, currentTerm, won>>
    BY <1>3 DEF BroadcastDone, BroadcastPanics, persistent, history
  <2> QED
    BY <1>0, <1>1, <2>1, LeadFrame DEF NoNewLeader
<1>4. CASE ElectionWon(c)
  <2>1. /\ call[c].kind = "vote" /\ UNCHANGED currentTerm
        /\ role' = [role EXCEPT ![n] = "LEADER"]
        /\ won' = won \cup {[term |-> call[c].term, leader |-> n]}
        /\ Late(c) = {}
    BY <1>4 DEF ElectionWon, Complete, persistent
  <2>2. call[c].term = currentTerm[n] /\ c[2] = "run"
    BY <2>1 DEF Late, NodesLead
  <2>3. LeaderOf(n, currentTerm[n])' /\ \A m, t : LeaderOf(m, t) => LeaderOf(m, t)'
    BY <2>1, <2>2 DEF LeaderOf
  <2>4. call'[c].kind = "none" /\ \A d \in Callers : d # c => call'[d] = call[d]
    BY <1>0, <1>1 DEF CallEnds, NoCall, CallsOK
  <2>5. \A d \in Callers : call'[d].kind = "vote" => d[1] # n
    <3>1. \A d \in Callers : call[d].kind = "vote" => d[2] = "run"
      BY DEF NodesLead
    <3>2. \A d \in Callers : d[1] = n /\ d[2] = "run" => d = c
      BY <2>2 DEF Callers
    <3> QED
      BY <2>4, <3>1, <3>2
  <2>6. NodesLead'
    <3>1. \A m \in Server : role'[m] = IF m = n THEN "LEADER" ELSE role[m]
      BY <1>0, <2>1 DEF TypeOK
    <3>2. \A m \in Server : role'[m] = "LEADER" => LeaderOf(m, currentTerm[m])'
      BY <2>1, <2>3, <3>1 DEF NodesLead
    <3>3. \A d \in Callers : call'[d].kind = "vote" => role'[d[1]] # "LEADER" /\ d[2] = "run"
      <4>1. \A d \in Callers : call'[d].kind = "vote" => call[d].kind = "vote" /\ d[1] # n
        BY <2>4, <2>5
      <4> QED
        BY <3>1, <4>1, CallerTypes DEF NodesLead
    <3> QED
      BY <3>2, <3>3 DEF NodesLead
  <2>7. ASSUME NEW d \in Callers, call'[d].kind = "append" PROVE FromLeader(d)'
    <3>1. FromLeader(d) /\ call'[d] = call[d]
      BY <2>4, <2>7 DEF CallsLead
    <3>2. role'[d[1]] = role[d[1]] \/ role'[d[1]] = "LEADER"
      BY <1>0, <2>1, CallerTypes DEF TypeOK
    <3> QED
      BY <2>1, <2>3, <3>1, <3>2 DEF FromLeader
  <2>8. \A d, e \in Callers :
            call'[d].kind = "append" /\ call'[e].kind = "append" /\ d[1] = e[1] => d = e
    BY <2>4 DEF CallsLead
  <2> QED
    BY <2>6, <2>7, <2>8 DEF CallsLead
<1> QED
  BY <1>2, <1>3, <1>4 DEF Ends

LEMMA LeadersStep ==
  ASSUME Cluster, WinInv, Leaders, [Next]_vars
  PROVE  Leaders'
<1> SUFFICES ASSUME upsets' = {} PROVE NodesLead' /\ CallsLead'
  BY DEF Leaders
<1>1. TypeOK' /\ TermsRise /\ upsets = {}
  BY TypesStep, VoteInvariant, UpsetsStay DEF WinInv, VoteInv, Cluster
<1>2. NodesLead /\ CallsLead
  BY <1>1 DEF Leaders
<1>3. CASE UNCHANGED vars
  BY <1>2, <1>3 DEF vars, persistent, volatile, history, NodesLead, CallsLead, FromLeader, LeaderOf
<1> QED
  BY <1>1, <1>2, <1>3, LoopLeads, ClientLeads, HandleLeads, EndsLeads DEF Next

(***************************************************************************)
(* What a leader has counted up to is in its log.                          *)
(***************************************************************************)
NextInLog ==
    upsets = {} =>
        \A n \in Server : role[n] = "LEADER" =>
            \A p \in Server \ {n} : nextIndex[n][p] <= Len(logs[n])

LEMMA MovedInLog ==
  ASSUME TypeOK, NEW c \in Callers, NEW done, NEW p \in Server,
         nextIndex[c[1]][p] <= Len(logs[c[1]])
  PROVE  Moved(c, done)[p] <= Len(logs[c[1]])
<1>1. nextIndex[c[1]][p] \in Int /\ Len(logs[c[1]]) \in Int
  BY CallerTypes, LenProperties DEF TypeOK
<1> QED
  BY <1>1 DEF Moved

\* Whoever leads after a step has led before, with the same index and all that
\* was in the log, unless it has counted answers or votes.
LEMMA OthersInLog ==
  ASSUME Cluster, WinInv, NodesLead, CallsLead, upsets = {}, [Next]_vars,
         \A c \in Callers : ~ElectionWon(c) /\ ~BroadcastDone(c) /\ ~BroadcastPanics(c),
         NEW n \in Server, role'[n] = "LEADER"
  PROVE  /\ role[n] = "LEADER" /\ nextIndex'[n] = nextIndex[n]
         /\ Len(logs[n]) <= Len(logs'[n])
<1>0. TypeOK /\ logs[n] \in Seq(Commanded) /\ Len(logs[n]) \in Nat
  BY LenProperties DEF WinInv, VoteInv, TypeOK
<1>1. CASE UNCHANGED vars
  BY <1>0, <1>1 DEF vars, persistent, volatile
<1>2. ASSUME NEW m \in Server, Loop(m)
      PROVE  role[n] = "LEADER" /\ nextIndex'[n] = nextIndex[n] /\ Len(logs[n]) <= Len(logs'[n])
  <2>1. UNCHANGED <<logs, nextIndex>> /\ (UNCHANGED role \/ role' = [role EXCEPT ![m] = "CANDIDATE"])
    BY <1>2 DEF Loop, TakeInbound, FollowerTimeout, LeaderTimeout, CandidateTimeout, persistent,
         volatile
  <2> QED
    BY <1>0, <2>1 DEF TypeOK
<1>3. ASSUME NEW m \in Server, Client(m)
      PROVE  role[n] = "LEADER" /\ nextIndex'[n] = nextIndex[n] /\ Len(logs[n]) <= Len(logs'[n])
  <2>1. CASE ClientOther(m)
    BY <1>0, <2>1 DEF ClientOther, persistent, volatile
  <2>2. ASSUME NEW cmd \in Commands, ClientRequest(m, cmd)
        PROVE  role[n] = "LEADER" /\ nextIndex'[n] = nextIndex[n] /\ Len(logs[n]) <= Len(logs'[n])
    BY <1>0, <2>2 DEF ClientRequest, persistent, volatile
  <2>3. CASE ClientAppends(m)
    <3>1. /\ UNCHANGED <<nextIndex, role>>
          /\ logs' = [logs EXCEPT ![m] = logs[m] \o taken[m]]
      BY <2>3 DEF ClientAppends, volatile
    <3>2. taken[n] \in Seq(Commanded) /\ Len(taken[n]) \in Nat
      BY <1>0, LenProperties DEF TypeOK
    <3>3. Len(logs[n] \o taken[n]) = Len(logs[n]) + Len(taken[n])
      BY <1>0, <3>2, ConcatProperties
    <3> QED
      BY <1>0, <3>1, <3>2, <3>3 DEF TypeOK
  <2> QED
    BY <1>3, <2>1, <2>2, <2>3 DEF Client
<1>4. ASSUME NEW c \in Callers, NEW p \in Server, Handle(c, p) \/ RequestLost(c, p)
      PROVE  role[n] = "LEADER" /\ nextIndex'[n] = nextIndex[n] /\ Len(logs[n]) <= Len(logs'[n])
  <2>1. CASE AppendEntryAdopts(c, p) \/ RequestVoteRaises(c, p)
    <3>1. UNCHANGED <<nextIndex, logs>> /\ role' = [role EXCEPT ![p] = "FOLLOWER"]
      BY <2>1, LeaderRefuses DEF AppendEntryAdopts, RequestVoteRaises
    <3> QED
      BY <1>0, <3>1 DEF TypeOK
  <2>2. CASE AppendEntryStores(c, p)
    <3>1. /\ UNCHANGED <<nextIndex, role>> /\ role[p] = "FOLLOWER"
          /\ \A m \in Server \ {p} : logs'[m] = logs[m]
      BY <1>0, <2>2, FollowerStores DEF AppendEntryStores, volatile, TypeOK
    <3> QED
      BY <1>0, <3>1
  <2>3. CASE ~AppendEntryAdopts(c, p) /\ ~RequestVoteRaises(c, p) /\ ~AppendEntryStores(c, p)
    <3>1. UNCHANGED <<nextIndex, logs, role>>
      BY <1>4, <2>3, SameTerms
      DEF Handle, HandleAppendEntry, HandleRequestVote, AppendEntryTo, AppendEntryCompares,
          RequestVoteFrom, RequestVoteCompares, RequestVoteDecides, Vote, RequestLost,
          persistent, volatile
    <3> QED
      BY <1>0, <3>1
  <2> QED
    BY <2>1, <2>2, <2>3
<1>5. ASSUME NEW c \in Callers, Ends(c)
      PROVE  role[n] = "LEADER" /\ nextIndex'[n] = nextIndex[n] /\ Len(logs[n]) <= Len(logs'[n])
  <2>1. ElectionLost(c) \/ BroadcastStale(c)
    BY <1>5 DEF Ends
  <2>2. UNCHANGED logs /\ role' = [role EXCEPT ![c[1]] = IF Higher(c) = {} THEN @ ELSE "FOLLOWER"]
    BY <2>1 DEF ElectionLost, BroadcastStale, StepsDown
  <2>3. CASE ElectionLost(c)
    <3>1. UNCHANGED nextIndex
      BY <2>3 DEF ElectionLost
    <3>2. role'[n] = role[n] \/ role'[n] = "FOLLOWER"
      BY <1>0, <2>2 DEF TypeOK
    <3>3. Len(logs[n]) <= Len(logs[n])
      BY <1>0 DEF TypeOK
    <3> QED
      BY <1>0, <2>2, <3>1, <3>2, <3>3
  <2>4. CASE BroadcastStale(c)
    <3>1. \E next : nextIndex' = [nextIndex EXCEPT ![c[1]] = next]
      BY <2>4 DEF BroadcastStale
    <3>2. role' = [role EXCEPT ![c[1]] = "FOLLOWER"]
      BY <2>2, <2>4 DEF BroadcastStale
    <3>3. n # c[1]
      BY <1>0, <3>2 DEF TypeOK
    <3> QED
      BY <1>0, <2>2, <3>1, <3>2, <3>3 DEF TypeOK
  <2> QED
    BY <2>1, <2>3, <2>4
<1> QED
  BY <1>1, <1>2, <1>3, <1>4, <1>5 DEF Next

LEMMA NextInLogStep ==
  ASSUME Cluster, WinInv, Leaders, NextInLog, [Next]_vars
  PROVE  NextInLog'
<1> SUFFICES ASSUME upsets' = {}, NEW n \in Server, role'[n] = "LEADER", NEW p \in Server \ {n}
             PROVE  nextIndex'[n][p] <= Len(logs'[n])
  BY DEF NextInLog
<1>0. TypeOK /\ TypeOK' /\ upsets = {} /\ logs[n] \in Seq(Commanded)
  BY TypesStep, UpsetsStay DEF WinInv, VoteInv, TypeOK
<1>1. NodesLead /\ CallsLead
  BY <1>0 DEF Leaders
<1>2. /\ nextIndex[n][p] \in Int /\ nextIndex'[n][p] \in Int
      /\ Len(logs[n]) \in Int /\ Len(logs'[n]) \in Int
  BY <1>0, LenProperties DEF TypeOK
<1>3. CASE \A c \in Callers : ~ElectionWon(c) /\ ~BroadcastDone(c) /\ ~BroadcastPanics(c)
  <2>1. /\ role[n] = "LEADER" /\ nextIndex'[n] = nextIndex[n]
        /\ Len(logs[n]) <= Len(logs'[n])
    BY <1>0, <1>1, <1>3, OthersInLog
  <2> QED
    BY <1>0, <1>2, <2>1 DEF NextInLog
<1>4. ASSUME NEW c \in Callers, ElectionWon(c)
      PROVE  nextIndex'[n][p] <= Len(logs'[n])
  <2>1. /\ role' = [role EXCEPT ![c[1]] = "LEADER"] /\ UNCHANGED logs
        /\ nextIndex' = [nextIndex EXCEPT ![c[1]] =
               [q \in Server |-> IF q \in CurrentPeers(c[1], logs[c[1]]) THEN Len(logs[c[1]]) ELSE @[q]]]
    BY <1>4 DEF ElectionWon, persistent
  <2>2. CASE n = c[1]
    <3>1. p \in CurrentPeers(n, logs[n])
      BY <1>0, PlainPeers DEF WinInv, PlainLogs
    <3> QED
      BY <1>0, <1>2, <2>1, <2>2, <3>1 DEF TypeOK
  <2>3. CASE n # c[1]
    BY <1>0, <1>2, <2>1, <2>3 DEF NextInLog, TypeOK
  <2> QED
    BY <2>2, <2>3
<1>5. ASSUME NEW c \in Callers, BroadcastDone(c) \/ BroadcastPanics(c)
      PROVE  nextIndex'[n][p] <= Len(logs'[n])
  <2>1. UNCHANGED <<role, logs>>
    BY <1>5 DEF BroadcastDone, BroadcastPanics, persistent
  <2>2. PICK done : nextIndex' = [nextIndex EXCEPT ![c[1]] = Moved(c, done)]
    BY <1>5 DEF BroadcastDone, BroadcastPanics
  <2>3. nextIndex[n][p] <= Len(logs[n])
    BY <1>0, <2>1 DEF NextInLog
  <2>4. CASE n = c[1]
    <3>1. Moved(c, done)[p] <= Len(logs[n])
      BY <1>0, <2>3, <2>4, MovedInLog
    <3> QED
      BY <1>0, <2>1, <2>2, <2>4, <3>1 DEF TypeOK
  <2>5. CASE n # c[1]
    BY <1>0, <2>1, <2>2, <2>3, <2>5 DEF TypeOK
  <2> QED
    BY <2>4, <2>5
<1> QED
  BY <1>3, <1>4, <1>5

LEMMA LeadInit == Init => Leaders /\ NextInLog
<1> SUFFICES ASSUME Init PROVE Leaders /\ NextInLog
  OBVIOUS
<1>1. \A n \in Server : role[n] = "LEADER" => n \in Forced
  BY DEF Init
<1>2. \A c \in Callers : call[c].kind = "none"
  BY DEF Init, NoCall
<1>3. Leaders
  BY <1>1, <1>2 DEF Init, Leaders, NodesLead, CallsLead, LeaderOf
<1>4. \A n \in Server : logs[n] = <<>> /\ \A p \in Server : nextIndex[n][p] = 0
  BY DEF Init
<1>5. NextInLog
  BY <1>4 DEF NextInLog
<1> QED
  BY <1>3, <1>5

\* In a cluster of an odd size with at most one forced leader, broadcastEntry
\* never looks for an entry that is not in the leader's log, whatever has been
\* lost and whoever has won meanwhile, unless something upsets the cluster.
THEOREM RaftIndices == Spec => []IndexInLog
<1>1. CASE Cluster
  <2>1. Spec => []CalmWinInv
    BY <1>1, WinInvariant DEF Cluster
  <2>2. CalmWinInv /\ Leaders /\ NextInLog /\ [Next]_vars => Leaders' /\ NextInLog'
    BY <1>1, LeadersStep, NextInLogStep, UpsetsStay DEF CalmWinInv, Leaders, NextInLog
  <2>3. CalmWinInv /\ Leaders /\ NextInLog => IndexInLog
    <3> SUFFICES ASSUME CalmWinInv, Leaders, NextInLog, upsets = {}, NEW c \in Callers,
                        call[c].kind = "append", call[c].term = currentTerm[c[1]]
                 PROVE  Beyond(c) = {}
      BY DEF IndexInLog, Orderly
    <3> DEFINE n == c[1]
    <3>1. n \in Server /\ TypeOK
      BY CallerTypes DEF CalmWinInv, WinInv, VoteInv
    <3>2. role[n] = "LEADER" /\ n \notin DOMAIN call[c].answers
      BY DEF Leaders, CallsLead, FromLeader
    <3>3. \A p \in Server \ {n} : nextIndex[n][p] <= Len(logs[n]) /\ nextIndex[n][p] \in Int
      BY <3>1, <3>2 DEF NextInLog, TypeOK
    <3>4. Len(logs[n]) \in Int
      BY <3>1, LenProperties DEF TypeOK
    <3>5. Successes(c) \subseteq Server \ {n}
      BY <3>1, <3>2 DEF Successes, TypeOK, IsCall
    <3> QED
      BY <3>3, <3>4, <3>5 DEF Beyond
  <2> QED
    BY <2>1, <2>2, <2>3, LeadInit, PTL DEF Spec
<1>2. CASE ~Cluster
  <2>1. IndexInLog
    BY <1>2 DEF IndexInLog, Orderly, Cluster
  <2> QED
    BY <2>1, PTL
<1> QED
  BY <1>1, <1>2
=============================================================================
