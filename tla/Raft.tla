-------------------------------- MODULE Raft --------------------------------
(***************************************************************************)
(* The Raft node of examples/raft_redis/raft.go, and what the variants in  *)
(* examples/raft_mongo and examples/raft_elastic change in it.  Nodes talk *)
(* over HTTP.  A node's run loop, or the handler of a client's request,    *)
(* sends one request to every peer and waits for all the answers (its      *)
(* "call"); the peers' handlers run meanwhile, and so do its own, without  *)
(* the lock.  A node answers one client's request at a time.               *)
(*                                                                         *)
(* Each test that a handler makes of the term, the role or the vote is a   *)
(* step, and what it assigns before the next one is another: other         *)
(* handlers of the node, and its loop, come between.  What the loop does   *)
(* between two network operations is one step.  A timeout may come at any  *)
(* moment; of the time without a leader only that is kept which the code   *)
(* compares it with.                                                       *)
(* Indices of the log count from 0, as in the code: entry i is log[i + 1]. *)
(* Operators named Faulty... stand for plausible bugs, for the runs.        *)
(***************************************************************************)
EXTENDS Integers, Sequences, FiniteSets

CONSTANTS
    Server,      \* the cluster as it is started: RAFT_ID and RAFT_PEERS
    Forced,      \* the nodes started with RAFT_FORCE_LEADER
    None,        \* no server
    Variant,     \* which of the three programs this is
    Commands,    \* what clients post: [Val, ServerID], None for /client
    MaxTerm,     \* bound: no election in a higher term
    MaxLog,      \* bound: no client's request beyond that many entries
    MaxCalls,    \* bound: how many calls there may be at a time
    Overlaps     \* bound: whether a node broadcasts again before it is done

ASSUME ConstantsAssumption ==
    /\ None \notin Server /\ IsFiniteSet(Server)
    /\ Forced \subseteq Server
    /\ Variant \in {"redis", "mongo", "elastic"}
    /\ \A c \in Commands :
           /\ DOMAIN c = {"Val", "ServerID"} /\ c.ServerID \in Server \cup {None}
    /\ {MaxTerm, MaxLog, MaxCalls} \subseteq Nat /\ Overlaps \in BOOLEAN

VARIABLES
    currentTerm, votedFor, logs,           \* said to survive a restart
    nextIndex, role, committedIndex,
    cummulativeHeartbeatTimeout,           \* "short" or "long"
    running,                               \* "yes", "stopped" or "panicked"
    inbound,                               \* whether the channel is full
    call,                                  \* what is waited for, by whom
    taken,                                 \* the entry a client's handler will append
    won, committed, upsets                 \* history, for the properties

persistent == <<currentTerm, votedFor, logs>>
volatile == <<nextIndex, role, committedIndex>>
history == <<won, committed, upsets>>
vars == <<persistent, volatile, cummulativeHeartbeatTimeout, running, inbound, call, taken, history>>

\* The run loop and the client's handler of each node.
Callers == Server \X {"run", "client"}
Caller(n, by) == <<n, by>>

Terms == 0..MaxTerm
Commanded == [Term : Terms, Val : {c.Val : c \in Commands},
              ServerID : {c.ServerID : c \in Commands}]
VoteRequests == [Term : Terms, CandidateId : Server, LogSize : Nat, LastLogTerm : Terms]
AppendRequests == [Term : Terms, PrevLogIndex : Int, PrevLogTerm : Terms,
                   CommittedIndex : Int, Entry : Seq(Commanded)]
Answers == [Err : BOOLEAN, Term : Terms, Success : BOOLEAN]

\* What a handler does next: compare the terms (lines 400 and 435), take over the
\* term or go on with its own, compare the logs and store the entry; or raise the
\* term, decide on the vote, and write it down.
Steps == {"compare", "adopt", "keep", "store", "raise", "decide", "vote"}

\* The requests on their way, how far those among them are that a handler has
\* begun with, and the answers there are.
IsCall(k) ==
    /\ k.kind \in {"none", "vote", "append"}
    /\ k.term \in Terms
    /\ DOMAIN k.reqs \subseteq Server
    /\ \A p \in DOMAIN k.reqs :
           /\ k.kind = "vote" => k.reqs[p] \in VoteRequests
           /\ k.kind = "append" =>
                  k.reqs[p] \in AppendRequests /\ k.reqs[p].PrevLogIndex >= -1
    /\ DOMAIN k.at \subseteq DOMAIN k.reqs
    /\ \A p \in DOMAIN k.at : k.at[p] \in Steps
    /\ DOMAIN k.answers \subseteq Server
    /\ \A p \in DOMAIN k.answers : k.answers[p] \in Answers

\* What has happened that the program has no answer to: a node's state changes
\* while a handler is between two of its steps, answers come when their term is
\* over, a node has two broadcasts at a time, the cluster changes.
Upsets == {"clash", "late", "overlap", "members"}

TypeOK ==
    /\ currentTerm \in [Server -> Terms]
    /\ votedFor \in [Server -> [Terms -> Server \cup {None}]]
    /\ logs \in [Server -> Seq(Commanded)]
    /\ nextIndex \in [Server -> [Server -> Int]]
    /\ role \in [Server -> {"LEADER", "CANDIDATE", "FOLLOWER"}]
    /\ committedIndex \in [Server -> Int]
    /\ cummulativeHeartbeatTimeout \in [Server -> {"short", "long"}]
    /\ running \in [Server -> {"yes", "stopped", "panicked"}]
    /\ inbound \in [Server -> BOOLEAN]
    /\ call = [c \in Callers |-> call[c]]
    /\ \A c \in Callers : IsCall(call[c])
    /\ taken \in [Server -> Seq(Commanded)]
    /\ upsets \subseteq Upsets
-----------------------------------------------------------------------------
(* The cluster, as a node sees it.                                         *)

\* Entries of /add_server and /remove_server name a server.
Mentions(id, log) == {i \in DOMAIN log : log[i].ServerID = id}
LastMention(id, log, among, val) ==
    \E i \in Mentions(id, log) \cap among :
        /\ log[i].Val = val
        /\ \A j \in Mentions(id, log) \cap among : j <= i

\* raft_mongo and raft_elastic go by the committed entries only.
ChangesInForce(n, log) ==
    IF Variant = "redis" THEN DOMAIN log
    ELSE {i \in DOMAIN log : i - 1 <= committedIndex[n]}

CurrentPeers(n, log) ==
    {id \in Server \ {n} :
        \/ Mentions(id, log) \cap ChangesInForce(n, log) = {}
        \/ LastMention(id, log, ChangesInForce(n, log), "ADD")}

FaultyIsMajority(n, count) == count >= Cardinality(CurrentPeers(n, logs[n])) \div 2

\* A majority of the peers, for a node that counts itself.
IsMajority(n, count) == count >= Cardinality(CurrentPeers(n, logs[n])) \div 2 + 1

ShouldStepDown(n) ==
    /\ role[n] = "LEADER"
    /\ LastMention(n, logs[n], DOMAIN logs[n], "REMOVE")
    /\ \A i \in Mentions(n, logs[n]) : i - 1 <= committedIndex[n]
-----------------------------------------------------------------------------
(* Calls: send, with the requests on their way and the answers so far.     *)

Nothing == [p \in {} |-> None]
NoCall ==
    [kind |-> "none", term |-> 0, reqs |-> Nothing, at |-> Nothing, answers |-> Nothing]
Lost == [Err |-> TRUE, Term |-> 0, Success |-> FALSE]
Answer(term, success) == [Err |-> FALSE, Term |-> term, Success |-> success]

Calling(c) == call[c].kind # "none"
Broadcasts(n) == {c \in Callers : c[1] = n /\ call[c].kind = "append"}
MayCall(c) == ~Calling(c) /\ Cardinality({d \in Callers : Calling(d)}) < MaxCalls
Pending(c) == DOMAIN call[c].reqs
\* The handler goes on after its answer.
FaultyAnswered(c, p, a) ==
    call' = [call EXCEPT ![c] =
                [kind |-> @.kind, term |-> @.term,
                 reqs |-> [q \in DOMAIN @.reqs \ {p} |-> @.reqs[q]],
                 at |-> @.at,
                 answers |-> [q \in DOMAIN @.answers \cup {p} |->
                                 IF q = p THEN a ELSE @.answers[q]]]]
Answered(c, p, a) ==
    call' = [call EXCEPT ![c] =
                [kind |-> @.kind, term |-> @.term,
                 reqs |-> [q \in DOMAIN @.reqs \ {p} |-> @.reqs[q]],
                 at |-> [q \in DOMAIN @.at \ {p} |-> @.at[q]],
                 answers |-> [q \in DOMAIN @.answers \cup {p} |->
                                 IF q = p THEN a ELSE @.answers[q]]]]

\* The handler of the request of c to p, and its next step.
At(c, p, step) == p \in DOMAIN call[c].at /\ call[c].at[p] = step
GoesOn(c, p, step) ==
    call' = [call EXCEPT ![c] =
                [kind |-> @.kind, term |-> @.term, reqs |-> @.reqs,
                 at |-> [q \in DOMAIN @.at \cup {p} |-> IF q = p THEN step ELSE @.at[q]],
                 answers |-> @.answers]]

\* Whose handlers at n are between two steps: the callers whose requests they
\* answer (a node sends none to itself), and the client's handler.
HandlersOf(n) ==
    {c \in Callers : n \in DOMAIN call[c].at \/ (c = Caller(n, "client") /\ taken[n] # <<>>)}

\* The state of a node changes by what one of its goroutines does, and another is
\* in the middle of something.
Local(n) ==
    <<currentTerm[n], votedFor[n], logs[n], nextIndex[n], role[n], committedIndex[n]>>
Clash(n, by) == IF Local(n)' = Local(n) THEN {} ELSE {"clash" : c \in HandlersOf(n) \ {by}}

Send(c, kind, reqs) ==
    call' = [call EXCEPT ![c] =
                [kind |-> kind, term |-> currentTerm'[c[1]], reqs |-> reqs,
                 at |-> Nothing, answers |-> Nothing]]

AppendEntryRequest(n, p, log) ==
    LET next == nextIndex[n][p]
    IN [Term |-> currentTerm[n], PrevLogIndex |-> next - 1,
        PrevLogTerm |-> IF next > 0 THEN log[next].Term ELSE 0,
        CommittedIndex |-> committedIndex[n],
        Entry |-> SubSeq(log, next + 1, IF next < Len(log) THEN next + 1 ELSE next)]

\* The first half of broadcastEntry.  A nextIndex that is not in the log is
\* beyond the bounds of the model.
BroadcastEntry(c, log) ==
    LET peers == CurrentPeers(c[1], log)
    IN /\ Overlaps \/ Broadcasts(c[1]) = {}
       /\ \A p \in peers : nextIndex[c[1]][p] \in 0..Len(log)
       /\ Send(c, "append", [p \in peers |-> AppendEntryRequest(c[1], p, log)])

LastLogTerm(log) == IF log = <<>> THEN 0 ELSE log[Len(log)].Term
RequestVoteRequest(n, term) ==
    [Term |-> term, CandidateId |-> n, LogSize |-> Len(logs[n]),
     LastLogTerm |-> LastLogTerm(logs[n])]
-----------------------------------------------------------------------------
(* The run loop.  It is not there while it waits for its own call.         *)

LoopFree(n) == running[n] = "yes" /\ ~Calling(Caller(n, "run"))

Overlap(n) == {"overlap" : c \in Broadcasts(n)}

\* Every round begins with the question whether to step down.
NextRound(n) ==
    running' = [running EXCEPT ![n] = IF ShouldStepDown(n)' THEN "stopped" ELSE @]

\* A request came in while the loop was busy: the loop takes the token from the
\* channel, and waits anew.
TakeInbound(n) ==
    /\ LoopFree(n)
    /\ inbound[n]
    /\ inbound' = [inbound EXCEPT ![n] = FALSE]
    /\ UNCHANGED <<persistent, volatile, cummulativeHeartbeatTimeout, call, taken, history>>
    /\ NextRound(n)

\* Every countdown is at least the time after which a node may vote, so the
\* time is "long" before the node is a candidate.
FollowerTimeout(n) ==
    /\ LoopFree(n)
    /\ role[n] = "FOLLOWER"
    /\ IF cummulativeHeartbeatTimeout[n] = "short"
       THEN /\ cummulativeHeartbeatTimeout' =
                   [cummulativeHeartbeatTimeout EXCEPT ![n] = "long"]
            /\ UNCHANGED role
       ELSE /\ role' = [role EXCEPT ![n] = "CANDIDATE"]
            /\ UNCHANGED cummulativeHeartbeatTimeout
    /\ UNCHANGED <<persistent, nextIndex, committedIndex, running, inbound, call, taken>>
    /\ UNCHANGED <<won, committed>>
    /\ upsets' = upsets \cup Clash(n, Caller(n, "run"))

LeaderTimeout(n) ==
    /\ LoopFree(n) /\ MayCall(Caller(n, "run"))
    /\ role[n] = "LEADER"
    /\ UNCHANGED <<persistent, volatile, cummulativeHeartbeatTimeout, running, inbound, taken>>
    /\ UNCHANGED <<won, committed>>
    /\ BroadcastEntry(Caller(n, "run"), logs[n])
    /\ upsets' = upsets \cup Overlap(n)

\* The election is run only when the countdown is over, and the count starts
\* from 0 again: only followers count on.
CandidateTimeout(n) ==
    LET term == currentTerm[n] + 1
    IN /\ LoopFree(n) /\ MayCall(Caller(n, "run"))
       /\ role[n] = "CANDIDATE"
       /\ cummulativeHeartbeatTimeout[n] = "long"
       /\ term <= MaxTerm
       /\ cummulativeHeartbeatTimeout' = [cummulativeHeartbeatTimeout EXCEPT ![n] = "short"]
       /\ currentTerm' = [currentTerm EXCEPT ![n] = term]
       /\ votedFor' = [votedFor EXCEPT ![n][term] = n]
       /\ Send(Caller(n, "run"), "vote",
               [p \in CurrentPeers(n, logs[n]) |-> RequestVoteRequest(n, term)])
       /\ UNCHANGED <<logs, volatile, running, inbound, taken, won, committed>>
       /\ upsets' = upsets \cup Clash(n, Caller(n, "run"))
-----------------------------------------------------------------------------
(* The requests arrive, or are blocked; so are the answers.                *)

\* Every handler first waits for a place in the channel to the run loop.  The
\* loop that waits for a token has it at once, and begins a new round.
Receives(p) ==
    /\ running[p] # "panicked"
    /\ ~inbound[p]
    /\ inbound' = [inbound EXCEPT ![p] = ~LoopFree(p)]
    /\ running' = [running EXCEPT ![p] =
                      IF LoopFree(p) /\ ShouldStepDown(p) THEN "stopped" ELSE @]

Matches(log, req) ==
    \/ req.PrevLogIndex = -1
    \/ /\ req.PrevLogIndex < Len(log)
       /\ log[req.PrevLogIndex + 1].Term = req.PrevLogTerm
Appended(log, req) == SubSeq(log, 1, req.PrevLogIndex + 1) \o req.Entry

FaultyRefused(p, req) == FALSE

\* raft_elastic goes on with an entry of an old term, but keeps its own.
Refused(p, req) == req.Term < currentTerm[p] /\ Variant # "elastic"

\* The request arrives, and is answered at once if it is refused.
AppendEntryTo(c, p) ==
    LET req == call[c].reqs[p]
    IN /\ p \in Pending(c) \ DOMAIN call[c].at /\ call[c].kind = "append"
       /\ Receives(p)
       /\ \/ /\ Refused(p, req)
             /\ \E a \in {Answer(currentTerm[p], FALSE), Lost} : Answered(c, p, a)
          \/ ~Refused(p, req) /\ GoesOn(c, p, "compare")
       /\ UNCHANGED <<persistent, volatile, cummulativeHeartbeatTimeout, taken, history>>

Handling(c, p, kind) ==
    /\ p \in DOMAIN call[c].at /\ call[c].kind = kind
    /\ running[p] # "panicked"
    /\ UNCHANGED <<running, inbound, taken>>

AppendEntryCompares(c, p) ==
    /\ At(c, p, "compare") /\ Handling(c, p, "append")
    /\ GoesOn(c, p, IF call[c].reqs[p].Term >= currentTerm[p] THEN "adopt" ELSE "keep")
    /\ UNCHANGED <<persistent, volatile, cummulativeHeartbeatTimeout, history>>

AppendEntryAdopts(c, p) ==
    LET req == call[c].reqs[p]
        adopts == At(c, p, "adopt")
    IN /\ \E step \in {"adopt", "keep"} : At(c, p, step)
       /\ Handling(c, p, "append")
       /\ GoesOn(c, p, "store")
       /\ currentTerm' = [currentTerm EXCEPT ![p] = IF adopts THEN req.Term ELSE @]
       /\ role' = [role EXCEPT ![p] = IF adopts THEN "FOLLOWER" ELSE @]
       /\ cummulativeHeartbeatTimeout' = [cummulativeHeartbeatTimeout EXCEPT ![p] = "short"]
       /\ committedIndex' = [committedIndex EXCEPT ![p] = req.CommittedIndex]
       /\ UNCHANGED <<votedFor, logs, nextIndex, won, committed>>
       /\ upsets' = upsets \cup Clash(p, c)

AppendEntryStores(c, p) ==
    LET req == call[c].reqs[p]
        success == Matches(logs[p], req)
    IN /\ At(c, p, "store") /\ Handling(c, p, "append")
       /\ \E a \in {Answer(currentTerm[p], success), Lost} : Answered(c, p, a)
       /\ logs' = [logs EXCEPT ![p] = IF success THEN Appended(@, req) ELSE @]
       /\ UNCHANGED <<currentTerm, votedFor, volatile, cummulativeHeartbeatTimeout>>
       /\ UNCHANGED <<won, committed>>
       /\ upsets' = upsets \cup Clash(p, c)

\* A node that has heard of its leader in the last two seconds does not vote.
NoVote(p, req) ==
    \/ req.Term < currentTerm[p]
    \/ Variant # "elastic" /\ cummulativeHeartbeatTimeout[p] = "short"

FaultyVoteIsFree(p, req) == TRUE

\* raft_elastic votes for more than one candidate.
VoteIsFree(p, req) ==
    Variant # "elastic" => votedFor[p][currentTerm[p]] \in {None, req.CandidateId}

FaultyUpToDate(log, req) == LastLogTerm(log) <= req.LastLogTerm

UpToDate(log, req) ==
    \/ LastLogTerm(log) < req.LastLogTerm
    \/ LastLogTerm(log) = req.LastLogTerm /\ Len(log) <= req.LogSize

RequestVoteFrom(c, p) ==
    LET req == call[c].reqs[p]
    IN /\ p \in Pending(c) \ DOMAIN call[c].at /\ call[c].kind = "vote"
       /\ Receives(p)
       /\ \/ /\ NoVote(p, req)
             /\ \E a \in {Answer(currentTerm[p], FALSE), Lost} : Answered(c, p, a)
          \/ ~NoVote(p, req) /\ GoesOn(c, p, "compare")
       /\ UNCHANGED <<persistent, volatile, cummulativeHeartbeatTimeout, taken, history>>

RequestVoteCompares(c, p) ==
    /\ At(c, p, "compare") /\ Handling(c, p, "vote")
    /\ GoesOn(c, p, IF call[c].reqs[p].Term > currentTerm[p] THEN "raise" ELSE "decide")
    /\ UNCHANGED <<persistent, volatile, cummulativeHeartbeatTimeout, history>>

RequestVoteRaises(c, p) ==
    /\ At(c, p, "raise") /\ Handling(c, p, "vote")
    /\ GoesOn(c, p, "decide")
    /\ currentTerm' = [currentTerm EXCEPT ![p] = call[c].reqs[p].Term]
    /\ role' = [role EXCEPT ![p] = "FOLLOWER"]
    /\ UNCHANGED <<votedFor, logs, nextIndex, committedIndex, cummulativeHeartbeatTimeout>>
    /\ UNCHANGED <<won, committed>>
    /\ upsets' = upsets \cup Clash(p, c)

\* The vote is for the term that is now, whichever that is.
RequestVoteDecides(c, p) ==
    LET req == call[c].reqs[p]
        vote == VoteIsFree(p, req) /\ UpToDate(logs[p], req)
    IN /\ At(c, p, "decide") /\ Handling(c, p, "vote")
       /\ \/ ~vote /\ \E a \in {Answer(currentTerm[p], FALSE), Lost} : Answered(c, p, a)
          \/ vote /\ GoesOn(c, p, "vote")
       /\ UNCHANGED <<persistent, volatile, cummulativeHeartbeatTimeout, history>>

Vote(c, p) ==
    /\ At(c, p, "vote") /\ Handling(c, p, "vote")
    /\ \E a \in {Answer(currentTerm[p], TRUE), Lost} : Answered(c, p, a)
    /\ votedFor' = [votedFor EXCEPT ![p][currentTerm[p]] = call[c].reqs[p].CandidateId]
    /\ UNCHANGED <<currentTerm, logs, volatile, cummulativeHeartbeatTimeout, won, committed>>
    /\ upsets' = upsets \cup Clash(p, c)

\* The proxy blocks a request, or there is nobody who answers it.
RequestLost(c, p) ==
    /\ p \in Pending(c)
    /\ p \in DOMAIN call[c].at => running[p] = "panicked"
    /\ Answered(c, p, Lost)
    /\ UNCHANGED <<persistent, volatile, cummulativeHeartbeatTimeout, running, inbound>>
    /\ UNCHANGED <<taken, history>>
-----------------------------------------------------------------------------
(* What is done with the answers, when all are there.                      *)

Complete(c, kind) == call[c].kind = kind /\ Pending(c) = {}
CallEnds(c) == call' = [call EXCEPT ![c] = NoCall]

Higher(c) == {p \in DOMAIN call[c].answers : call[c].answers[p].Term > currentTerm[c[1]]}
Successes(c) == {p \in DOMAIN call[c].answers : call[c].answers[p].Success}
Late(c) == IF currentTerm[c[1]] = call[c].term THEN {} ELSE {"late"}

\* The answers are gone through in any order, until one has a higher term.
TermsSeen(c) ==
    IF Higher(c) = {} THEN {currentTerm[c[1]]} ELSE {call[c].answers[p].Term : p \in Higher(c)}
StepsDown(c) ==
    /\ \E term \in TermsSeen(c) : currentTerm' = [currentTerm EXCEPT ![c[1]] = term]
    /\ role' = [role EXCEPT ![c[1]] = IF Higher(c) = {} THEN @ ELSE "FOLLOWER"]
    /\ UNCHANGED <<votedFor, logs>>

Elected(c) == Higher(c) = {} /\ IsMajority(c[1], Cardinality(Successes(c)) + 1)

ElectionLost(c) ==
    /\ Complete(c, "vote")
    /\ ~Elected(c)
    /\ CallEnds(c)
    /\ StepsDown(c)
    /\ UNCHANGED <<nextIndex, committedIndex, cummulativeHeartbeatTimeout, inbound>>
    /\ UNCHANGED <<taken, won, committed>>
    /\ upsets' = upsets \cup Clash(c[1], c)
    /\ NextRound(c[1])

\* Whatever has happened to the term and the role meanwhile.
ElectionWon(c) ==
    LET n == c[1]
        peers == CurrentPeers(n, logs[n])
    IN /\ Complete(c, "vote")
       /\ Elected(c)
       /\ CallEnds(c)
       /\ role' = [role EXCEPT ![n] = "LEADER"]
       /\ nextIndex' = [nextIndex EXCEPT ![n] =
              [p \in Server |-> IF p \in peers THEN Len(logs[n]) ELSE @[p]]]
       /\ won' = won \cup {[term |-> call[c].term, leader |-> n]}
       /\ UNCHANGED <<persistent, committedIndex, cummulativeHeartbeatTimeout, inbound>>
       /\ UNCHANGED <<taken, committed>>
       /\ upsets' = upsets \cup Late(c) \cup Clash(n, c)
       /\ NextRound(n)

\* nextIndex after the answers of these peers.
Moved(c, done) ==
    [p \in Server |->
        LET next == nextIndex[c[1]][p]
        IN IF p \notin done \/ call[c].answers[p].Err THEN next
           ELSE IF ~call[c].answers[p].Success THEN next - 1
           ELSE IF next < Len(logs[c[1]]) THEN next + 1 ELSE next]

\* Indexing the log with nextIndex - 1 is out of range for these peers.
Beyond(c) == {p \in Successes(c) \ Higher(c) : nextIndex[c[1]][p] > Len(logs[c[1]])}

\* The peers that have acknowledged an entry of the current term, and the
\* largest index that half of the peers have.
Acks(c, next) ==
    {p \in Successes(c) : next[p] > 0 /\ logs[c[1]][next[p]].Term = currentTerm[c[1]]}
HalfHas(c, next, i) ==
    Cardinality({p \in Acks(c, next) : next[p] >= i})
        >= Cardinality(CurrentPeers(c[1], logs[c[1]])) \div 2
NewCommittedIndex(c, next) ==
    LET n == c[1]
        agreed == {next[p] : p \in {q \in Acks(c, next) : HalfHas(c, next, next[q])}}
    IN IF CurrentPeers(n, logs[n]) = {} THEN {Len(logs[n]) - 1}
       ELSE IF agreed = {} THEN {committedIndex[n]}
       ELSE {i - 1 : i \in {i \in agreed : \A j \in agreed : j <= i}}

\* With one peer the middle of the acknowledged indices is out of range.
NoMiddle(c, next) ==
    Acks(c, next) # {} /\ Cardinality(CurrentPeers(c[1], logs[c[1]])) \div 2 = 0

\* Only the run loop goes on with a next round.
Returns(c) == IF c[2] = "run" THEN NextRound(c[1]) ELSE UNCHANGED running

BroadcastStale(c) ==
    /\ Complete(c, "append")
    /\ Higher(c) # {}
    /\ CallEnds(c)
    /\ StepsDown(c)
    /\ \E done \in SUBSET (DOMAIN call[c].answers \ (Higher(c) \cup Beyond(c))) :
           nextIndex' = [nextIndex EXCEPT ![c[1]] = Moved(c, done)]
    /\ UNCHANGED <<committedIndex, cummulativeHeartbeatTimeout, inbound>>
    /\ UNCHANGED <<taken, won, committed>>
    /\ upsets' = upsets \cup Clash(c[1], c)
    /\ Returns(c)

BroadcastDone(c) ==
    LET n == c[1]
        next == Moved(c, DOMAIN call[c].answers)
    IN /\ Complete(c, "append")
       /\ Higher(c) = {} /\ Beyond(c) = {} /\ ~NoMiddle(c, next)
       /\ CallEnds(c)
       /\ nextIndex' = [nextIndex EXCEPT ![n] = next]
       /\ \E index \in NewCommittedIndex(c, next) :
              /\ committedIndex' = [committedIndex EXCEPT ![n] = index]
              /\ committed' = IF index = committedIndex[n] THEN committed
                              ELSE committed \cup {[term |-> currentTerm[n],
                                                    log |-> SubSeq(logs[n], 1, index + 1)]}
       /\ UNCHANGED <<persistent, role, cummulativeHeartbeatTimeout, inbound, taken, won>>
       /\ upsets' = upsets \cup Late(c) \cup Clash(n, c)
       /\ Returns(c)

\* A panic in the run loop ends the program, one in a handler the connection.
BroadcastPanics(c) ==
    /\ Complete(c, "append")
    /\ \E done \in SUBSET (DOMAIN call[c].answers \ (Higher(c) \cup Beyond(c))) :
           /\ \/ Beyond(c) # {}
              \/ done = DOMAIN call[c].answers /\ NoMiddle(c, Moved(c, done))
           /\ nextIndex' = [nextIndex EXCEPT ![c[1]] = Moved(c, done)]
    /\ CallEnds(c)
    /\ running' = [running EXCEPT ![c[1]] = IF c[2] = "run" THEN "panicked" ELSE @]
    /\ UNCHANGED <<persistent, role, committedIndex, cummulativeHeartbeatTimeout, inbound>>
    /\ UNCHANGED <<taken, won, committed>>
    /\ upsets' = upsets \cup Clash(c[1], c)
-----------------------------------------------------------------------------
(* Clients.                                                                *)

\* What /client, /add_server and /remove_server make of a request.
logEntry(term, cmd) == [Term |-> term, Val |-> cmd.Val, ServerID |-> cmd.ServerID]

\* A request to the leader to append an entry; a follower passes it on.  The
\* handler reads the term before the role: an earlier term, if the node has moved
\* on in between.
ClientRequest(n, cmd) ==
    /\ Receives(n)
    /\ ~Calling(Caller(n, "client")) /\ taken[n] = <<>>
    /\ role[n] = "LEADER"
    /\ Len(logs[n]) < MaxLog
    /\ UNCHANGED <<persistent, volatile, cummulativeHeartbeatTimeout, call, won, committed>>
    /\ \E term \in 0..currentTerm[n] :
           /\ taken' = [taken EXCEPT ![n] = <<logEntry(term, cmd)>>]
           /\ upsets' = upsets \cup {"clash" : t \in {term} \ {currentTerm[n]}}
                               \cup {"members" : s \in {cmd.ServerID} \ {None}}

\* The entry is appended and sent, whatever the node has become meanwhile.
ClientAppends(n) ==
    LET log == logs[n] \o taken[n]
    IN /\ taken[n] # <<>> /\ MayCall(Caller(n, "client"))
       /\ running[n] # "panicked"
       /\ taken' = [taken EXCEPT ![n] = <<>>]
       /\ logs' = [logs EXCEPT ![n] = log]
       /\ UNCHANGED <<currentTerm, votedFor, volatile, cummulativeHeartbeatTimeout>>
       /\ UNCHANGED <<running, inbound, won, committed>>
       /\ BroadcastEntry(Caller(n, "client"), log)
       /\ upsets' = upsets \cup Overlap(n) \cup Clash(n, Caller(n, "client"))

\* A request that reads the log, or that is passed on to the leader: nothing
\* changes but the channel to the loop.
ClientOther(n) ==
    /\ ~LoopFree(n) \/ ShouldStepDown(n)
    /\ Receives(n)
    /\ UNCHANGED <<persistent, volatile, cummulativeHeartbeatTimeout, call, taken, history>>
-----------------------------------------------------------------------------
Init ==
    /\ currentTerm = [n \in Server |-> 0]
    /\ votedFor = [n \in Server |-> [t \in Terms |-> None]]
    /\ logs = [n \in Server |-> <<>>]
    /\ nextIndex = [n \in Server |-> [p \in Server |-> 0]]
    /\ role = [n \in Server |-> IF n \in Forced THEN "LEADER" ELSE "FOLLOWER"]
    /\ committedIndex = [n \in Server |-> -1]
    /\ cummulativeHeartbeatTimeout = [n \in Server |-> "short"]
    /\ running = [n \in Server |-> "yes"]
    /\ inbound = [n \in Server |-> FALSE]
    /\ call = [c \in Callers |-> NoCall]
    /\ taken = [n \in Server |-> <<>>]
    /\ won = {} /\ committed = {} /\ upsets = {}

Loop(n) ==
    \/ TakeInbound(n) \/ FollowerTimeout(n) \/ LeaderTimeout(n) \/ CandidateTimeout(n)
Client(n) ==
    \/ ClientOther(n) \/ ClientAppends(n) \/ \E cmd \in Commands : ClientRequest(n, cmd)
HandleAppendEntry(c, p) ==
    \/ AppendEntryTo(c, p) \/ AppendEntryCompares(c, p)
    \/ AppendEntryAdopts(c, p) \/ AppendEntryStores(c, p)
HandleRequestVote(c, p) ==
    \/ RequestVoteFrom(c, p) \/ RequestVoteCompares(c, p) \/ RequestVoteRaises(c, p)
    \/ RequestVoteDecides(c, p) \/ Vote(c, p)
Handle(c, p) == HandleAppendEntry(c, p) \/ HandleRequestVote(c, p)
Ends(c) ==
    \/ ElectionLost(c) \/ ElectionWon(c)
    \/ BroadcastStale(c) \/ BroadcastDone(c) \/ BroadcastPanics(c)

\* Only a request that is still pending can be handled or lost: the guard all the
\* handlers share, stated once, so that TLC tries none of them in vain.
Next ==
    \/ \E n \in Server : Loop(n) \/ Client(n)
    \/ \E c \in Callers :
           \/ Ends(c)
           \/ \E p \in Server : p \in Pending(c) /\ (Handle(c, p) \/ RequestLost(c, p))

Spec == Init /\ [][Next]_vars

\* Goroutines that can run do, and requests that are not blocked arrive.
Fairness ==
    /\ \A n \in Server : WF_vars(Loop(n)) /\ WF_vars(ClientAppends(n))
    /\ \A c \in Callers : WF_vars(Ends(c)) /\ SF_vars(\E p \in Server : Handle(c, p))

FairSpec == Spec /\ Fairness
-----------------------------------------------------------------------------
(* Properties.                                                             *)

\* A node's vote in a term is never changed and its term never falls, whoever
\* asks: votedFor and currentTerm are what runElection of another node counts on.
\* (A node whose goroutines get in each other's way is another matter, see upsets:
\* no handler takes the lock.)
VotesAreFinal ==
    [][Variant # "elastic" /\ "clash" \notin upsets' =>
          \A n \in Server :
              /\ currentTerm[n] <= currentTerm'[n]
              /\ \A t \in Terms :
                     votedFor[n][t] # None => votedFor'[n][t] = votedFor[n][t]]_vars

\* Two candidates never win the same term, however late the answers to one of
\* them are and whatever the nodes do meanwhile.  In a cluster of an even size
\* half of the nodes is enough for runElection; and while the cluster changes
\* the nodes may count different majorities.
OneWinner ==
    Variant # "elastic" /\ Cardinality(Server) % 2 = 1 /\ upsets \cap {"clash", "members"} = {} =>
        \A w, v \in won : w.term = v.term => w.leader = v.leader

\* A cluster of an odd size with at most one forced leader, and no upsets.
Orderly ==
    /\ Variant # "elastic" /\ Cardinality(Server) % 2 = 1 /\ Cardinality(Forced) <= 1
    /\ upsets = {}

\* What a leader has counted as committed is in the log of every leader of that
\* term or a later one: a request that was answered is not lost with the leader.
CommittedKept ==
    Orderly =>
        \A e \in committed : \A n \in Server :
            role[n] = "LEADER" /\ currentTerm[n] >= e.term =>
                /\ Len(e.log) <= Len(logs[n])
                /\ SubSeq(logs[n], 1, Len(e.log)) = e.log

\* The log of a leader is not cut down while it waits for the answers, so that
\* broadcastEntry finds every index it has counted up to, and does not panic.
\* (When the term of its call is over, the next leader may have cut the log.)
IndexInLog ==
    Orderly =>
        \A c \in Callers :
            call[c].kind = "append" /\ call[c].term = currentTerm[c[1]] => Beyond(c) = {}

\* As long as there are terms left, a cluster without a leader has one again
\* some time: some election is won in the end.
NewLeader ==
    [](\A n \in Server : currentTerm[n] < MaxTerm)
        => []<>(\E n \in Server : role[n] = "LEADER")
=============================================================================
