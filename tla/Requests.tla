------------------------------ MODULE Requests ------------------------------
(***************************************************************************)
(* The data of ditm (src/proxy.go): a message the proxy sees, the request  *)
(* it records for it, and the verdict of a block configuration on it.      *)
(*                                                                         *)
(* A message is what the code reads off a connection: who sent it (the     *)
(* reverse lookup's answer, Outside for an address that is no container),  *)
(* the host it is for, its method, URI and body.  URIs and bodies are      *)
(* atoms; only whether two are equal and how long they are matters to the  *)
(* matchers, so their lengths are given by the functions UriLen, BodyLen.  *)
(* Time stamps, headers and response bodies are left out: no decision of   *)
(* the proxy reads them, except the timing matcher's (see RequestMatcher). *)
(***************************************************************************)
EXTENDS Integers, Sequences, FiniteSets

CONSTANTS
    Nodes,      \* the containers named in CONTAINER_HOST_NAMES
    Outside,    \* the name the proxy gives to every other sender
    Traffic,    \* the messages that may reach the proxy
    UriLen,     \* the length of each URI
    BodyLen     \* the length of each body

ASSUME TrafficAssumption ==
    /\ Outside \notin Nodes
    /\ \A m \in Traffic :
          /\ m = [From |-> m.From, ToName |-> m.ToName, Method |-> m.Method,
                  To |-> m.To, Body |-> m.Body]
          /\ m.From \in Nodes \cup {Outside}
          /\ UriLen[m.To] \in Nat
          /\ BodyLen[m.Body] \in Nat

\* A decision of the proxy on one message, and the request it records.
Verdict == [Blocked : BOOLEAN, BlockedResponse : BOOLEAN]
Request == [msg : Traffic, Blocked : BOOLEAN, BlockedResponse : BOOLEAN]

Pass == [Blocked |-> FALSE, BlockedResponse |-> FALSE]

NewRequest(m, v) ==
    [msg |-> m, Blocked |-> v.Blocked, BlockedResponse |-> v.BlockedResponse]

VerdictOf(r) == [Blocked |-> r.Blocked, BlockedResponse |-> r.BlockedResponse]

\* Whether a message, or a recorded request, came from outside the system.
IsOutside(m) == m.From \notin Nodes
FromOutside(r) == IsOutside(r.msg)

\* Requests of one stream have the same sender and the same receiver.
StreamIdentifier(m) == <<m.From, m.ToName>>

-----------------------------------------------------------------------------
(* Block configurations.                                                   *)

\* The loop compares a node with the sender first and with the receiver only
\* if that failed, so a node never counts as both: From # ToName.
checkPartitions(partitions, m) ==
    \E partition \in partitions :
        /\ {m.From, m.ToName} \subseteq partition
        /\ m.From # m.ToName

\* rand.Float32() < percentage / 100: the outcomes with a positive chance.
Draws(percentage) ==
    {b \in BOOLEAN : IF b THEN percentage > 0 ELSE percentage < 100}

\* The response is drawn only when the request passed.
RandomVerdicts(percentage) ==
    {v \in Verdict :
        /\ v.Blocked \in Draws(percentage)
        /\ IF v.Blocked THEN ~v.BlockedResponse
                        ELSE v.BlockedResponse \in Draws(percentage)}

\* The verdicts a configuration may return on m, replayed being those of its
\* argument replayBlock.  A mode the switch does not know blocks nothing.
Block(conf, m, replayed) ==
    IF IsOutside(m)
    THEN {Pass}
    ELSE CASE conf.Mode = "random" -> RandomVerdicts(conf.Percentage)
           [] conf.Mode = "partitions" ->
                {[Blocked |-> ~checkPartitions(conf.Partitions, m),
                  BlockedResponse |-> FALSE]}
           [] conf.Mode = "replay" -> replayed
           [] OTHER -> {Pass}

=============================================================================
