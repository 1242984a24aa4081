------------------------------- MODULE MCProxy ------------------------------
(* The values TLC gives to the constants of Proxy.                         *)
EXTENDS Proxy

MCNodes == {"a", "b"}

Msg(from, to, method, uri, body) ==
    [From |-> from, ToName |-> to, Method |-> method, To |-> uri, Body |-> body]

\* A client's write, and a write that one node repeats to another twice, the
\* second time longer.
Write == Msg("outside", "a", "POST", "/set", "x")
Repeat == Msg("a", "b", "POST", "/repeat", "x")
RepeatMore == Msg("a", "b", "POST", "/repeat", "xyz")

MCUriLen == [uri \in {"/set", "/repeat"} |-> IF uri = "/set" THEN 4 ELSE 7]
MCBodyLen == [body \in {"x", "xyz"} |-> IF body = "x" THEN 1 ELSE 3]

MCTraffic == {Write, Repeat, RepeatMore}
InsideTraffic == {Repeat, RepeatMore}
OnlyWrite == {Write}
OneMessage == {Repeat}
WriteAndRepeat == {Write, Repeat}

Passed(m) == NewRequest(m, Pass)
Refused(m) == NewRequest(m, [Blocked |-> TRUE, BlockedResponse |-> FALSE])
Lost(m) == NewRequest(m, [Blocked |-> FALSE, BlockedResponse |-> TRUE])

Conf(mode) ==
    [Mode |-> mode, Partitions |-> {{node} : node \in MCNodes}, Percentage |-> 50]

\* A recording in which a node repeats something three times, twice alike, with
\* three verdicts, and a shorter one, which a replay outruns; one in which the
\* client writes twice and the repetition between is blocked; one of the client
\* alone.
ThreeRepeats ==
    [Requests |-> <<Refused(Repeat), Passed(Repeat), Lost(RepeatMore)>>,
     BlockConfigs |-> <<Conf("partitions")>>]
TwoRepeats ==
    [Requests |-> <<Passed(Repeat), Lost(RepeatMore)>>,
     BlockConfigs |-> <<Conf("partitions")>>]
WriteRepeatWrite ==
    [Requests |-> <<Passed(Write), Refused(Repeat), Passed(Write)>>,
     BlockConfigs |-> <<Conf("random")>>]
ClientOnly ==
    [Requests |-> <<Passed(Write), Passed(Write)>>,
     BlockConfigs |-> <<>>]

OnlyOneWrite == <<[Requests |-> <<Passed(Write)>>, BlockConfigs |-> <<Conf("random")>>]>>
Repeats == <<ThreeRepeats, TwoRepeats>>
OnlyWriteRepeatWrite == <<WriteRepeatWrite>>
OnlyClient == <<ClientOnly>>
RepeatThenClient == <<WriteRepeatWrite, ClientOnly>>

NoForms == {}
ModeForms == {[mode |-> "random", percentage |-> 50],
              [mode |-> "partitions", partitions |-> {{"a"}, {"b"}}]}
MatcherForms == {[matcher |-> kind, percentage |-> 40] : kind \in Kinds \ {"heuristic"}}
=============================================================================
