------------------------------- MODULE MCRaft -------------------------------
(* Instances of Raft for TLC.                                              *)
EXTENDS Raft, TLC

CONSTANTS s1, s2, s3, x

Peers == Server \ Forced
Symmetry == Permutations(Peers)

\* When goroutines of a node have clashed, no property is left but the types.
NoClash == "clash" \notin upsets

Writes == {[Val |-> x, ServerID |-> None]}
Changes == Writes \cup {[Val |-> "REMOVE", ServerID |-> s] : s \in Forced}
=============================================================================
