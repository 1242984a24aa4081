---------------------------- MODULE OutsideReplay ---------------------------
(***************************************************************************)
(* What a replay promises of the requests that came from outside: they are *)
(* taken in the order of the recording and each once, and a replay that is *)
(* not cancelled goes on until all of them are taken, and ends.            *)
(*                                                                         *)
(* How a replay does it (the connections whose traffic drives it, timers,  *)
(* tokens and matchers) is the business of module Proxy.                   *)
(***************************************************************************)
EXTENDS Naturals

VARIABLES
    runs,   \* how many replays have begun
    on,     \* whether the last of them is going on
    left    \* the positions, in the recording, of what is still to be taken

vars == <<runs, on, left>>

Init == runs = 0 /\ on = FALSE /\ left = {}

\* A replay begins, over another one perhaps.
Start ==
    /\ runs' = runs + 1
    /\ on' = TRUE
    /\ left' \subseteq Nat

\* The first of those left are taken; when what is replayed is taken away, all
\* that are left go.
Advance ==
    /\ left' \in SUBSET left /\ left' # left
    /\ \A i \in left \ left', j \in left' : i < j
    /\ UNCHANGED <<runs, on>>

Finish ==
    /\ on /\ left = {}
    /\ on' = FALSE
    /\ UNCHANGED <<runs, left>>

Cancel ==
    /\ on' = FALSE
    /\ UNCHANGED <<runs, left>>

\* Between replays the marks may be forgotten.
Forget ==
    /\ ~on
    /\ left' \subseteq Nat
    /\ UNCHANGED <<runs, on>>

Spec == Init /\ [][Start \/ Advance \/ Cancel \/ Forget]_vars

\* ... where nobody cancels.
CompleteSpec ==
    /\ Init /\ [][Start \/ Advance \/ Finish]_vars
    /\ WF_vars(Advance) /\ WF_vars(Finish)

=============================================================================
