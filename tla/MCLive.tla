-------------------------------- MODULE MCLive ------------------------------
(* The values TLC gives to the constants of LiveUpdates.                   *)
EXTENDS LiveUpdates, MCProxy

=============================================================================
