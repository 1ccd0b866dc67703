----------------------------- MODULE MCMissions -----------------------------
(* A small instance of Missions for TLC.                                   *)
EXTENDS Missions

TwoStages == <<1, 2>>
TwoTiers == <<1, 2>>

=============================================================================
