----------------------------- MODULE MCAffinity -----------------------------
(* A small instance of Affinity for TLC.                                    *)
EXTENDS Affinity

GainAndLoss == {-3, 1}

=============================================================================
