----------------------------- MODULE MCShipyard -----------------------------
(* A short and a long build.                                               *)
EXTENDS Shipyard, TLC

CONSTANTS short, long, h1, h2

ShortAndLong == [s \in Ship |-> IF s = short THEN 1 ELSE 2]

AnyHurry == Permutations(Hurries)

=============================================================================
