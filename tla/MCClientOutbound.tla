-------------------------- MODULE MCClientOutbound --------------------------
(* A small instance of ClientOutbound for TLC.                             *)
EXTENDS ClientOutbound, TLC

CONSTANTS h1, h2, k1, k2

Symmetric == Permutations({h1, h2}) \cup Permutations({k1, k2})

=============================================================================
