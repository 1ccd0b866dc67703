------------------------------ MODULE MCWallet ------------------------------
(* Handlers are interchangeable.                                           *)
EXTENDS Wallet, TLC

CONSTANTS h1, h2

AnyHandler == Permutations(Handlers)

=============================================================================
