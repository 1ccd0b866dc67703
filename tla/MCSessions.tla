----------------------------- MODULE MCSessions -----------------------------
(* Small instances of Sessions for TLC: Client.hash is injective there, so *)
(* it is the identity, which lets TLC take connections for symmetric.      *)
EXTENDS Sessions, TLC

HashIsInjective == [c \in Conn |-> c]

Connections == Permutations(Conn)

=============================================================================
