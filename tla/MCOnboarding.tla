---------------------------- MODULE MCOnboarding ----------------------------
(* Instances of Onboarding for TLC.                                        *)
EXTENDS Onboarding

CONSTANTS c1, c2, c3, u1, u2, d1, d2

(* Two users, one of them with two clients.                                *)
TwoOfOneUser == [c \in Client |-> IF c = c2 THEN u2 ELSE u1]
SharedDevice == [c \in Client |-> IF c = c3 THEN d2 ELSE d1]

=============================================================================
