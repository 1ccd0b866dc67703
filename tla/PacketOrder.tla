----------------------------- MODULE PacketOrder -----------------------------
(***************************************************************************)
(* What a connection promises its peer: the packets are handled in the     *)
(* order they were sent, each at most once and one at a time, none is      *)
(* begun after the connection has stopped, and a connection that goes on   *)
(* goes on handling them.                                                  *)
(***************************************************************************)
EXTENDS Naturals

VARIABLES accepted,  \* how many packets have been taken from the peer
          begun,     \* how many of them a handler has been started for
          stopped    \* the connection is closed

vars == <<accepted, begun, stopped>>

Init == accepted = 0 /\ begun = 0 /\ stopped = FALSE

Accept == accepted' = accepted + 1 /\ UNCHANGED <<begun, stopped>>

Handle == /\ ~stopped /\ begun < accepted
          /\ begun' = begun + 1
          /\ UNCHANGED <<accepted, stopped>>

Stop == stopped' = TRUE /\ UNCHANGED <<accepted, begun>>

Next == Accept \/ Handle \/ Stop

SafeSpec == Init /\ [][Next]_vars
Spec == SafeSpec /\ WF_vars(Handle)

=============================================================================
