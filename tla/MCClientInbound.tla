--------------------------- MODULE MCClientInbound ---------------------------
(* A small instance of ClientInbound: a queue of two, so that it fills     *)
(* while the dispatcher is busy, and enough packets to block the reader.   *)
EXTENDS ClientInbound

MCCapacity == 2
MCMaxPackets == 5

=============================================================================
