---------------------------- MODULE ClientInbound ----------------------------
(***************************************************************************)
(* One connection's way in: the reader coroutine Server._handle_connection *)
(* puts frames into the bounded queue of the Client, the dispatcher task   *)
(* Client._dispatch_loop takes them out and runs their handlers, and       *)
(* Client.close cancels the dispatcher from wherever it is called.         *)
(*                                                                         *)
(* Packets are numbered in the order the peer sends them.  Init, Next and  *)
(* the like are named for the path, as ClientOutbound has the plain names. *)
(***************************************************************************)
EXTENDS Naturals, Sequences

CONSTANTS Capacity,    \* maxsize of Client._queue (512 in the code)
          MaxPackets   \* bound: packets the peer sends

ASSUME CapacityAssumption == Capacity \in Nat \ {0}
ASSUME MaxPacketsAssumption == MaxPackets \in Nat

VARIABLES
  sent,        \* packets the peer has sent
  hungUp,      \* the peer has closed its side
  read,        \* packets the reader has taken from the stream
  queue,       \* Client._queue
  packets,     \* Client._metrics.packets: packets taken from the queue
  reader,      \* "reading", "put" (suspended in a full queue's put), "done"
  dispatcher,  \* "get", "busy" (inside a handler), "dead"
  isClosed,      \* Client._closed
  closing,     \* the close() task that remove_client spawns is pending
  listed       \* the client is in Server._clients

peer == <<sent, hungUp>>
inbound == <<peer, read, queue, packets, reader, dispatcher, isClosed,
             closing, listed>>

DataType ==
  /\ sent \in 0..MaxPackets
  /\ read \in Nat /\ packets \in Nat
  /\ queue \in Seq(Nat) /\ Len(queue) <= Capacity
  /\ reader \in {"reading", "put", "done"}
  /\ dispatcher \in {"get", "busy", "dead"}

FlagType == {hungUp, isClosed, closing, listed} \subseteq BOOLEAN

InboundTypeOK == DataType /\ FlagType

InboundInit ==
  /\ sent = 0 /\ hungUp = FALSE
  /\ read = 0 /\ queue = <<>> /\ packets = 0
  /\ reader = "reading" /\ dispatcher = "get"
  /\ isClosed = FALSE /\ closing = FALSE /\ listed = TRUE

-----------------------------------------------------------------------------
(* The peer.                                                               *)

PeerSends ==
  /\ ~hungUp /\ sent < MaxPackets
  /\ sent' = sent + 1
  /\ UNCHANGED <<hungUp, read, queue, packets, reader, dispatcher, isClosed,
                 closing, listed>>

PeerHangsUp ==
  /\ ~hungUp /\ hungUp' = TRUE
  /\ UNCHANGED <<sent, read, queue, packets, reader, dispatcher, isClosed,
                 closing, listed>>

-----------------------------------------------------------------------------
(* The reader coroutine.                                                   *)

(* Mutant: the finally clause spawns no close() task.                      *)
LeaveLoop_NoClose == reader' = "done" /\ listed' = FALSE /\ UNCHANGED closing

(* Its finally clause: remove_client.                                      *)
LeaveLoop == reader' = "done" /\ listed' = FALSE /\ closing' = TRUE

(* The loop tests is_closed() before it reads the next frame.              *)
NextIteration ==
  IF isClosed THEN LeaveLoop
  ELSE reader' = "reading" /\ UNCHANGED <<listed, closing>>

(* Mutant: put_nowait instead of a put that waits: a full queue drops.     *)
ReaderReads_DropsWhenFull ==
  /\ reader = "reading" /\ read < sent
  /\ read' = read + 1
  /\ queue' = IF Len(queue) < Capacity THEN Append(queue, read + 1) ELSE queue
  /\ NextIteration
  /\ UNCHANGED <<peer, packets, dispatcher, isClosed>>

(* readexactly returned a whole frame, and enqueue_packet puts it; on a    *)
(* full queue the coroutine is suspended with the packet in hand.          *)
ReaderReads ==
  /\ reader = "reading" /\ read < sent
  /\ read' = read + 1
  /\ IF Len(queue) < Capacity
     THEN queue' = Append(queue, read + 1) /\ NextIteration
     ELSE reader' = "put" /\ UNCHANGED <<queue, listed, closing>>
  /\ UNCHANGED <<peer, packets, dispatcher, isClosed>>

(* Mutant: a put that does not wait for room.                              *)
ReaderPuts_NoWait ==
  /\ reader = "put"
  /\ queue' = Append(queue, read)
  /\ NextIteration
  /\ UNCHANGED <<peer, read, packets, dispatcher, isClosed>>

ReaderPuts ==
  /\ reader = "put" /\ Len(queue) < Capacity
  /\ queue' = Append(queue, read)
  /\ NextIteration
  /\ UNCHANGED <<peer, read, packets, dispatcher, isClosed>>

(* A frame of an impossible size makes the loop break.                     *)
ReaderBreaks ==
  /\ reader = "reading" /\ read < sent
  /\ LeaveLoop
  /\ UNCHANGED <<peer, read, queue, packets, dispatcher, isClosed>>

(* IncompleteReadError: the peer has hung up, or close() shut the          *)
(* transport.                                                              *)
ReaderMeetsEOF ==
  /\ reader = "reading"
  /\ isClosed \/ (hungUp /\ read = sent)
  /\ LeaveLoop
  /\ UNCHANGED <<peer, read, queue, packets, dispatcher, isClosed>>

-----------------------------------------------------------------------------
(* Client.close and the dispatcher task.                                   *)

(* Mutant: close() forgets to cancel the dispatcher task.                  *)
Close_NoCancel == isClosed' = TRUE /\ UNCHANGED dispatcher

(* close() cancels the dispatcher task, also when it runs in that task.    *)
Close == isClosed' = TRUE /\ dispatcher' = "dead"

CloseTask ==
  /\ closing /\ closing' = FALSE
  /\ Close
  /\ UNCHANGED <<peer, read, queue, packets, reader, listed>>

(* disconnect(): a kick by a login, the API or the maintenance sweep.      *)
Disconnect ==
  /\ ~isClosed /\ Close
  /\ UNCHANGED <<peer, read, queue, packets, reader, closing, listed>>

(* Mutant: the loop hands out the newest packet.                           *)
DispatcherGets_Newest ==
  /\ dispatcher = "get" /\ queue # <<>> /\ ~isClosed
  /\ queue' = SubSeq(queue, 1, Len(queue) - 1)
  /\ packets' = packets + 1
  /\ dispatcher' = "busy"
  /\ UNCHANGED <<peer, read, reader, isClosed, closing, listed>>

DispatcherGets ==
  /\ dispatcher = "get" /\ queue # <<>> /\ ~isClosed
  /\ queue' = Tail(queue)
  /\ packets' = packets + 1
  /\ dispatcher' = "busy"
  /\ UNCHANGED <<peer, read, reader, isClosed, closing, listed>>

HandlerReturns ==
  /\ dispatcher = "busy"
  /\ dispatcher' = "get"
  /\ UNCHANGED <<peer, read, queue, packets, reader, isClosed, closing,
                 listed>>

(* An exception or an error result: close_with_error.                      *)
HandlerFails ==
  /\ dispatcher = "busy"
  /\ Close
  /\ UNCHANGED <<peer, read, queue, packets, reader, closing, listed>>

-----------------------------------------------------------------------------
Reader == ReaderReads \/ ReaderPuts \/ ReaderBreaks \/ ReaderMeetsEOF
DispatchLoop == DispatcherGets \/ HandlerReturns \/ HandlerFails

InboundNext == PeerSends \/ PeerHangsUp \/ Reader \/ CloseTask \/ Disconnect
          \/ DispatchLoop

InboundSafeSpec == InboundInit /\ [][InboundNext]_inbound

(* The event loop runs every task that can go on, and handlers end (they   *)
(* wait for the database at most).  Nothing is asked of the peer.          *)
InboundFairness ==
  /\ WF_inbound(Reader) /\ WF_inbound(CloseTask)
  /\ WF_inbound(DispatchLoop)

InboundSpec == InboundSafeSpec /\ InboundFairness

-----------------------------------------------------------------------------
(* What the reader holds or has put and no handler has been started for.   *)
Unhandled == IF reader = "put" THEN Append(queue, read) ELSE queue

(* No packet is lost, repeated or overtaken between the wire and the       *)
(* handlers, however the queue fills: the packets in flight are exactly    *)
(* those after the last one taken, in order.                               *)
PacketsInOrder ==
  /\ Len(Unhandled) = read - packets
  /\ \A i \in DOMAIN Unhandled : Unhandled[i] = packets + i

(* Once the connection is closed no handler is started, and the one in     *)
(* progress does not go on (the tasks it has detached do).                 *)
NothingHandledAfterClose ==
  [][isClosed => UNCHANGED <<packets, dispatcher>>]_inbound

(* A reader in put on a closed connection never gets on: the queue is full *)
(* and its consumer is gone.                                               *)
StuckReader == reader = "put" /\ isClosed /\ Len(queue) = Capacity

(* A connection whose peer hangs up is closed, full queue or not; and a    *)
(* closed one leaves Server._clients (and the chat rooms), unless its      *)
(* reader was in a full queue's put when the dispatcher was cancelled.     *)
ConnectionGoesDown ==
  /\ hungUp ~> isClosed
  /\ isClosed ~> (~listed \/ StuckReader)

Order == INSTANCE PacketOrder
           WITH accepted <- read, begun <- packets, stopped <- isClosed

(* The connection implements PacketOrder, liveness included.               *)
ImplementsPacketOrder == Order!Spec

=============================================================================
