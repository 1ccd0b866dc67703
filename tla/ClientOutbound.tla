--------------------------- MODULE ClientOutbound ---------------------------
(***************************************************************************)
(* One connection's way out.  Whoever has something to say to the client   *)
(* appends it to Client._buffer: the handlers of its dispatcher, detached  *)
(* tasks and the handlers of other clients (broadcasts), all of which      *)
(* flush it later, unless they break off, and worker threads, which do     *)
(* not.  flush() hands the whole buffer to the transport, waits until the  *)
(* peer has read enough of it, and only then empties the buffer.  Nothing  *)
(* keeps two flushes apart.                                                *)
(*                                                                         *)
(* Messages are numbered in the order in which they are appended.          *)
(***************************************************************************)
EXTENDS Naturals, Sequences

CONSTANTS
  Dispatcher,   \* the dispatcher task of the client
  Helpers,      \* tasks that append and flush: detached ones, broadcasters
  Closers,      \* tasks that will close the connection
  Foreign,      \* those of them that are dispatchers of other clients
  MaxMessages,  \* bound: messages
  Nobody

ASSUME TasksAssumption ==
  /\ Dispatcher \notin Helpers \cup Closers /\ Helpers \cap Closers = {}
  /\ Foreign \subseteq Helpers \cup Closers
  /\ MaxMessages \in Nat
  /\ Nobody \notin {Dispatcher} \cup Helpers \cup Closers

VARIABLES
  n,         \* messages appended so far
  buffer,    \* Client._buffer
  wire,      \* what the transport was given, in order
  slow,      \* the transport has paused writing
  closed,    \* Client._closed
  pc,        \* where each task is
  \* What the properties speak of:
  exposed,   \* messages appended between some flush's write and its clear
  flusher,   \* who is to flush each message that waits, if anybody
  overlap    \* a flush has started while another one was waiting

ghosts == <<exposed, flusher, overlap>>
vars == <<n, buffer, wire, slow, closed, pc, ghosts>>

Task == {Dispatcher} \cup Helpers \cup Closers
Message == 1..MaxMessages

(* A task is at "owes" when it has appended something and will flush;      *)
(* suspended in drain() it is at "drain"; "woken" when the transport has   *)
(* resumed and the loop has not come to it yet; "clear" when drain() has   *)
(* returned at once: the loop runs nothing else then, but threads go on.   *)
Place(t) ==
  {"idle", "owes", "drain", "woken", "clear"}
    \cup (IF t \in Closers THEN {"close", "waits", "done", "cancelled"} ELSE {})
    \cup (IF t = Dispatcher THEN {"done"} ELSE {})

TypeOK ==
  /\ n \in 0..MaxMessages
  /\ buffer \in Seq(Message) /\ wire \in Seq(Message)
  /\ {slow, closed, overlap} \subseteq BOOLEAN
  /\ DOMAIN pc = Task /\ \A t \in Task : pc[t] \in Place(t)
  /\ exposed \subseteq 1..n /\ flusher \in [Message -> Task \cup {Nobody}]

Init ==
  /\ n = 0 /\ buffer = <<>> /\ wire = <<>>
  /\ slow = FALSE /\ closed = FALSE
  /\ pc = [t \in Task |-> "idle"]
  /\ exposed = {} /\ flusher = [m \in Message |-> Nobody] /\ overlap = FALSE

-----------------------------------------------------------------------------
LoopIsFree == \A t \in Task : pc[t] # "clear"
Flushing(t) == pc[t] \in {"drain", "woken", "clear"}

(* Mutant: a message is put before those that wait.                        *)
AppendMessage_First(t) ==
  /\ n < MaxMessages /\ n' = n + 1
  /\ buffer' = <<n'>> \o buffer /\ flusher' = [flusher EXCEPT ![n'] = t]
  /\ exposed' = IF \E u \in Task : Flushing(u) THEN exposed \cup {n'}
                ELSE exposed

(* write_to_buffer, which asks nothing, not even whether the connection is *)
(* closed.  Who says something is to flush it.                             *)
AppendMessage(t) ==
  /\ n < MaxMessages /\ n' = n + 1
  /\ buffer' = Append(buffer, n') /\ flusher' = [flusher EXCEPT ![n'] = t]
  /\ exposed' = IF \E u \in Task : Flushing(u) THEN exposed \cup {n'}
                ELSE exposed

(* Mutant: a task that only appends.                                       *)
Says_NoFlush(t) ==
  /\ t \notin Closers /\ LoopIsFree /\ pc[t] \in {"idle", "owes"}
  /\ AppendMessage(t)
  /\ UNCHANGED <<wire, slow, closed, pc, overlap>>

(* A handler or a detached task says something: in send_proto_message the  *)
(* flush follows at once, after a synchronous reply it is the flush at the *)
(* end of dispatch() or of the detached task.                              *)
Says(t) ==
  /\ t \notin Closers /\ LoopIsFree /\ pc[t] \in {"idle", "owes"}
  /\ AppendMessage(t)
  /\ pc' = [pc EXCEPT ![t] = "owes"]
  /\ UNCHANGED <<wire, slow, closed, overlap>>

(* A detached task breaks off before its flush: emit_task_progress has     *)
(* pushed SC_20002 when the weekly part raises.                            *)
BreaksOff(t) ==
  /\ t \in Helpers /\ LoopIsFree /\ pc[t] = "owes"
  /\ pc' = [pc EXCEPT ![t] = "idle"]
  /\ flusher' = [m \in Message |-> IF flusher[m] = t THEN Nobody
                                   ELSE flusher[m]]
  /\ UNCHANGED <<n, buffer, wire, slow, closed, exposed, overlap>>

(* _sync_possession_tasks_sync runs in a thread and pushes SC_20002.       *)
ThreadSays ==
  /\ AppendMessage(Nobody)
  /\ UNCHANGED <<wire, slow, closed, pc, overlap>>

(* disconnect() says why (SC_10999) before it closes; the task that        *)
(* remove_client spawns only closes.                                       *)
StartsToClose(t) ==
  /\ t \in Closers /\ LoopIsFree /\ pc[t] = "idle"
  /\ \/ AppendMessage(t) /\ pc' = [pc EXCEPT ![t] = "owes"]
     \/ /\ pc' = [pc EXCEPT ![t] = "close"]
        /\ UNCHANGED <<n, buffer, exposed, flusher>>
  /\ UNCHANGED <<wire, slow, closed, overlap>>

(* What a task does once its flush is over.                                *)
AfterFlush(t) == IF t \in Closers THEN "close" ELSE "idle"

(* Mutant: a flush that writes one message at a time.                      *)
Flushes_One(t) ==
  /\ LoopIsFree /\ pc[t] = "owes"
  /\ IF buffer = <<>> \/ closed
     THEN /\ pc' = [pc EXCEPT ![t] = AfterFlush(t)]
          /\ UNCHANGED <<wire, slow, overlap>>
     ELSE /\ wire' = Append(wire, Head(buffer))
          /\ overlap' = (overlap \/ \E u \in Task : Flushing(u))
          /\ slow' \in {slow, TRUE}
          /\ pc' = [pc EXCEPT ![t] = IF slow' THEN "drain" ELSE "clear"]
  /\ UNCHANGED <<n, buffer, closed, exposed, flusher>>

(* flush(): the write, and a drain() that may suspend.                     *)
Flushes(t) ==
  /\ LoopIsFree /\ pc[t] = "owes"
  /\ IF buffer = <<>> \/ closed
     THEN /\ pc' = [pc EXCEPT ![t] = AfterFlush(t)]
          /\ UNCHANGED <<wire, slow, overlap>>
     ELSE /\ wire' = wire \o buffer
          /\ overlap' = (overlap \/ \E u \in Task : Flushing(u))
          /\ slow' \in {slow, TRUE}
          /\ pc' = [pc EXCEPT ![t] = IF slow' THEN "drain" ELSE "clear"]
  /\ UNCHANGED <<n, buffer, closed, exposed, flusher>>

(* Mutant: a flush that takes the buffer only after the wait writes what   *)
(* is there and empties nothing.                                           *)
Clears_Not(t) ==
  /\ pc[t] = "clear" \/ (LoopIsFree /\ pc[t] = "woken")
  /\ pc' = [pc EXCEPT ![t] = AfterFlush(t)]
  /\ UNCHANGED <<n, buffer, wire, slow, closed, ghosts>>

(* Its finally clause: whatever is in the buffer by now is dropped.        *)
EmptyBuffer ==
  buffer' = <<>> /\ flusher' = [m \in Message |-> Nobody]

Clears(t) ==
  /\ pc[t] = "clear" \/ (LoopIsFree /\ pc[t] = "woken")
  /\ EmptyBuffer
  /\ pc' = [pc EXCEPT ![t] = AfterFlush(t)]
  /\ UNCHANGED <<n, wire, slow, closed, exposed, overlap>>

(* The dispatcher is cancelled; inside drain() its finally clause runs.    *)
CancelDispatcher(after) ==
  /\ pc' = [pc EXCEPT ![after.task] = after.place, ![Dispatcher] = "done"]
  /\ IF Flushing(Dispatcher) THEN EmptyBuffer ELSE UNCHANGED <<buffer, flusher>>

(* Another client is closed, and its dispatcher cancelled where it waits   *)
(* for this one's peer: in a broadcast, or in the kick of a login, whose   *)
(* close() then never comes.                                               *)
Cancelled(t) ==
  /\ t \in Foreign /\ LoopIsFree /\ pc[t] \in {"drain", "woken", "waits"}
  /\ IF Flushing(t) THEN EmptyBuffer ELSE UNCHANGED <<buffer, flusher>>
  /\ pc' = [pc EXCEPT ![t] = IF t \in Closers THEN "cancelled" ELSE "idle"]
  /\ UNCHANGED <<n, wire, slow, closed, exposed, overlap>>

(* Mutant: the dispatcher is left alone, and closed is set when the        *)
(* transport is done.                                                      *)
Closes_Late(t) ==
  /\ LoopIsFree /\ pc[t] = "close"
  /\ IF slow THEN pc' = [pc EXCEPT ![t] = "waits"] /\ UNCHANGED closed
     ELSE closed' = TRUE /\ pc' = [pc EXCEPT ![t] = "done"]
  /\ UNCHANGED <<n, buffer, wire, slow, ghosts>>

(* close(); the first one waits until the transport has got rid of what    *)
(* it holds.                                                               *)
Closes(t) ==
  /\ LoopIsFree /\ pc[t] = "close"
  /\ IF closed
     THEN /\ pc' = [pc EXCEPT ![t] = "done"]
          /\ UNCHANGED <<closed, buffer, flusher>>
     ELSE /\ closed' = TRUE
          /\ CancelDispatcher([task |-> t,
                               place |-> IF slow THEN "waits" ELSE "done"])
  /\ UNCHANGED <<n, wire, slow, exposed, overlap>>

(* The peer has read enough, or the connection is lost: the waiters go on. *)
PeerReads ==
  /\ slow /\ LoopIsFree
  /\ slow' = FALSE
  /\ pc' = [t \in Task |-> CASE pc[t] = "drain" -> "woken"
                             [] pc[t] = "waits" -> "done"
                             [] OTHER -> pc[t]]
  /\ UNCHANGED <<n, buffer, wire, closed, ghosts>>

Step(t) == Flushes(t) \/ Clears(t) \/ Closes(t)

Next ==
  \/ ThreadSays \/ PeerReads
  \/ \E t \in Task : \/ Says(t) \/ BreaksOff(t) \/ StartsToClose(t)
                     \/ Cancelled(t) \/ Step(t)

(* The loop runs every task that can go on.  The peer is slow, but reads,  *)
(* or the network gives the connection up.                                 *)
Fairness == WF_vars(PeerReads) /\ \A t \in Task : WF_vars(Step(t))

Spec == Init /\ [][Next]_vars /\ Fairness

-----------------------------------------------------------------------------
(* Properties.                                                             *)

OnWire == {wire[i] : i \in DOMAIN wire}
InBuffer == {buffer[i] : i \in DOMAIN buffer}

(* A message is never dropped from an open connection unless it was        *)
(* appended between the write and the clear of somebody's flush.           *)
KeptUntilWritten ==
  closed \/ \A m \in 1..n : m \in OnWire \cup InBuffer \cup exposed

(* Gaps and repetitions there may be (a second flush during a drain writes *)
(* the same bytes again), but nothing appears for the first time after     *)
(* something that was said later.                                          *)
FirstSeenInOrder ==
  \A i, j \in DOMAIN wire :
    i < j /\ wire[j] < wire[i] => \E k \in 1..i : wire[k] = wire[j]

(* Every message in the buffer of an open connection has a task that will  *)
(* flush it, the one that said it, unless that was a thread or it has      *)
(* broken off since.                                                       *)
BufferedHasFlusher ==
  ~closed => \A m \in InBuffer : flusher[m] # Nobody =>
    pc[flusher[m]] = "owes" \/ Flushing(flusher[m])

(* As long as nothing was said during a flush, and no flush started during *)
(* another, the client receives every message once and in order.           *)
UndisturbedIsExact ==
  exposed = {} /\ ~overlap /\ (\A t \in Task : ~Flushing(t)) =>
    /\ \A i \in DOMAIN wire : wire[i] = i
    /\ ~closed => Len(wire) + Len(buffer) = n

(* A kick ends with the connection closed, and its task gets on: it waits  *)
(* twice for the peer, in the flush of SC_10999 and in close().  Only a    *)
(* login whose own connection goes may leave it at the notice.             *)
KickEnds ==
  \A t \in Closers : (pc[t] = "owes") ~>
    (pc[t] = "done" /\ closed) \/ (pc[t] = "cancelled" /\ t \in Foreign)

=============================================================================
