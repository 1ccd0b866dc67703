---------------------------- MODULE Client_proofs ----------------------------
(***************************************************************************)
(* Proofs about the two paths of one connection (connection/client.py):    *)
(* ClientOutbound, for every set of tasks and every number of messages,    *)
(* and ClientInbound, for every capacity of the queue and every number of  *)
(* packets.                                                                *)
(***************************************************************************)
EXTENDS ClientOutbound, ClientInbound, SequenceTheorems, TLAPS

-----------------------------------------------------------------------------
(* The way out.                                                            *)

Flows == \E t \in Task : Flushing(t)
Minds(t) == pc[t] = "owes" \/ Flushing(t)
NoneLeaves == \A t \in Task : Minds(t) => Minds(t)'

(* What a step does to the messages.                                       *)
Appends ==
  /\ n < MaxMessages /\ n' = n + 1 /\ buffer' = Append(buffer, n')
  /\ exposed' = IF Flows THEN exposed \cup {n'} ELSE exposed
  /\ Flows' <=> Flows
  /\ \E t \in Task \cup {Nobody} : /\ flusher' = [flusher EXCEPT ![n'] = t]
                                   /\ t # Nobody => Minds(t)'
  /\ NoneLeaves
  /\ UNCHANGED <<wire, closed, overlap>>
Writes ==
  /\ ~closed /\ wire' = wire \o buffer
  /\ overlap' = (overlap \/ Flows)
  /\ Flows' /\ NoneLeaves
  /\ UNCHANGED <<n, buffer, closed, exposed, flusher>>
Drops ==
  /\ Flows /\ EmptyBuffer
  /\ UNCHANGED <<n, wire, closed, exposed, overlap>>
Shuts ==
  /\ ~closed /\ closed' = TRUE
  /\ EmptyBuffer \/ UNCHANGED <<buffer, flusher>>
  /\ Flows' => Flows
  /\ UNCHANGED <<n, wire, exposed, overlap>>
Stays ==
  /\ UNCHANGED <<n, buffer, wire, closed, exposed, overlap>>
  /\ Flows' <=> Flows
  /\ flusher' \in [Message -> Task \cup {Nobody}]
  /\ \A m \in Message : flusher'[m] # Nobody =>
       /\ flusher'[m] = flusher[m]
       /\ Minds(flusher[m]) => \/ Minds(flusher[m])'
                               \/ buffer = <<>> \/ closed

-----------------------------------------------------------------------------
(* While a flush is under way, all that waits in the buffer has been       *)
(* written or was said during a flush: the flush that ends may drop it.    *)
DropsNothingNew == Flows => InBuffer \subseteq OnWire \cup exposed

(* The buffer is in the order in which it was said, and FirstSeenInOrder   *)
(* holds for what the next flush writes, too.                              *)
InOrder ==
  /\ \A p, q \in DOMAIN buffer : p < q => buffer[p] < buffer[q]
  /\ \A p \in DOMAIN buffer : buffer[p] <= n
  /\ \A i \in DOMAIN wire : wire[i] <= n
  /\ \A i \in DOMAIN wire, p \in DOMAIN buffer :
       buffer[p] < wire[i] => \E k \in 1..i : wire[k] = buffer[p]

(* UndisturbedIsExact, the time of a flush included.                       *)
Exact ==
  exposed = {} /\ ~overlap =>
    /\ \A i \in DOMAIN wire : wire[i] = i
    /\ ~closed =>
         IF Flows THEN Len(wire) = n
         ELSE /\ Len(wire) + Len(buffer) = n
              /\ \A p \in DOMAIN buffer : buffer[p] = Len(wire) + p

IInv ==
  /\ TypeOK
  /\ DropsNothingNew /\ KeptUntilWritten /\ BufferedHasFlusher
  /\ InOrder /\ FirstSeenInOrder /\ Exact

-----------------------------------------------------------------------------
(* Every step is of one of these kinds.                                    *)

(* A task that says something will flush, and flushes nothing yet.         *)
LEMMA AppendsIs ==
  ASSUME NEW t \in Task, AppendMessage(t), UNCHANGED <<wire, closed, overlap>>,
         DOMAIN pc = Task, ~Flushing(t), pc' = [pc EXCEPT ![t] = "owes"]
  PROVE  Appends
<1>1. \A u \in Task : Flushing(u)' <=> Flushing(u)
  BY DEF Flushing
<1>2. Flows' <=> Flows
  BY <1>1 DEF Flows
<1>3. Minds(t)' /\ NoneLeaves
  BY <1>1 DEF Minds, NoneLeaves
<1>4. \E u \in Task \cup {Nobody} : /\ flusher' = [flusher EXCEPT ![n'] = u]
                                    /\ u # Nobody => Minds(u)'
  BY <1>3, Zenon DEF AppendMessage
<1> QED BY <1>2, <1>3, <1>4, Zenon DEF AppendMessage, Appends, Flows

(* A task that leaves a place where it owed nothing moves no message.      *)
LEMMA StaysIs ==
  ASSUME TypeOK, UNCHANGED <<n, buffer, wire, closed, exposed, overlap, flusher>>,
         NEW t \in Task, ~Flushing(t), NEW p,
         p \notin {"drain", "woken", "clear"}, pc' = [pc EXCEPT ![t] = p],
         pc[t] # "owes" \/ buffer = <<>> \/ closed
  PROVE  Stays
<1>0. DOMAIN pc = Task /\ flusher \in [Message -> Task \cup {Nobody}]
  BY DEF TypeOK
<1>1. \A u \in Task : Flushing(u)' <=> Flushing(u)
  BY <1>0 DEF Flushing
<1>2. Flows' <=> Flows
  BY <1>1 DEF Flows
<1>3. pc[t] # "owes" => \A u \in Task : pc[u] = "owes" => pc'[u] = "owes"
  BY <1>0
<1>4. \A u \in Task : Minds(u) => Minds(u)' \/ buffer = <<>> \/ closed
  BY <1>1, <1>3, Zenon DEF Minds
<1>5. \A m \in Message : flusher[m] # Nobody => flusher[m] \in Task
  BY <1>0
<1> QED BY <1>0, <1>2, <1>4, <1>5, Zenon DEF Stays

(* Every action is of one of the kinds.                                    *)
LEMMA StepKinds ==
  ASSUME TypeOK, [Next]_vars
  PROVE  Appends \/ Writes \/ Drops \/ Shuts \/ Stays
<1>0. DOMAIN pc = Task /\ flusher \in [Message -> Task \cup {Nobody}]
  BY DEF TypeOK
<1>m. \A m \in Message : flusher[m] # Nobody => flusher[m] \in Task
  BY <1>0
<1>1. CASE ThreadSays
  <2>1. \A t \in Task : pc'[t] = pc[t]
    BY <1>1, Zenon DEF ThreadSays
  <2>2. (Flows' <=> Flows) /\ NoneLeaves
    BY <2>1, Zenon DEF Flows, NoneLeaves, Minds, Flushing
  <2>3. \E t \in Task \cup {Nobody} : /\ flusher' = [flusher EXCEPT ![n'] = t]
                                      /\ t # Nobody => Minds(t)'
    BY <1>1, Zenon DEF ThreadSays, AppendMessage
  <2> QED BY <1>1, <2>2, <2>3, Zenon DEF ThreadSays, AppendMessage, Appends, Flows
<1>2. CASE PeerReads
  <2>1. \A t \in Task : pc'[t] = CASE pc[t] = "drain" -> "woken"
                                   [] pc[t] = "waits" -> "done"
                                   [] OTHER -> pc[t]
    BY <1>2 DEF PeerReads
  <2>2. \A t \in Task : /\ Flushing(t)' <=> Flushing(t)
                        /\ pc[t] = "owes" => pc'[t] = "owes"
    BY <2>1 DEF Flushing
  <2>3. (Flows' <=> Flows) /\ \A t \in Task : Minds(t) => Minds(t)'
    BY <2>2, Zenon DEF Flows, Minds
  <2> QED BY <1>0, <1>m, <1>2, <2>3, Zenon DEF PeerReads, Stays, ghosts
<1>3. ASSUME NEW t \in Task, Says(t)
      PROVE  Appends
  <2>1. ~Flushing(t)
    BY <1>3 DEF Says, Flushing
  <2> QED BY <1>0, <1>3, <2>1, AppendsIs, Zenon DEF Says
<1>4. ASSUME NEW t \in Task, StartsToClose(t)
      PROVE  Appends \/ Stays
  <2>1. ~Flushing(t) /\ pc[t] # "owes" /\ "close" \notin {"drain", "woken", "clear"}
    BY <1>4 DEF StartsToClose, Flushing
  <2>2. CASE AppendMessage(t) /\ pc' = [pc EXCEPT ![t] = "owes"]
    BY <1>0, <1>4, <2>1, <2>2, AppendsIs, Zenon DEF StartsToClose
  <2>3. CASE /\ pc' = [pc EXCEPT ![t] = "close"]
             /\ UNCHANGED <<n, buffer, exposed, flusher>>
    <3>1. UNCHANGED <<n, buffer, wire, closed, exposed, overlap, flusher>>
      BY <1>4, <2>3, Zenon DEF StartsToClose
    <3> QED BY <2>1, <2>3, <3>1, StaysIs, Zenon
  <2> QED BY <1>4, <2>2, <2>3, Zenon DEF StartsToClose
<1>5. ASSUME NEW t \in Task, Flushes(t)
      PROVE  Writes \/ Stays
  <2>1. ~Flushing(t) /\ AfterFlush(t) \notin {"drain", "woken", "clear"}
    BY <1>5 DEF Flushes, Flushing, AfterFlush
  <2>2. CASE buffer = <<>> \/ closed
    <3>1. UNCHANGED <<n, buffer, wire, closed, exposed, overlap, flusher>>
      BY <1>5, <2>2, Zenon DEF Flushes
    <3>2. pc' = [pc EXCEPT ![t] = AfterFlush(t)]
      BY <1>5, <2>2, Zenon DEF Flushes
    <3> QED BY <2>1, <2>2, <3>1, <3>2, StaysIs, Zenon
  <2>3. CASE ~(buffer = <<>> \/ closed)
    <3>1. /\ ~closed /\ wire' = wire \o buffer
          /\ overlap' = (overlap \/ Flows)
          /\ UNCHANGED <<n, buffer, closed, exposed, flusher>>
      BY <1>5, <2>3, Zenon DEF Flushes, Flows
    <3>2. pc' = [pc EXCEPT ![t] = IF slow' THEN "drain" ELSE "clear"]
      BY <1>5, <2>3, Zenon DEF Flushes
    <3>3. Flushing(t)' /\ \A u \in Task : u # t => pc'[u] = pc[u]
      BY <1>0, <3>2 DEF Flushing
    <3>4. NoneLeaves
      BY <3>3, Zenon DEF NoneLeaves, Minds, Flushing
    <3> QED BY <3>1, <3>3, <3>4, Zenon DEF Writes, Flows
  <2> QED BY <2>2, <2>3
<1>6. ASSUME NEW t \in Task, Clears(t)
      PROVE  Drops
  <2>1. Flushing(t)
    BY <1>6 DEF Clears, Flushing
  <2> QED BY <1>6, <2>1, Zenon DEF Clears, Drops, Flows
<1>7. ASSUME NEW t \in Task, Closes(t)
      PROVE  Shuts \/ Stays
  <2>1. CASE closed
    <3>1. /\ pc' = [pc EXCEPT ![t] = "done"] /\ pc[t] = "close"
          /\ UNCHANGED <<n, buffer, wire, closed, exposed, overlap, flusher>>
      BY <1>7, <2>1, Zenon DEF Closes
    <3>2. ~Flushing(t) /\ "done" \notin {"drain", "woken", "clear"}
      BY <3>1 DEF Flushing
    <3> QED BY <2>1, <3>1, <3>2, StaysIs, Zenon
  <2>2. CASE ~closed
    <3> DEFINE d == [task |-> t, place |-> IF slow THEN "waits" ELSE "done"]
    <3>1. /\ closed' = TRUE /\ CancelDispatcher(d)
          /\ UNCHANGED <<n, wire, slow, exposed, overlap>>
      BY <1>7, <2>2, Zenon DEF Closes
    <3>2. EmptyBuffer \/ UNCHANGED <<buffer, flusher>>
      BY <3>1, Zenon DEF CancelDispatcher
    <3>3. \A u \in Task : pc'[u] \in {pc[u], "waits", "done"}
      BY <1>0, <3>1 DEF CancelDispatcher
    <3>4. Flows' => Flows
      BY <3>3 DEF Flows, Flushing
    <3> QED BY <2>2, <3>1, <3>2, <3>4, Zenon DEF Shuts
  <2> QED BY <2>1, <2>2
<1>8. ASSUME NEW t \in Task, BreaksOff(t)
      PROVE  Stays
  <2>1. /\ pc' = [pc EXCEPT ![t] = "idle"] /\ pc[t] = "owes"
        /\ flusher' = [m \in Message |-> IF flusher[m] = t THEN Nobody
                                         ELSE flusher[m]]
    BY <1>8, Zenon DEF BreaksOff
  <2>2. \A u \in Task : Flushing(u)' <=> Flushing(u)
    BY <1>0, <2>1 DEF Flushing
  <2>3. \A u \in Task : u # t => (Minds(u) <=> Minds(u)')
    BY <1>0, <2>1, <2>2 DEF Minds
  <2>4. /\ flusher' \in [Message -> Task \cup {Nobody}]
        /\ \A m \in Message : flusher'[m] # Nobody =>
             flusher'[m] = flusher[m] /\ flusher[m] \in Task \ {t}
    BY <1>0, <2>1
  <2>5. Flows' <=> Flows
    BY <2>2, Zenon DEF Flows
  <2>6. UNCHANGED <<n, buffer, wire, closed, exposed, overlap>>
    BY <1>8, Zenon DEF BreaksOff
  <2> QED BY <2>3, <2>4, <2>5, <2>6, Zenon DEF Stays
<1>9. ASSUME NEW t \in Task, Cancelled(t)
      PROVE  Drops \/ Stays
  <2> DEFINE p == IF t \in Closers THEN "cancelled" ELSE "idle"
  <2>1. /\ pc[t] \in {"drain", "woken", "waits"} /\ pc' = [pc EXCEPT ![t] = p]
        /\ UNCHANGED <<n, wire, closed, exposed, overlap>>
    BY <1>9, Zenon DEF Cancelled
  <2>2. CASE Flushing(t)
    BY <1>9, <2>1, <2>2, Zenon DEF Cancelled, Drops, Flows
  <2>3. CASE ~Flushing(t)
    <3>1. UNCHANGED <<n, buffer, wire, closed, exposed, overlap, flusher>>
      BY <1>9, <2>1, <2>3, Zenon DEF Cancelled
    <3>2. pc[t] # "owes" /\ p \notin {"drain", "woken", "clear"}
      BY <2>1
    <3> HIDE DEF p
    <3> QED BY <2>1, <2>3, <3>1, <3>2, StaysIs, Zenon
  <2> QED BY <2>2, <2>3
<1>10. CASE UNCHANGED vars
  <2>1. Flows' <=> Flows
    BY <1>10, Zenon DEF Flows, Flushing, vars
  <2>2. \A t \in Task : Minds(t) => Minds(t)'
    BY <1>10, Zenon DEF Minds, Flushing, vars
  <2> QED BY <1>0, <1>m, <1>10, <2>1, <2>2, Zenon DEF Stays, vars, ghosts
<1> QED BY <1>1, <1>2, <1>3, <1>4, <1>5, <1>6, <1>7, <1>8, <1>9, <1>10, Zenon
    DEF Next, Step

-----------------------------------------------------------------------------
(* What the sequences hold after a step.                                   *)

(* A message is appended.                                                  *)
LEMMA Appended ==
  ASSUME TypeOK, Appends
  PROVE  /\ n \in Nat /\ n + 1 \in Message
         /\ buffer' \in Seq(Message)
         /\ Len(buffer) \in Nat /\ DOMAIN buffer = 1..Len(buffer)
         /\ Len(buffer') = Len(buffer) + 1
         /\ \A p \in DOMAIN buffer : p \in DOMAIN buffer' /\ buffer'[p] = buffer[p]
         /\ \A p \in DOMAIN buffer' :
              \/ p \in DOMAIN buffer
              \/ p = Len(buffer) + 1 /\ buffer'[p] = n + 1
         /\ InBuffer' = InBuffer \cup {n + 1}
         /\ OnWire' = OnWire
<1>1. /\ n \in Nat /\ n + 1 \in Message /\ buffer \in Seq(Message)
      /\ buffer' = Append(buffer, n + 1) /\ wire' = wire
  BY TasksAssumption DEF TypeOK, Appends, Message
<1>2. buffer' \in Seq(Message)
  BY <1>1
<1>3. Len(buffer') = Len(buffer) + 1 /\ Len(buffer) \in Nat
  BY <1>1
<1>4. /\ DOMAIN buffer = 1..Len(buffer) /\ DOMAIN buffer' = 1..Len(buffer')
      /\ \A p \in 1..Len(buffer) : buffer'[p] = buffer[p]
      /\ buffer'[Len(buffer) + 1] = n + 1
  BY <1>1, <1>2
<1>5. InBuffer' = InBuffer \cup {n + 1}
  BY <1>3, <1>4 DEF InBuffer
<1>6. OnWire' = OnWire
  BY <1>1 DEF OnWire
<1> QED BY <1>1, <1>2, <1>3, <1>4, <1>5, <1>6

(* The buffer is written.                                                  *)
LEMMA Written ==
  ASSUME TypeOK, Writes
  PROVE  /\ wire' \in Seq(Message)
         /\ Len(wire) \in Nat /\ Len(buffer) \in Nat
         /\ Len(wire') = Len(wire) + Len(buffer)
         /\ DOMAIN wire = 1..Len(wire) /\ DOMAIN buffer = 1..Len(buffer)
         /\ \A i \in DOMAIN wire : i \in DOMAIN wire' /\ wire'[i] = wire[i]
         /\ \A p \in DOMAIN buffer : /\ Len(wire) + p \in DOMAIN wire'
                                     /\ wire'[Len(wire) + p] = buffer[p]
         /\ \A i \in DOMAIN wire' :
              \/ i \in DOMAIN wire
              \/ \E p \in DOMAIN buffer : i = Len(wire) + p
         /\ InBuffer' = InBuffer /\ OnWire' = OnWire \cup InBuffer
<1>1. /\ wire \in Seq(Message) /\ buffer \in Seq(Message)
      /\ wire' = wire \o buffer /\ buffer' = buffer
  BY DEF TypeOK, Writes
<1>2. /\ wire' \in Seq(Message) /\ Len(wire') = Len(wire) + Len(buffer)
      /\ Len(wire) \in Nat /\ Len(buffer) \in Nat
      /\ DOMAIN wire = 1..Len(wire) /\ DOMAIN buffer = 1..Len(buffer)
      /\ DOMAIN wire' = 1..(Len(wire) + Len(buffer))
  BY <1>1
<1>3. \A i \in DOMAIN wire : i \in DOMAIN wire' /\ wire'[i] = wire[i]
  BY <1>1, <1>2
<1>4. \A p \in DOMAIN buffer : /\ Len(wire) + p \in DOMAIN wire'
                               /\ wire'[Len(wire) + p] = buffer[p]
  BY <1>1, <1>2
<1>5. ASSUME NEW i \in DOMAIN wire', i \notin DOMAIN wire
      PROVE  \E p \in DOMAIN buffer : i = Len(wire) + p
  <2>1. i - Len(wire) \in DOMAIN buffer /\ i = Len(wire) + (i - Len(wire))
    BY <1>2, <1>5
  <2> QED BY <2>1
<1>6. InBuffer' = InBuffer
  BY <1>1 DEF InBuffer
<1>7. OnWire' = OnWire \cup InBuffer
  <2>1. \A i \in DOMAIN wire' : wire'[i] \in OnWire \cup InBuffer
    BY <1>3, <1>4, <1>5 DEF OnWire, InBuffer
  <2>2. \A m \in OnWire \cup InBuffer : \E i \in DOMAIN wire' : wire'[i] = m
    BY <1>3, <1>4 DEF OnWire, InBuffer
  <2> QED BY <2>1, <2>2 DEF OnWire
<1> QED BY <1>2, <1>3, <1>4, <1>5, <1>6, <1>7, Zenon

(* Everything stays where it is.                                           *)
LEMMA Untouched ==
  ASSUME UNCHANGED <<wire, buffer>>
  PROVE  OnWire' = OnWire /\ InBuffer' = InBuffer
BY DEF OnWire, InBuffer

(* The buffer is emptied.                                                  *)
LEMMA Emptied ==
  ASSUME UNCHANGED wire, buffer' = <<>>
  PROVE  OnWire' = OnWire /\ InBuffer' = {} /\ DOMAIN buffer' = {}
BY DEF OnWire, InBuffer

-----------------------------------------------------------------------------
(* Each part of the invariant is kept by each kind of step.                *)

(* Types are kept.                                                         *)
LEMMA TypeKept ==
  ASSUME TypeOK, [Next]_vars
  PROVE  TypeOK'
<1>1. DOMAIN pc = Task /\ \A t \in Task : pc[t] \in Place(t)
  BY DEF TypeOK
<1>2. slow' \in BOOLEAN
  BY DEF TypeOK, Next, ThreadSays, PeerReads, Says, BreaksOff, StartsToClose, Step,
         Cancelled, Flushes, Clears, Closes, vars
<1>3. /\ n' \in 0..MaxMessages /\ buffer' \in Seq(Message) /\ wire' \in Seq(Message)
      /\ closed' \in BOOLEAN /\ overlap' \in BOOLEAN
      /\ exposed' \subseteq 1..n' /\ flusher' \in [Message -> Task \cup {Nobody}]
  <2>0. /\ n \in 0..MaxMessages /\ buffer \in Seq(Message) /\ wire \in Seq(Message)
        /\ exposed \subseteq 1..n /\ flusher \in [Message -> Task \cup {Nobody}]
        /\ closed \in BOOLEAN /\ overlap \in BOOLEAN /\ MaxMessages \in Nat
    BY TasksAssumption DEF TypeOK
  <2>e. EmptyBuffer => /\ buffer' \in Seq(Message)
                       /\ flusher' \in [Message -> Task \cup {Nobody}]
    BY DEF EmptyBuffer
  <2>1. CASE Appends
    <3>1. n' = n + 1 /\ n' \in 0..MaxMessages
      BY <2>0, <2>1 DEF Appends
    <3>2. exposed' \subseteq 1..n'
      <4>1. exposed' \subseteq exposed \cup {n'}
        BY <2>1 DEF Appends
      <4>2. 1..n \subseteq 1..n' /\ n' \in 1..n'
        BY <2>0, <3>1
      <4> QED BY <2>0, <4>1, <4>2, Zenon
    <3>3. buffer' \in Seq(Message)
      BY <2>1, Appended
    <3>4. flusher' \in [Message -> Task \cup {Nobody}]
      <4>1. PICK t \in Task \cup {Nobody} : flusher' = [flusher EXCEPT ![n'] = t]
        BY <2>1, Zenon DEF Appends
      <4> QED BY <2>0, <4>1
    <3> QED BY <2>0, <2>1, <3>1, <3>2, <3>3, <3>4, Zenon DEF Appends
  <2>2. CASE Writes
    <3>1. wire' \in Seq(Message) /\ overlap' \in BOOLEAN
      BY <2>0, <2>2, Written, Zenon DEF Writes
    <3>2. UNCHANGED <<n, buffer, closed, exposed, flusher>>
      BY <2>2, Zenon DEF Writes
    <3> QED BY <2>0, <3>1, <3>2
  <2>3. CASE Drops
    BY <2>0, <2>e, <2>3, Zenon DEF Drops
  <2>4. CASE Shuts
    BY <2>0, <2>e, <2>4, Zenon DEF Shuts
  <2>5. CASE Stays
    BY <2>0, <2>5, Zenon DEF Stays
  <2> QED BY <2>1, <2>2, <2>3, <2>4, <2>5, StepKinds
<1>4. DOMAIN pc' = Task /\ \A t \in Task : pc'[t] \in Place(t)
  <2>1. CASE PeerReads
    BY <1>1, <2>1 DEF PeerReads, Place
  <2>2. CASE ThreadSays \/ UNCHANGED vars
    BY <1>1, <2>2 DEF ThreadSays, vars
  <2>3. ASSUME NEW t \in Task, NEW p \in Place(t), pc' = [pc EXCEPT ![t] = p]
        PROVE  DOMAIN pc' = Task /\ \A u \in Task : pc'[u] \in Place(u)
    BY <1>1, <2>3
  <2>4. \A t \in Task : {"owes", "drain", "clear", AfterFlush(t)} \subseteq Place(t)
    BY DEF Place, AfterFlush
  <2>5. \A t \in Closers : {"close", "done", "waits"} \subseteq Place(t)
    BY DEF Place
  <2>6. ASSUME NEW t \in Task, Says(t)
        PROVE  DOMAIN pc' = Task /\ \A u \in Task : pc'[u] \in Place(u)
    BY <2>3, <2>4, <2>6 DEF Says
  <2>7. ASSUME NEW t \in Task, StartsToClose(t)
        PROVE  DOMAIN pc' = Task /\ \A u \in Task : pc'[u] \in Place(u)
    BY <2>3, <2>4, <2>5, <2>7 DEF StartsToClose
  <2>8. ASSUME NEW t \in Task, Flushes(t)
        PROVE  DOMAIN pc' = Task /\ \A u \in Task : pc'[u] \in Place(u)
    <3>1. PICK p \in {"drain", "clear", AfterFlush(t)} : pc' = [pc EXCEPT ![t] = p]
      BY <2>8 DEF Flushes
    <3> QED BY <2>3, <2>4, <3>1
  <2>9. ASSUME NEW t \in Task, Clears(t)
        PROVE  DOMAIN pc' = Task /\ \A u \in Task : pc'[u] \in Place(u)
    BY <2>3, <2>4, <2>9 DEF Clears
  <2>10. ASSUME NEW t \in Task, Closes(t)
         PROVE  DOMAIN pc' = Task /\ \A u \in Task : pc'[u] \in Place(u)
    <3>1. t \in Closers
      BY <1>1, <2>10 DEF Closes, Place
    <3>2. CASE closed
      BY <2>3, <2>5, <2>10, <3>1, <3>2 DEF Closes
    <3>3. CASE ~closed
      <4>1. PICK p \in {"waits", "done"} :
              pc' = [pc EXCEPT ![t] = p, ![Dispatcher] = "done"]
        BY <2>10, <3>3 DEF Closes, CancelDispatcher
      <4>2. DOMAIN pc' = Task /\ \A u \in Task : pc'[u] =
              IF u = Dispatcher THEN "done" ELSE IF u = t THEN p ELSE pc[u]
        BY <1>1, <4>1
      <4>3. "done" \in Place(Dispatcher)
        BY DEF Place
      <4> QED BY <1>1, <2>5, <3>1, <4>2, <4>3
    <3> QED BY <3>2, <3>3
  <2>11. ASSUME NEW t \in Task, BreaksOff(t)
         PROVE  DOMAIN pc' = Task /\ \A u \in Task : pc'[u] \in Place(u)
    <3>1. pc' = [pc EXCEPT ![t] = "idle"] /\ "idle" \in Place(t)
      BY <2>11 DEF BreaksOff, Place
    <3> QED BY <2>3, <3>1
  <2>12. ASSUME NEW t \in Task, Cancelled(t)
         PROVE  DOMAIN pc' = Task /\ \A u \in Task : pc'[u] \in Place(u)
    <3>1. PICK p \in Place(t) : pc' = [pc EXCEPT ![t] = p]
      BY <2>12 DEF Cancelled, Place
    <3> QED BY <2>3, <3>1
  <2> QED BY <2>1, <2>2, <2>6, <2>7, <2>8, <2>9, <2>10, <2>11, <2>12 DEF Next, Step
<1> QED BY <1>2, <1>3, <1>4, Zenon DEF TypeOK

(* The flusher of a message stays until the buffer is empty or the         *)
(* connection closed, or until it breaks off.                              *)
LEMMA AttendedKept ==
  ASSUME TypeOK, BufferedHasFlusher, [Next]_vars
  PROVE  BufferedHasFlusher'
<1>0. /\ ~closed => \A m \in InBuffer : flusher[m] # Nobody => Minds(flusher[m])
      /\ (~closed => \A m \in InBuffer : flusher[m] # Nobody => Minds(flusher[m]))'
           => BufferedHasFlusher'
  BY Zenon DEF BufferedHasFlusher, Minds
<1>t. /\ flusher \in [Message -> Task \cup {Nobody}] /\ InBuffer \subseteq Message
      /\ \A m \in Message : flusher[m] # Nobody => flusher[m] \in Task
  <2>1. flusher \in [Message -> Task \cup {Nobody}] /\ buffer \in Seq(Message)
    BY DEF TypeOK
  <2> QED BY <2>1 DEF InBuffer
<1>1. CASE Appends
  <2>1. InBuffer' = InBuffer \cup {n'} /\ n' \in Message
    BY <1>1, Appended DEF Appends
  <2>2. PICK t \in Task \cup {Nobody} : /\ flusher' = [flusher EXCEPT ![n'] = t]
                                        /\ t # Nobody => Minds(t)'
    BY <1>1, Zenon DEF Appends
  <2>3. \A m \in Message : flusher'[m] = IF m = n' THEN t ELSE flusher[m]
    BY <1>t, <2>2
  <2>4. closed' = closed /\ \A u \in Task : Minds(u) => Minds(u)'
    BY <1>1, Zenon DEF Appends, NoneLeaves
  <2>5. ASSUME ~closed, NEW m \in InBuffer', flusher'[m] # Nobody
        PROVE  Minds(flusher[m])'
    <3>1. CASE m = n'
      <4>1. flusher'[m] = t
        BY <2>1, <2>3, <3>1
      <4> QED BY <2>2, <2>5, <4>1, Zenon DEF Minds, Flushing
    <3>2. CASE m # n'
      <4>1. m \in InBuffer /\ flusher'[m] = flusher[m] /\ flusher[m] \in Task
        BY <1>t, <2>1, <2>3, <2>5, <3>2
      <4>2. Minds(flusher[m])
        BY <1>0, <2>5, <4>1, Zenon
      <4> QED BY <2>4, <4>1, <4>2, Zenon DEF Minds, Flushing
    <3> QED BY <3>1, <3>2
  <2> QED BY <1>0, <2>4, <2>5, Zenon
<1>2. CASE Writes
  <2>1. InBuffer' = InBuffer /\ flusher' = flusher /\ closed' = closed
    BY <1>2, Written, Zenon DEF Writes
  <2>2. \A u \in Task : Minds(u) => Minds(u)'
    BY <1>2, Zenon DEF Writes, NoneLeaves
  <2>3. ASSUME ~closed, NEW m \in InBuffer, flusher[m] # Nobody
        PROVE  Minds(flusher[m])'
    BY <1>0, <1>t, <2>1, <2>2, <2>3, Zenon DEF Minds, Flushing
  <2> QED BY <1>0, <2>1, <2>3, Zenon DEF Minds, Flushing
<1>3. CASE Drops
  <2>1. InBuffer' = {}
    BY <1>3, Emptied, Zenon DEF Drops, EmptyBuffer
  <2> QED BY <1>0, <2>1, Zenon
<1>4. CASE Shuts
  BY <1>0, <1>4, Zenon DEF Shuts
<1>5. CASE Stays
  <2>1. InBuffer' = InBuffer /\ closed' = closed
    BY <1>5, Untouched, Zenon DEF Stays
  <2>2. buffer = <<>> => InBuffer = {}
    BY DEF InBuffer
  <2>3. ASSUME ~closed, NEW m \in InBuffer, flusher'[m] # Nobody
        PROVE  Minds(flusher[m])'
    <3>1. /\ m \in Message /\ flusher'[m] = flusher[m]
          /\ Minds(flusher[m]) => Minds(flusher[m])' \/ buffer = <<>> \/ closed
      BY <1>5, <1>t, <2>3, Zenon DEF Stays
    <3>2. Minds(flusher[m])
      BY <1>0, <2>3, <3>1, Zenon
    <3>3. Minds(flusher[m])'
      BY <2>2, <2>3, <3>1, <3>2, Zenon
    <3> QED BY <3>1, <3>3, Zenon DEF Minds, Flushing
  <2> QED BY <1>0, <2>1, <2>3, Zenon
<1> QED BY <1>1, <1>2, <1>3, <1>4, <1>5, StepKinds

(* The finally clause of a flush finds nothing in the buffer but what is   *)
(* on the wire or was said while it waited.                                *)
LEMMA WrittenKept ==
  ASSUME TypeOK, DropsNothingNew, KeptUntilWritten, [Next]_vars
  PROVE  DropsNothingNew' /\ KeptUntilWritten'
<1>0. closed \/ 1..n \subseteq OnWire \cup InBuffer \cup exposed
  BY DEF KeptUntilWritten
<1>a. (closed \/ 1..n \subseteq OnWire \cup InBuffer \cup exposed)'
         => KeptUntilWritten'
  BY DEF KeptUntilWritten
<1>1. CASE Appends
  <2>1. /\ InBuffer' = InBuffer \cup {n + 1} /\ OnWire' = OnWire /\ n \in Nat
    BY <1>1, Appended
  <2>2. /\ n' = n + 1 /\ (closed' <=> closed) /\ (Flows' <=> Flows)
        /\ exposed' = IF Flows THEN exposed \cup {n + 1} ELSE exposed
    BY <1>1 DEF Appends
  <2>3. 1..n' \subseteq (1..n) \cup {n + 1}
    BY <2>1, <2>2
  <2>4. CASE Flows
    <3>1. InBuffer \subseteq OnWire \cup exposed /\ exposed' = exposed \cup {n + 1}
      BY <2>2, <2>4, Zenon DEF DropsNothingNew
    <3>2. InBuffer' \subseteq OnWire' \cup exposed'
      BY <2>1, <3>1
    <3>3. closed \/ 1..n' \subseteq OnWire' \cup InBuffer' \cup exposed'
      BY <1>0, <2>1, <2>3, <3>1
    <3> QED BY <1>a, <2>2, <3>2, <3>3, Zenon DEF DropsNothingNew
  <2>5. CASE ~Flows
    <3>1. exposed' = exposed
      BY <2>2, <2>5, Zenon
    <3>2. closed \/ 1..n' \subseteq OnWire' \cup InBuffer' \cup exposed'
      BY <1>0, <2>1, <2>3, <3>1
    <3> QED BY <1>a, <2>2, <2>5, <3>2, Zenon DEF DropsNothingNew
  <2> QED BY <2>4, <2>5
<1>2. CASE Writes
  <2>1. /\ InBuffer' = InBuffer /\ OnWire' = OnWire \cup InBuffer
        /\ UNCHANGED <<n, closed, exposed>>
    BY <1>2, Written, Zenon DEF Writes
  <2> QED BY <1>0, <1>a, <2>1, Zenon DEF DropsNothingNew
<1>3. CASE Drops
  <2>1. /\ InBuffer' = {} /\ OnWire' = OnWire /\ Flows
        /\ UNCHANGED <<n, closed, exposed>>
    BY <1>3, Emptied, Zenon DEF Drops, EmptyBuffer
  <2> QED BY <1>0, <1>a, <2>1, Zenon DEF DropsNothingNew
<1>4. CASE Shuts
  <2>1. closed' /\ OnWire' = OnWire /\ exposed' = exposed /\ (Flows' => Flows)
    BY <1>4, Zenon DEF Shuts, OnWire
  <2>2. InBuffer' = InBuffer \/ InBuffer' = {}
    BY <1>4, Untouched, Emptied, Zenon DEF Shuts, EmptyBuffer
  <2> QED BY <1>a, <2>1, <2>2, Zenon DEF DropsNothingNew
<1>5. CASE Stays
  <2>1. /\ InBuffer' = InBuffer /\ OnWire' = OnWire /\ (Flows' <=> Flows)
        /\ UNCHANGED <<n, closed, exposed>>
    BY <1>5, Untouched, Zenon DEF Stays
  <2> QED BY <1>0, <1>a, <2>1, Zenon DEF DropsNothingNew
<1> QED BY <1>1, <1>2, <1>3, <1>4, <1>5, StepKinds

(* The order: what is written now has nothing to catch up with.            *)
LEMMA OrderKept ==
  ASSUME TypeOK, InOrder, FirstSeenInOrder, [Next]_vars
  PROVE  InOrder' /\ FirstSeenInOrder'
<1>0. /\ n \in Nat /\ DOMAIN wire \subseteq Nat /\ DOMAIN buffer \subseteq Nat
      /\ \A i \in DOMAIN wire : wire[i] \in Nat
      /\ \A p \in DOMAIN buffer : buffer[p] \in Nat
  <2>1. n \in 0..MaxMessages /\ buffer \in Seq(Message) /\ wire \in Seq(Message)
    BY DEF TypeOK
  <2>2. Message \subseteq Nat
    BY DEF Message
  <2>3. n \in Nat /\ DOMAIN wire \subseteq Nat /\ DOMAIN buffer \subseteq Nat
    BY <2>1, TasksAssumption
  <2>4. /\ \A i \in DOMAIN wire : wire[i] \in Message
        /\ \A p \in DOMAIN buffer : buffer[p] \in Message
    BY <2>1
  <2> QED BY <2>2, <2>3, <2>4
<1>1. CASE Appends
  <2>1. wire' = wire /\ n' = n + 1
    BY <1>1 DEF Appends
  <2>2. FirstSeenInOrder'
    BY <2>1 DEF FirstSeenInOrder
  <2>3. ASSUME NEW p \in DOMAIN buffer', NEW q \in DOMAIN buffer', p < q
        PROVE  buffer'[p] < buffer'[q]
    BY <1>0, <1>1, <2>3, Appended DEF InOrder
  <2>4. \A p \in DOMAIN buffer' : buffer'[p] <= n'
    BY <1>0, <1>1, <2>1, Appended DEF InOrder
  <2>5. \A i \in DOMAIN wire' : wire'[i] <= n'
    BY <1>0, <2>1 DEF InOrder
  <2>6. ASSUME NEW i \in DOMAIN wire', NEW p \in DOMAIN buffer',
               buffer'[p] < wire'[i]
        PROVE  \E k \in 1..i : wire'[k] = buffer'[p]
    <3>1. p \in DOMAIN buffer /\ buffer'[p] = buffer[p]
      BY <1>0, <1>1, <2>1, <2>6, Appended DEF InOrder
    <3> QED BY <2>1, <2>6, <3>1 DEF InOrder
  <2> QED BY <2>2, <2>3, <2>4, <2>5, <2>6 DEF InOrder
<1>2. CASE Writes
  <2> DEFINE L == Len(wire)
  <2>1. /\ L \in Nat /\ DOMAIN wire = 1..L /\ buffer' = buffer /\ n' = n
        /\ \A i \in DOMAIN wire : i \in DOMAIN wire' /\ wire'[i] = wire[i]
        /\ \A p \in DOMAIN buffer : /\ L + p \in DOMAIN wire'
                                    /\ wire'[L + p] = buffer[p]
        /\ \A i \in DOMAIN wire' :
             i \in DOMAIN wire \/ \E p \in DOMAIN buffer : i = L + p
        /\ DOMAIN buffer = 1..Len(buffer) /\ Len(buffer) \in Nat
    BY <1>2, Written DEF Writes
  <2> HIDE DEF L
  <2>2. /\ \A p, q \in DOMAIN buffer : p < q => buffer[p] < buffer[q]
        /\ \A p \in DOMAIN buffer : buffer[p] <= n
        /\ \A i \in DOMAIN wire : wire[i] <= n
        /\ \A i \in DOMAIN wire, p \in DOMAIN buffer :
             buffer[p] < wire[i] => \E k \in 1..i : wire[k] = buffer[p]
    BY Zenon DEF InOrder
  <2>3. \A i \in DOMAIN wire' : wire'[i] <= n'
    BY <2>1, <2>2
  <2>4. ASSUME NEW i \in DOMAIN wire', NEW p \in DOMAIN buffer,
               buffer[p] < wire'[i]
        PROVE  \E k \in 1..i : wire'[k] = buffer[p]
    <3>1. CASE i \in DOMAIN wire
      <4>1. PICK k \in 1..i : wire[k] = buffer[p]
        BY <2>1, <2>2, <2>4, <3>1
      <4>2. k \in DOMAIN wire
        BY <2>1, <3>1, <4>1
      <4> QED BY <2>1, <4>1, <4>2
    <3>2. ASSUME NEW q \in DOMAIN buffer, i = L + q
          PROVE  \E k \in 1..i : wire'[k] = buffer[p]
      <4>1. buffer[p] < buffer[q] /\ p \in Nat /\ q \in Nat /\ p >= 1
        BY <2>1, <2>4, <3>2
      <4>2. p < q
        <5>1. q < p => buffer[q] < buffer[p]
          BY <2>2
        <5> QED BY <1>0, <4>1, <5>1
      <4>3. L + p \in 1..i /\ wire'[L + p] = buffer[p]
        BY <2>1, <3>2, <4>1, <4>2
      <4> QED BY <4>3
    <3> QED BY <2>1, <3>1, <3>2
  <2>5. ASSUME NEW i \in DOMAIN wire', NEW j \in DOMAIN wire',
               i < j, wire'[j] < wire'[i]
        PROVE  \E k \in 1..i : wire'[k] = wire'[j]
    <3>1. CASE j \in DOMAIN wire
      <4>1. i \in DOMAIN wire
        BY <2>1, <2>5, <3>1
      <4>2. PICK k \in 1..i : wire[k] = wire[j]
        BY <2>1, <2>5, <3>1, <4>1 DEF FirstSeenInOrder
      <4>3. k \in DOMAIN wire
        BY <2>1, <4>1, <4>2
      <4> QED BY <2>1, <3>1, <4>2, <4>3
    <3>2. ASSUME NEW q \in DOMAIN buffer, j = L + q
          PROVE  \E k \in 1..i : wire'[k] = wire'[j]
      <4>1. wire'[j] = buffer[q]
        BY <2>1, <3>2
      <4> QED BY <2>4, <2>5, <4>1
    <3> QED BY <2>1, <3>1, <3>2
  <2>6. InOrder'
    BY <2>1, <2>2, <2>3, <2>4 DEF InOrder
  <2>7. FirstSeenInOrder'
    BY <2>5 DEF FirstSeenInOrder
  <2> QED BY <2>6, <2>7
<1>3. CASE buffer' = <<>> /\ UNCHANGED <<n, wire>>
  <2>1. DOMAIN buffer' = {}
    BY <1>3
  <2>2. InOrder'
    BY <1>3, <2>1 DEF InOrder
  <2>3. FirstSeenInOrder'
    BY <1>3 DEF FirstSeenInOrder
  <2> QED BY <2>2, <2>3
<1>4. CASE UNCHANGED <<n, buffer, wire>>
  BY <1>4 DEF InOrder, FirstSeenInOrder
<1> QED
  <2>1. Drops \/ Shuts \/ Stays
          => \/ buffer' = <<>> /\ UNCHANGED <<n, wire>>
             \/ UNCHANGED <<n, buffer, wire>>
    BY Zenon DEF Drops, Shuts, Stays, EmptyBuffer
  <2> QED BY <1>1, <1>2, <1>3, <1>4, <2>1, StepKinds, Zenon

(* What was never disturbed is exact: during a flush all of the buffer is  *)
(* on the wire, otherwise the buffer goes on where the wire ends.          *)
LEMMA ExactKept ==
  ASSUME TypeOK, Exact, [Next]_vars
  PROVE  Exact'
<1>0. /\ n \in Nat /\ Len(wire) \in Nat /\ Len(buffer) \in Nat
      /\ DOMAIN wire = 1..Len(wire) /\ DOMAIN buffer = 1..Len(buffer)
  <2>1. n \in 0..MaxMessages /\ buffer \in Seq(Message) /\ wire \in Seq(Message)
    BY DEF TypeOK
  <2> QED BY <2>1, TasksAssumption
<1> SUFFICES ASSUME exposed' = {}, ~overlap'
             PROVE  /\ \A i \in DOMAIN wire' : wire'[i] = i
                    /\ ~closed' =>
                         IF Flows' THEN Len(wire') = n'
                         ELSE /\ Len(wire') + Len(buffer') = n'
                              /\ \A p \in DOMAIN buffer' :
                                   buffer'[p] = Len(wire') + p
  BY Zenon DEF Exact
<1>1. CASE Appends
  <2>1. /\ exposed = {} /\ ~overlap /\ ~Flows /\ ~Flows' /\ wire' = wire
        /\ n' = n + 1 /\ (closed' <=> closed)
    BY <1>1 DEF Appends
  <2>2. /\ \A i \in DOMAIN wire : wire[i] = i
        /\ ~closed => /\ Len(wire) + Len(buffer) = n
                      /\ \A p \in DOMAIN buffer : buffer[p] = Len(wire) + p
    BY <2>1, Zenon DEF Exact
  <2>3. ~closed => Len(wire') + Len(buffer') = n'
    BY <1>0, <1>1, <2>1, <2>2, Appended
  <2>4. ~closed => \A p \in DOMAIN buffer' : buffer'[p] = Len(wire') + p
    <3> SUFFICES ASSUME ~closed, NEW p \in DOMAIN buffer'
                 PROVE  buffer'[p] = Len(wire) + p
      BY <2>1
    <3>1. CASE p \in DOMAIN buffer
      BY <1>1, <2>2, <3>1, Appended
    <3>2. CASE p = Len(buffer) + 1 /\ buffer'[p] = n + 1
      BY <1>0, <2>2, <3>2
    <3> QED BY <1>1, <3>1, <3>2, Appended
  <2> QED BY <2>1, <2>2, <2>3, <2>4, Zenon
<1>2. CASE Writes
  <2>1. /\ exposed = {} /\ ~overlap /\ ~Flows /\ Flows' /\ ~closed /\ n' = n
    BY <1>2, Zenon DEF Writes
  <2>2. /\ \A i \in DOMAIN wire : wire[i] = i
        /\ Len(wire) + Len(buffer) = n
        /\ \A p \in DOMAIN buffer : buffer[p] = Len(wire) + p
    BY <2>1, Zenon DEF Exact
  <2>3. Len(wire') = n'
    BY <1>2, <2>1, <2>2, Written
  <2>4. ASSUME NEW i \in DOMAIN wire'
        PROVE  wire'[i] = i
    <3>1. CASE i \in DOMAIN wire
      BY <1>2, <2>2, <3>1, Written
    <3>2. ASSUME NEW p \in DOMAIN buffer, i = Len(wire) + p
          PROVE  wire'[i] = i
      BY <1>2, <2>2, <3>2, Written
    <3> QED BY <1>2, <3>1, <3>2, Written
  <2> QED BY <2>1, <2>3, <2>4, Zenon
<1>3. CASE Drops
  <2>1. /\ exposed = {} /\ ~overlap /\ Flows /\ buffer' = <<>> /\ wire' = wire
        /\ n' = n /\ closed' = closed
    BY <1>3, Zenon DEF Drops, EmptyBuffer
  <2>2. /\ \A i \in DOMAIN wire : wire[i] = i
        /\ ~closed => Len(wire) = n
    BY <2>1, Zenon DEF Exact
  <2>3. DOMAIN buffer' = {} /\ Len(buffer') = 0
    BY <2>1
  <2>4. Len(wire) + Len(buffer') = Len(wire)
    BY <1>0, <2>3
  <2> QED BY <2>1, <2>2, <2>3, <2>4, Zenon
<1>4. CASE Shuts
  <2>1. exposed = {} /\ ~overlap /\ closed' /\ wire' = wire
    BY <1>4, Zenon DEF Shuts
  <2> QED BY <2>1, Zenon DEF Exact
<1>5. CASE Stays
  <2>1. /\ exposed = {} /\ ~overlap /\ (Flows' <=> Flows)
        /\ UNCHANGED <<n, buffer, wire, closed>>
    BY <1>5, Zenon DEF Stays
  <2> QED BY <2>1, Zenon DEF Exact
<1> QED BY <1>1, <1>2, <1>3, <1>4, <1>5, StepKinds

-----------------------------------------------------------------------------
(* A new connection satisfies the invariant.                               *)
LEMMA InitHolds == Init => IInv
<1> SUFFICES ASSUME Init PROVE IInv
  OBVIOUS
<1>1. /\ n = 0 /\ buffer = <<>> /\ wire = <<>> /\ exposed = {}
      /\ ~Flows /\ 1..n = {} /\ InBuffer = {}
      /\ DOMAIN wire = {} /\ DOMAIN buffer = {}
      /\ Len(wire) + Len(buffer) = n
  BY DEF Init, Flows, Flushing, InBuffer
<1>2. TypeOK
  <2>1. DOMAIN pc = Task /\ \A t \in Task : pc[t] \in Place(t)
    BY DEF Init, Place
  <2>2. n \in 0..MaxMessages
    BY TasksAssumption DEF Init
  <2>3. <<>> \in Seq(Message)
    OBVIOUS
  <2>4. /\ {slow, closed, overlap} \subseteq BOOLEAN
        /\ exposed \subseteq 1..n
    BY Zenon DEF Init
  <2>5. flusher \in [Message -> Task \cup {Nobody}]
    BY DEF Init
  <2> QED BY <1>1, <2>1, <2>2, <2>3, <2>4, <2>5, Zenon DEF TypeOK
<1>3. DropsNothingNew /\ KeptUntilWritten /\ BufferedHasFlusher
  BY <1>1, Zenon DEF DropsNothingNew, KeptUntilWritten, BufferedHasFlusher
<1>4. InOrder /\ FirstSeenInOrder /\ Exact
  BY <1>1, Zenon DEF InOrder, FirstSeenInOrder, Exact
<1> QED BY <1>2, <1>3, <1>4 DEF IInv

(* Every step keeps the invariant.                                         *)
LEMMA StepKeeps ==
  ASSUME IInv, [Next]_vars
  PROVE  IInv'
BY TypeKept, AttendedKept, WrittenKept, OrderKept, ExactKept DEF IInv

(* The inductive invariant holds in every reachable state.                 *)
THEOREM Invariance == Spec => []IInv
<1> QED BY InitHolds, StepKeeps, PTL DEF Spec

(* Types are kept.                                                         *)
THEOREM TypeCorrect == Spec => []TypeOK
<1>1. IInv => TypeOK
  BY DEF IInv
<1> QED BY Invariance, <1>1, PTL

(* What an open connection loses was said while somebody's flush was       *)
(* waiting (Client.flush).                                                 *)
THEOREM NothingElseIsLost == Spec => []KeptUntilWritten
<1>1. IInv => KeptUntilWritten
  BY DEF IInv
<1> QED BY Invariance, <1>1, PTL

(* Nothing appears for the first time after something said later, however  *)
(* many flushes overlap.                                                   *)
THEOREM SeenInOrder == Spec => []FirstSeenInOrder
<1>1. IInv => FirstSeenInOrder
  BY DEF IInv
<1> QED BY Invariance, <1>1, PTL

(* What is in the buffer of an open connection will be flushed by whoever  *)
(* put it there, unless that was a thread or has failed since              *)
(* (send_proto_message, dispatch, emit_task_progress).                     *)
THEOREM EveryReplyHasAFlush == Spec => []BufferedHasFlusher
<1>1. IInv => BufferedHasFlusher
  BY DEF IInv
<1> QED BY Invariance, <1>1, PTL

(* Flushes that are not disturbed deliver everything once and in order.    *)
THEOREM DeliversExactly == Spec => []UndisturbedIsExact
<1>1. IInv => UndisturbedIsExact
  <2> SUFFICES ASSUME IInv, exposed = {}, ~overlap, \A t \in Task : ~Flushing(t)
               PROVE  /\ \A i \in DOMAIN wire : wire[i] = i
                      /\ ~closed => Len(wire) + Len(buffer) = n
    BY Zenon DEF UndisturbedIsExact
  <2>1. ~Flows
    BY Zenon DEF Flows
  <2> QED BY <2>1, Zenon DEF IInv, Exact
<1> QED BY Invariance, <1>1, PTL

-----------------------------------------------------------------------------
(* The way in: no packet is lost, repeated or overtaken, nothing is        *)
(* handled after the connection is closed, and the connection implements   *)
(* PacketOrder (its safety part; liveness is model-checked).               *)

(* How many packets the reader holds in its hand.                          *)
InHand == IF reader = "put" THEN 1 ELSE 0

(* PacketsInOrder in a form that is easy to carry through a step: the      *)
(* counters account for every packet, and the queue is a run of numbers.   *)
Accounted == packets + Len(queue) + InHand = read
Consecutive == \A i \in 1..Len(queue) : queue[i] = packets + i

ClosedIsDead == isClosed => dispatcher = "dead"

Counting == DataType /\ Accounted /\ Consecutive
Flags == FlagType /\ ClosedIsDead

InboundInv == Counting /\ Flags

-----------------------------------------------------------------------------
(* It holds at first.                                                      *)
LEMMA InitInbound == InboundInit => InboundInv
<1> SUFFICES ASSUME InboundInit PROVE InboundInv
  OBVIOUS
<1>1. queue \in Seq(Nat) /\ Len(queue) = 0
  <2>1. <<>> \in Seq(Nat) /\ Len(<<>>) = 0
    BY EmptySeq
  <2> QED BY <2>1 DEF InboundInit
<1>2. DataType /\ Accounted /\ Consecutive
  BY <1>1, CapacityAssumption, MaxPacketsAssumption
     DEF InboundInit, DataType, Accounted, Consecutive, InHand
<1>3. FlagType /\ ClosedIsDead
  BY Zenon DEF InboundInit, FlagType, ClosedIsDead
<1> QED BY <1>2, <1>3 DEF InboundInv, Counting, Flags

(* The flags: every step writes TRUE or FALSE, and what closes the client  *)
(* cancels its dispatcher.                                                 *)
LEMMA FlagsPreserved == Flags /\ [InboundNext]_inbound => Flags'
<1> SUFFICES ASSUME Flags, [InboundNext]_inbound PROVE Flags'
  OBVIOUS
<1> USE DEF Flags, FlagType, ClosedIsDead, peer
<1>0. CASE PeerSends
  BY <1>0, Zenon DEF PeerSends
<1>1. CASE PeerHangsUp
  BY <1>1, Zenon DEF PeerHangsUp
<1>2. CASE ReaderReads
  BY <1>2, Zenon DEF ReaderReads, NextIteration, LeaveLoop
<1>3. CASE ReaderPuts
  BY <1>3, Zenon DEF ReaderPuts, NextIteration, LeaveLoop
<1>4. CASE ReaderBreaks
  BY <1>4, Zenon DEF ReaderBreaks, LeaveLoop
<1>9. CASE ReaderMeetsEOF
  BY <1>9, Zenon DEF ReaderMeetsEOF, LeaveLoop
<1>5. CASE CloseTask \/ Disconnect \/ HandlerFails
  BY <1>5, Zenon DEF CloseTask, Disconnect, HandlerFails, Close
<1>6. CASE DispatcherGets
  BY <1>6, Zenon DEF DispatcherGets
<1>7. CASE HandlerReturns
  BY <1>7 DEF HandlerReturns
<1>8. CASE UNCHANGED inbound
  BY <1>8, Zenon DEF inbound
<1> QED
  BY <1>0, <1>1, <1>2, <1>3, <1>4, <1>5, <1>6, <1>7, <1>8, <1>9, Zenon
     DEF InboundNext, Reader, DispatchLoop

(* The two places where a packet enters the queue.                         *)
LEMMA AppendKeepsOrder ==
  ASSUME Counting, queue' = Append(queue, packets + Len(queue) + 1),
         packets' = packets
  PROVE  /\ queue' \in Seq(Nat) /\ Len(queue') = Len(queue) + 1
         /\ Consecutive'
<1>1. /\ queue \in Seq(Nat) /\ Len(queue) \in Nat /\ packets \in Nat
      /\ packets + Len(queue) + 1 \in Nat
  BY LenProperties DEF Counting, DataType
<1>2. /\ queue' \in Seq(Nat)
      /\ Len(queue') = Len(queue) + 1
      /\ \A i \in 1..Len(queue) : queue'[i] = queue[i]
      /\ queue'[Len(queue) + 1] = packets + Len(queue) + 1
  BY <1>1, AppendProperties
<1>3. Consecutive'
  <2> SUFFICES ASSUME NEW i \in 1..Len(queue') PROVE queue'[i] = packets + i
    BY DEF Consecutive
  <2>1. i \in 1..Len(queue) \/ i = Len(queue) + 1
    BY <1>1, <1>2
  <2> QED BY <1>1, <1>2, <2>1 DEF Counting, Consecutive
<1> QED BY <1>2, <1>3

(* The steps that move a packet keep the counters and the run of numbers.  *)
LEMMA ReaderReadsCounting == Counting /\ ReaderReads => Counting'
<1> SUFFICES ASSUME Counting, ReaderReads PROVE Counting'
  OBVIOUS
<1>0. /\ read = packets + Len(queue) /\ reader = "reading"
      /\ Len(queue) \in Nat /\ packets \in Nat
      /\ read' = read + 1 /\ packets' = packets /\ sent' = sent
      /\ dispatcher' = dispatcher
  BY LenProperties DEF Counting, DataType, Accounted, InHand, ReaderReads, peer
<1>1. CASE Len(queue) < Capacity
  <2>1. queue' = Append(queue, read + 1) /\ reader' \in {"reading", "done"}
    BY <1>1 DEF ReaderReads, NextIteration, LeaveLoop
  <2>2. /\ queue' \in Seq(Nat) /\ Len(queue') = Len(queue) + 1
        /\ Consecutive'
    BY <1>0, <2>1, AppendKeepsOrder
  <2> QED
    BY <1>0, <1>1, <2>1, <2>2, CapacityAssumption
       DEF Counting, DataType, Accounted, InHand
<1>2. CASE ~(Len(queue) < Capacity)
  <2>1. queue' = queue /\ reader' = "put"
    BY <1>2 DEF ReaderReads
  <2> QED
    BY <1>0, <2>1 DEF Counting, DataType, Accounted, Consecutive, InHand
<1> QED BY <1>1, <1>2

(* The same for a put that has waited,                                     *)
LEMMA ReaderPutsCounting == Counting /\ ReaderPuts => Counting'
<1> SUFFICES ASSUME Counting, ReaderPuts PROVE Counting'
  OBVIOUS
<1>1. /\ read = packets + Len(queue) + 1
      /\ Len(queue) \in Nat /\ packets \in Nat
      /\ read' = read /\ packets' = packets /\ sent' = sent
      /\ dispatcher' = dispatcher /\ queue' = Append(queue, read)
      /\ Len(queue) < Capacity
  BY LenProperties DEF Counting, DataType, Accounted, InHand, ReaderPuts, peer
<1>2. reader' \in {"reading", "done"}
  BY DEF ReaderPuts, NextIteration, LeaveLoop
<1>3. /\ queue' \in Seq(Nat) /\ Len(queue') = Len(queue) + 1
      /\ Consecutive'
  BY <1>1, AppendKeepsOrder
<1> QED
  BY <1>1, <1>2, <1>3, CapacityAssumption
     DEF Counting, DataType, Accounted, InHand

(* and for the packet that is taken out.                                   *)
LEMMA DispatcherGetsCounting == Counting /\ DispatcherGets => Counting'
<1> SUFFICES ASSUME Counting, DispatcherGets PROVE Counting'
  OBVIOUS
<1>1. /\ Len(queue) \in Nat /\ packets \in Nat
      /\ queue \in Seq(Nat) /\ queue # <<>>
      /\ queue' = Tail(queue) /\ packets' = packets + 1 /\ read' = read
      /\ reader' = reader /\ sent' = sent /\ dispatcher' = "busy"
  BY LenProperties DEF Counting, DataType, DispatcherGets, peer
<1>2. /\ queue' \in Seq(Nat) /\ Len(queue') = Len(queue) - 1
      /\ \A i \in 1..Len(queue') : queue'[i] = queue[i + 1]
  BY <1>1, HeadTailProperties
<1>3. Consecutive'
  <2> SUFFICES ASSUME NEW i \in 1..Len(queue') PROVE queue'[i] = packets' + i
    BY DEF Consecutive
  <2>1. i + 1 \in 1..Len(queue)
    BY <1>1, <1>2
  <2> QED BY <1>1, <1>2, <2>1 DEF Counting, Consecutive
<1> QED
  BY <1>1, <1>2, <1>3, CapacityAssumption
     DEF Counting, DataType, Accounted, InHand

(* Every other step leaves the queue and its counters alone.               *)
LEMMA OthersCounting == Counting /\ [InboundNext]_inbound
    => ReaderReads \/ ReaderPuts \/ DispatcherGets \/ Counting'
<1> SUFFICES ASSUME Counting, [InboundNext]_inbound,
                    ~(ReaderReads \/ ReaderPuts \/ DispatcherGets)
             PROVE  Counting'
  OBVIOUS
<1>1. UNCHANGED <<read, queue, packets>>
  BY DEF InboundNext, Reader, DispatchLoop, PeerSends, PeerHangsUp, ReaderBreaks,
         ReaderMeetsEOF, CloseTask, Disconnect, HandlerReturns, HandlerFails, inbound
<1>2. sent' \in 0..MaxPackets
  BY MaxPacketsAssumption
     DEF Counting, DataType, InboundNext, Reader, DispatchLoop, PeerSends, PeerHangsUp,
         ReaderBreaks, ReaderMeetsEOF, CloseTask, Disconnect, HandlerReturns,
         HandlerFails, inbound, peer
<1>3. reader' \in {"reading", "put", "done"} /\ (reader' = "put" <=> reader = "put")
  BY DEF Counting, DataType, InboundNext, Reader, DispatchLoop, PeerSends, PeerHangsUp,
         ReaderBreaks, ReaderMeetsEOF, LeaveLoop, CloseTask, Disconnect,
         HandlerReturns, HandlerFails, inbound
<1>4. dispatcher' \in {"get", "busy", "dead"}
  BY DEF Counting, DataType, InboundNext, Reader, DispatchLoop, PeerSends, PeerHangsUp,
         ReaderBreaks, ReaderMeetsEOF, CloseTask, Disconnect, Close,
         HandlerReturns, HandlerFails, inbound
<1> QED
  BY <1>1, <1>2, <1>3, <1>4 DEF Counting, DataType, Accounted, Consecutive, InHand

(* Every step keeps it.                                                    *)
LEMMA NextInbound == InboundInv /\ [InboundNext]_inbound => InboundInv'
BY FlagsPreserved, ReaderReadsCounting, ReaderPutsCounting,
   DispatcherGetsCounting, OthersCounting DEF InboundInv

(* It implies that nothing is lost, repeated or overtaken.                 *)
LEMMA InboundImpliesOrder == InboundInv => PacketsInOrder
<1> SUFFICES ASSUME InboundInv PROVE PacketsInOrder
  OBVIOUS
<1> USE DEF InboundInv, Counting, DataType, Accounted, Consecutive, InHand
<1>1. CASE reader # "put"
  <2>1. Unhandled = queue /\ DOMAIN queue = 1..Len(queue)
    BY <1>1 DEF Unhandled
  <2> QED BY <1>1, <2>1 DEF PacketsInOrder
<1>2. CASE reader = "put"
  <2>1. /\ Unhandled \in Seq(Nat)
        /\ Len(Unhandled) = Len(queue) + 1
        /\ DOMAIN Unhandled = 1..(Len(queue) + 1)
        /\ \A i \in 1..Len(queue) : Unhandled[i] = queue[i]
        /\ Unhandled[Len(queue) + 1] = read
    BY <1>2, AppendProperties DEF Unhandled
  <2>2. read = packets + Len(queue) + 1 /\ Len(queue) \in Nat
    BY <1>2, LenProperties
  <2>3. ASSUME NEW i \in DOMAIN Unhandled PROVE Unhandled[i] = packets + i
    <3>1. CASE i = Len(queue) + 1
      BY <2>1, <2>2, <3>1
    <3>2. CASE i \in 1..Len(queue)
      <4>1. Unhandled[i] = queue[i]
        BY <2>1, <3>2
      <4> QED BY <3>2, <4>1
    <3> QED BY <2>1, <2>2, <2>3, <3>1, <3>2
  <2> QED BY <2>1, <2>2, <2>3 DEF PacketsInOrder
<1> QED BY <1>1, <1>2

-----------------------------------------------------------------------------
(* It holds always.                                                        *)
LEMMA InboundInvariance == InboundSafeSpec => []InboundInv
<1> QED BY InitInbound, NextInbound, PTL DEF InboundSafeSpec

(* The values the connection's state takes, for every capacity.            *)
THEOREM InboundTypeCorrect == InboundSpec => []InboundTypeOK
<1>1. InboundInv => InboundTypeOK
  BY DEF InboundInv, Counting, Flags, InboundTypeOK
<1> QED BY InboundInvariance, <1>1, PTL DEF InboundSpec

(* No packet is lost, repeated or overtaken on its way from the stream to  *)
(* its handler (the reader's enqueue_packet, the dispatcher's queue.get).  *)
THEOREM PacketsKept == InboundSpec => []PacketsInOrder
BY InboundInvariance, InboundImpliesOrder, PTL DEF InboundSpec

(* Client.close stops the connection's handlers for good.                  *)
THEOREM CloseIsFinal == InboundSpec => NothingHandledAfterClose
<1>1. InboundInv /\ [InboundNext]_inbound => [isClosed => UNCHANGED <<packets, dispatcher>>]_inbound
  <2> SUFFICES ASSUME InboundInv, InboundNext, isClosed PROVE UNCHANGED <<packets, dispatcher>>
    OBVIOUS
  <2>1. dispatcher = "dead"
    BY DEF InboundInv, Flags, ClosedIsDead
  <2> QED
    BY <2>1 DEF InboundNext, PeerSends, PeerHangsUp, Reader, ReaderReads, ReaderPuts,
         ReaderBreaks, ReaderMeetsEOF, CloseTask, Disconnect, DispatchLoop,
         DispatcherGets, HandlerReturns, HandlerFails, Close
<1> QED BY InboundInvariance, <1>1, PTL DEF InboundSpec, InboundSafeSpec, NothingHandledAfterClose

(* Every step of a connection is a step of PacketOrder or changes none of  *)
(* its variables.                                                          *)
THEOREM Refinement == InboundSpec => Order!SafeSpec
<1>1. InboundInit => Order!Init
  BY DEF InboundInit, Order!Init
<1>2. InboundInv /\ [InboundNext]_inbound => [Order!Next]_(Order!vars)
  <2> SUFFICES ASSUME InboundInv, [InboundNext]_inbound PROVE [Order!Next]_(Order!vars)
    OBVIOUS
  <2> USE DEF Order!Next, Order!vars
  <2>1. CASE ReaderReads
    BY <2>1 DEF ReaderReads, Order!Accept
  <2>2. CASE DispatcherGets
    <3>1. packets < read
      BY <2>2 DEF DispatcherGets, InboundInv, Counting, DataType, Accounted, InHand
    <3> QED BY <2>2, <3>1 DEF DispatcherGets, Order!Handle
  <2>3. CASE CloseTask \/ Disconnect \/ HandlerFails
    BY <2>3 DEF CloseTask, Disconnect, HandlerFails, Close, Order!Stop
  <2>4. CASE \/ PeerSends \/ PeerHangsUp \/ ReaderPuts \/ ReaderBreaks
             \/ ReaderMeetsEOF \/ HandlerReturns \/ UNCHANGED inbound
    BY <2>4 DEF PeerSends, PeerHangsUp, ReaderPuts, ReaderBreaks,
         ReaderMeetsEOF, HandlerReturns, inbound
  <2> QED BY <2>1, <2>2, <2>3, <2>4 DEF InboundNext, Reader, DispatchLoop
<1> QED BY InboundInvariance, <1>1, <1>2, PTL DEF InboundSpec, InboundSafeSpec, Order!SafeSpec

=============================================================================
