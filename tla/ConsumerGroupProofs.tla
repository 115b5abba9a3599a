------------------------- MODULE ConsumerGroupProofs -------------------------
(***************************************************************************)
(* For every set of deliveries, number of read loops and bounds: nothing   *)
(* is lost between the stream and ProcessJob.                              *)
(***************************************************************************)
EXTENDS ConsumerGroup, TLAPS

\* Ids are never given out twice, so an id names one entry, in the stream as
\* well as in the hands of a loop.
IdsInv ==
    /\ \A e \in stream : e.id < nextEntry
    /\ \A e, f \in stream : e.id = f.id => e = f
    /\ \A c \in Consumer : \A e \in cons[c].batch : e.id < nextEntry
    /\ \A c \in Consumer : \A e \in cons[c].batch :
          \A f \in stream \cup cons[c].batch : e.id = f.id => e = f
    /\ lastDelivered < nextEntry

\* A loop that is about to acknowledge has settled the first entry it holds.
AckInv ==
    \A c \in Consumer : cons[c].pc = "ack" =>
        \A e \in cons[c].batch :
            (\A f \in cons[c].batch : e.id <= f.id) => e \in settled

IInv == TypeOK /\ IdsInv /\ AckInv /\ NoDeliveryLost

-----------------------------------------------------------------------------
\* What a loop holds after a step that gives it a batch and a cursor.
LEMMA WithType ==
    ASSUME NEW c \in Consumer, cons[c] \in Loop, NEW B \in SUBSET Entry, NEW k \in Nat
    PROVE  /\ With(c, B, k) \in Loop
           /\ With(c, B, k).batch = B
           /\ With(c, B, k).pc # "ack"
<1>1. CASE B = {}
  <2>1. PICK p \in {"read", "top"} : p = IF cons[c].due THEN "read" ELSE "top"
    OBVIOUS
  <2>2. With(c, B, k) = [pc |-> p, due |-> FALSE, cursor |-> k, batch |-> B]
    BY <1>1, <2>1 DEF With
  <2>3. p \in {"down", "top", "read", "handle", "ack"} /\ p # "ack"
    OBVIOUS
  <2>4. [pc |-> p, due |-> FALSE, cursor |-> k, batch |-> B] \in Loop
    BY <2>3 DEF Loop
  <2>. QED  BY <2>2, <2>3, <2>4
<1>2. CASE B # {}
  <2>1. PICK due \in BOOLEAN : due = cons[c].due
    BY DEF Loop
  <2>2. With(c, B, k) = [pc |-> "handle", due |-> due, cursor |-> k, batch |-> B]
    BY <1>2, <2>1 DEF With
  <2>3. [pc |-> "handle", due |-> due, cursor |-> k, batch |-> B] \in Loop
    BY DEF Loop
  <2>. QED  BY <2>2, <2>3
<1>. QED  BY <1>1, <1>2

\* The cursor of the next scan is an id or 0.
LEMMA CursorType ==
    ASSUME NEW c \in Consumer, TypeOK
    PROVE  NextCursor(c) \subseteq Nat
<1>. DEFINE rest == { id \in pel : \A k \in Claimed(c) : k < id }
            first == { id \in rest : \A k \in rest : id <= k }
<1>1. first \subseteq Nat
  BY DEF TypeOK
<1>2. NextCursor(c) = {0} \/ NextCursor(c) = first
  BY DEF NextCursor
<1>. QED  BY <1>1, <1>2

\* A step that only replaces what one loop holds, by entries of the stream or by
\* a part of what it held, keeps the invariants about the loops.
LEMMA BatchStep ==
    ASSUME TypeOK, IdsInv, AckInv,
           NEW c \in Consumer,
           NEW B \in SUBSET (stream \cup cons[c].batch), NEW k \in Nat,
           cons' = [cons EXCEPT ![c] = With(c, B, k)],
           UNCHANGED <<stream, nextEntry, settled>>
    PROVE  /\ cons' \in [Consumer -> Loop]
           /\ lastDelivered' < nextEntry => IdsInv'
           /\ AckInv'
<1>1. cons[c] \in Loop /\ stream \subseteq Entry
  BY DEF TypeOK
<1>2. B \in SUBSET Entry
  BY <1>1 DEF Loop
<1>3. With(c, B, k) \in Loop /\ With(c, B, k).batch = B /\ With(c, B, k).pc # "ack"
  BY <1>1, <1>2, WithType
<1>4. cons'[c] = With(c, B, k) /\ \A d \in Consumer : d # c => cons'[d] = cons[d]
  BY DEF TypeOK
<1>5. cons' \in [Consumer -> Loop]
  BY <1>3 DEF TypeOK
<1>6. ASSUME lastDelivered' < nextEntry PROVE IdsInv'
  <2>1. \A e \in B : e.id < nextEntry
    BY DEF IdsInv
  <2>2. \A e \in B : \A f \in stream \cup B : e.id = f.id => e = f
    BY DEF IdsInv
  <2>. QED  BY <1>3, <1>4, <1>6, <2>1, <2>2 DEF IdsInv
<1>7. AckInv'
  BY <1>3, <1>4 DEF AckInv
<1>. QED  BY <1>5, <1>6, <1>7

-----------------------------------------------------------------------------
LEMMA InitIInv == Init => IInv
<1>. SUFFICES ASSUME Init PROVE IInv
  OBVIOUS
<1>1. Stopped \in Loop
  BY DEF Stopped, Loop
<1>2. TypeOK
  <2>1. 0 \in 0 .. MaxLosses /\ 0 \in 0 .. MaxFaults
    BY ConsumerAssumption DEF ConsumerAssumption
  <2>2. cons \in [Consumer -> Loop]
    BY <1>1 DEF Init
  <2>3. stream \subseteq Entry /\ settled \subseteq [id: Nat \ {0}, body: Delivery]
    BY DEF Init
  <2>4. pel \subseteq Nat \ {0} /\ idle \subseteq pel
    BY DEF Init
  <2>5. /\ nextEntry \in Nat \ {0} /\ lastDelivered \in Nat
        /\ losses = 0 /\ faults = 0
    BY DEF Init
  <2>6. group \in BOOLEAN
    <3>1. group = FALSE
      BY DEF Init
    <3>. QED  BY <3>1
  <2>7. losses \in 0 .. MaxLosses /\ faults \in 0 .. MaxFaults
    BY <2>1, <2>5
  <2>. QED  BY <2>2, <2>3, <2>4, <2>5, <2>6, <2>7 DEF TypeOK
<1>3. IdsInv /\ AckInv
  BY DEF Init, IdsInv, AckInv, Stopped
<1>. QED  BY <1>2, <1>3 DEF IInv, Init, NoDeliveryLost

LEMMA PublishIInv ==
    ASSUME IInv, NEW body \in Delivery \cup {Malformed}, Publish(body)
    PROVE  IInv'
<1>. DEFINE e == [id |-> nextEntry, body |-> body]
<1>. USE DEF IInv, Publish
<1>1. e \in Entry /\ e.id = nextEntry
  BY DEF TypeOK, Entry
<1>. HIDE DEF e
<1>2. stream' = stream \cup {e}
  BY DEF e
<1>3. TypeOK'
  BY <1>1, <1>2 DEF TypeOK
<1>4. \A f \in stream : f.id \in Nat /\ f.id < nextEntry /\ f.id # e.id
  BY <1>1 DEF TypeOK, IdsInv, Entry
<1>5. \A c \in Consumer : \A f \in cons[c].batch :
          f.id \in Nat /\ f.id < nextEntry /\ f.id # e.id
  BY <1>1 DEF TypeOK, IdsInv, Entry, Loop
<1>6. IdsInv'
  BY <1>1, <1>2, <1>4, <1>5 DEF IdsInv, TypeOK
<1>7. AckInv'
  BY DEF AckInv
<1>8. NoDeliveryLost'
  BY <1>1, <1>2 DEF NoDeliveryLost, IdsInv, TypeOK
<1>. QED  BY <1>3, <1>6, <1>7, <1>8

LEMMA LoseStreamIInv == ASSUME IInv, LoseStream PROVE IInv'
<1>. USE DEF IInv, LoseStream
<1>1. TypeOK'
  <2>1. losses' \in 0 .. MaxLosses
    BY ConsumerAssumption DEF ConsumerAssumption, TypeOK
  <2>. QED  BY <2>1 DEF TypeOK
<1>2. IdsInv'
  BY DEF IdsInv, TypeOK
<1>3. AckInv' /\ NoDeliveryLost'
  BY DEF AckInv, NoDeliveryLost
<1>. QED  BY <1>1, <1>2, <1>3

LEMMA IdleGrowsIInv == ASSUME IInv, NEW id \in pel, IdleGrows(id) PROVE IInv'
BY DEF IInv, IdleGrows, TypeOK, IdsInv, AckInv, NoDeliveryLost

\* A loop that starts or stops holds nothing.
LEMMA EmptyStep ==
    ASSUME TypeOK, IdsInv, AckInv, NEW c \in Consumer, NEW L \in Loop,
           L.batch = {}, L.pc # "ack", cons' = [cons EXCEPT ![c] = L],
           UNCHANGED <<stream, nextEntry, settled>>
    PROVE  /\ cons' \in [Consumer -> Loop]
           /\ lastDelivered' < nextEntry => IdsInv'
           /\ AckInv'
<1>1. cons'[c] = L /\ \A d \in Consumer : d # c => cons'[d] = cons[d]
  BY DEF TypeOK
<1>2. cons' \in [Consumer -> Loop]
  BY DEF TypeOK
<1>3. lastDelivered' < nextEntry => IdsInv'
  BY <1>1 DEF IdsInv
<1>4. AckInv'
  BY <1>1 DEF AckInv
<1>. QED  BY <1>2, <1>3, <1>4

LEMMA BootIInv == ASSUME IInv, NEW c \in Consumer, Boot(c) PROVE IInv'
<1>. DEFINE L == [pc |-> "top", due |-> TRUE, cursor |-> 0, batch |-> {}]
<1>. USE DEF IInv, Boot
<1>1. L \in Loop /\ L.batch = {} /\ L.pc # "ack"
  BY DEF Loop
<1>. HIDE DEF L
<1>2. cons' = [cons EXCEPT ![c] = L]
  BY DEF L
<1>3. lastDelivered' \in Nat /\ lastDelivered' < nextEntry /\ lastDelivered' <= lastDelivered
  BY DEF TypeOK, IdsInv, FirstDelivered
<1>4. cons' \in [Consumer -> Loop] /\ IdsInv' /\ AckInv'
  BY <1>1, <1>2, <1>3, EmptyStep
<1>5. TypeOK'
  BY <1>3, <1>4 DEF TypeOK
<1>6. NoDeliveryLost'
  BY <1>3 DEF NoDeliveryLost, TypeOK, Entry
<1>. QED  BY <1>4, <1>5, <1>6

LEMMA ExitIInv == ASSUME IInv, NEW c \in Consumer, Exit(c) PROVE IInv'
<1>. USE DEF IInv, Exit
<1>1. Stopped \in Loop /\ Stopped.batch = {} /\ Stopped.pc # "ack"
  BY DEF Loop, Stopped
<1>2. cons' \in [Consumer -> Loop] /\ IdsInv' /\ AckInv'
  BY <1>1, EmptyStep DEF IdsInv
<1>3. TypeOK'
  BY <1>2, ConsumerAssumption DEF ConsumerAssumption, TypeOK, Fault
<1>4. NoDeliveryLost'
  BY DEF NoDeliveryLost
<1>. QED  BY <1>2, <1>3, <1>4

\* Steps that move a loop and keep what it holds.
LEMMA PcStep ==
    ASSUME TypeOK, NEW c \in Consumer, NEW pc \in {"top", "ack"},
           cons' = [cons EXCEPT ![c].pc = pc]
    PROVE  /\ cons' \in [Consumer -> Loop]
           /\ \A d \in Consumer : cons'[d].batch = cons[d].batch
           /\ cons'[c].pc = pc
           /\ \A d \in Consumer : d # c => cons'[d] = cons[d]
BY DEF TypeOK, Loop

LEMMA RecoveryDueIInv == ASSUME IInv, NEW c \in Consumer, RecoveryDue(c) PROVE IInv'
<1>. USE DEF IInv, RecoveryDue
<1>1. /\ cons' \in [Consumer -> Loop]
      /\ \A d \in Consumer : cons'[d].batch = cons[d].batch /\ cons'[d].pc = cons[d].pc
  BY DEF TypeOK, Loop
<1>2. TypeOK'
  BY <1>1 DEF TypeOK
<1>3. IdsInv' /\ AckInv' /\ NoDeliveryLost'
  BY <1>1 DEF IdsInv, AckInv, NoDeliveryLost
<1>. QED  BY <1>2, <1>3

-----------------------------------------------------------------------------
LEMMA RecoverIInv == ASSUME IInv, NEW c \in Consumer, Recover(c) PROVE IInv'
<1>. DEFINE B == { e \in stream : e.id \in Claimed(c) }
<1>. USE DEF IInv, Recover
<1>1. PICK S \in SUBSET stream, k \in Nat : cons' = [cons EXCEPT ![c] = With(c, S, k)]
  <2>1. CASE group
    <3>1. PICK next \in NextCursor(c) : cons' = [cons EXCEPT ![c] = With(c, B, next)]
      BY <2>1
    <3>2. next \in Nat
      BY CursorType
    <3>. QED  BY <3>1, <3>2
  <2>2. CASE ~group
    <3>1. cons[c].cursor \in Nat
      BY DEF TypeOK, Loop
    <3>2. cons' = [cons EXCEPT ![c] = With(c, {}, cons[c].cursor)]
      BY <2>2
    <3>. QED  BY <3>1, <3>2
  <2>. QED  BY <2>1, <2>2
<1>2. cons' \in [Consumer -> Loop] /\ IdsInv' /\ AckInv'
  BY <1>1, BatchStep DEF IdsInv
<1>3. TypeOK'
  BY <1>2 DEF TypeOK
<1>4. NoDeliveryLost'
  BY DEF NoDeliveryLost
<1>. QED  BY <1>2, <1>3, <1>4

LEMMA RecoverReplyLostIInv ==
    ASSUME IInv, NEW c \in Consumer, RecoverReplyLost(c) PROVE IInv'
<1>. USE DEF IInv, RecoverReplyLost
<1>1. cons[c].cursor \in Nat
  BY DEF TypeOK, Loop
<1>2. cons' \in [Consumer -> Loop] /\ IdsInv' /\ AckInv'
  BY <1>1, BatchStep DEF IdsInv
<1>3. TypeOK'
  <2>1. faults' \in 0 .. MaxFaults
    BY ConsumerAssumption DEF ConsumerAssumption, TypeOK, Fault
  <2>2. idle' \subseteq pel'
    BY DEF TypeOK
  <2>. QED  BY <1>2, <2>1, <2>2 DEF TypeOK
<1>4. NoDeliveryLost'
  BY DEF NoDeliveryLost
<1>. QED  BY <1>2, <1>3, <1>4

\* What Redis hands out is pending from then on, and nothing is skipped.
LEMMA DeliverStep ==
    ASSUME IInv, NEW e \in Undelivered, Deliver(e), UNCHANGED <<stream, nextEntry, settled>>
    PROVE  /\ e \in stream
           /\ lastDelivered' \in Nat
           /\ lastDelivered' < nextEntry
           /\ pel' \subseteq Nat \ {0} /\ pel \subseteq pel'
           /\ NoDeliveryLost'
<1>. USE DEF IInv
<1>1. /\ e \in stream /\ e.id > lastDelivered
      /\ \A f \in stream : f.id > lastDelivered => e.id <= f.id
  BY DEF Undelivered
<1>2. \A f \in stream : f.id \in Nat \ {0} /\ f.id < nextEntry
  BY DEF TypeOK, IdsInv, Entry
<1>3. lastDelivered' = e.id /\ pel' = pel \cup {e.id}
  BY DEF Deliver
<1>4. NoDeliveryLost'
  <2>. SUFFICES ASSUME NEW f \in stream, f.id > lastDelivered
                PROVE  f.id > e.id \/ f.id = e.id
    BY <1>1, <1>2, <1>3 DEF NoDeliveryLost
  <2>. QED  BY <1>1, <1>2
<1>. QED  BY <1>1, <1>2, <1>3, <1>4 DEF TypeOK

LEMMA ReadIInv == ASSUME IInv, NEW c \in Consumer, Read(c) PROVE IInv'
<1>. USE DEF IInv
<1>1. PICK e \in Undelivered :
          Deliver(e) /\ cons' = [cons EXCEPT ![c] = With(c, {e}, cons[c].cursor)]
  BY DEF Read
<1>2. UNCHANGED <<stream, nextEntry, group, idle, settled, losses, faults>>
  BY DEF Read
<1>3. /\ e \in stream /\ lastDelivered' \in Nat /\ lastDelivered' < nextEntry
      /\ pel' \subseteq Nat \ {0} /\ pel \subseteq pel' /\ NoDeliveryLost'
  BY <1>1, <1>2, DeliverStep
<1>4. cons[c].cursor \in Nat
  BY DEF TypeOK, Loop
<1>5. cons' \in [Consumer -> Loop] /\ IdsInv' /\ AckInv'
  BY <1>1, <1>2, <1>3, <1>4, BatchStep
<1>6. TypeOK'
  BY <1>2, <1>3, <1>5 DEF TypeOK
<1>. QED  BY <1>3, <1>5, <1>6

LEMMA ReadNothingIInv == ASSUME IInv, NEW c \in Consumer, ReadNothing(c) PROVE IInv'
<1>. USE DEF IInv, ReadNothing
<1>1. /\ cons' \in [Consumer -> Loop]
      /\ \A d \in Consumer : cons'[d].batch = cons[d].batch
      /\ cons'[c].pc = "top"
      /\ \A d \in Consumer : d # c => cons'[d] = cons[d]
  BY PcStep
<1>2. TypeOK'
  BY <1>1 DEF TypeOK
<1>3. IdsInv' /\ AckInv' /\ NoDeliveryLost'
  BY <1>1 DEF IdsInv, AckInv, NoDeliveryLost
<1>. QED  BY <1>2, <1>3

LEMMA ReadReplyLostIInv == ASSUME IInv, NEW c \in Consumer, ReadReplyLost(c) PROVE IInv'
<1>. USE DEF IInv
<1>1. PICK e \in Undelivered : Deliver(e)
  BY DEF ReadReplyLost
<1>2. /\ UNCHANGED <<stream, nextEntry, group, idle, settled, losses>>
      /\ cons' = [cons EXCEPT ![c].pc = "top"] /\ Fault
  BY DEF ReadReplyLost
<1>3. /\ lastDelivered' \in Nat /\ lastDelivered' < nextEntry
      /\ pel' \subseteq Nat \ {0} /\ pel \subseteq pel' /\ NoDeliveryLost'
  BY <1>1, <1>2, DeliverStep
<1>4. /\ cons' \in [Consumer -> Loop]
      /\ \A d \in Consumer : cons'[d].batch = cons[d].batch
      /\ cons'[c].pc = "top"
      /\ \A d \in Consumer : d # c => cons'[d] = cons[d]
  BY <1>2, PcStep
<1>5. TypeOK'
  BY <1>2, <1>3, <1>4, ConsumerAssumption DEF ConsumerAssumption, TypeOK, Fault
<1>6. IdsInv' /\ AckInv'
  BY <1>2, <1>3, <1>4 DEF IdsInv, AckInv
<1>. QED  BY <1>3, <1>5, <1>6

-----------------------------------------------------------------------------
LEMMA RetainIInv ==
    ASSUME IInv, NEW c \in Consumer, NEW e \in cons[c].batch, Retain(c, e) PROVE IInv'
<1>. USE DEF IInv, Retain
<1>1. cons[c].cursor \in Nat
  BY DEF TypeOK, Loop
<1>2. cons' \in [Consumer -> Loop] /\ IdsInv' /\ AckInv'
  BY <1>1, BatchStep DEF IdsInv
<1>3. TypeOK' /\ NoDeliveryLost'
  BY <1>2 DEF TypeOK, NoDeliveryLost
<1>. QED  BY <1>2, <1>3

LEMMA ProcessOkIInv ==
    ASSUME IInv, NEW c \in Consumer, NEW e \in cons[c].batch, ProcessOk(c, e) PROVE IInv'
<1>. USE DEF IInv, ProcessOk
<1>1. /\ cons' \in [Consumer -> Loop]
      /\ \A d \in Consumer : cons'[d].batch = cons[d].batch
      /\ cons'[c].pc = "ack"
      /\ \A d \in Consumer : d # c => cons'[d] = cons[d]
  BY PcStep
<1>2. e \in Entry /\ e.body # Malformed
  BY DEF TypeOK, Loop, Parsed
<1>3. TypeOK'
  <2>1. e \in [id: Nat \ {0}, body: Delivery]
    BY <1>2 DEF Entry
  <2>. QED  BY <1>1, <2>1 DEF TypeOK
<1>4. IdsInv' /\ NoDeliveryLost'
  BY <1>1 DEF IdsInv, NoDeliveryLost
<1>5. AckInv'
  <2>1. ASSUME NEW x \in cons[c].batch, \A f \in cons[c].batch : x.id <= f.id
        PROVE  x = e
    <3>1. x.id <= e.id /\ e.id <= x.id
      BY <2>1 DEF Handling
    <3>2. x.id \in Nat /\ e.id \in Nat
      BY DEF TypeOK, Loop, Entry
    <3>3. x.id = e.id
      BY <3>1, <3>2
    <3>. QED  BY <3>3 DEF IdsInv
  <2>. QED  BY <1>1, <2>1 DEF AckInv
<1>. QED  BY <1>3, <1>4, <1>5

LEMMA AckIInv ==
    ASSUME IInv, NEW c \in Consumer, NEW e \in cons[c].batch, Ack(c, e) PROVE IInv'
<1>. USE DEF IInv, Ack, Acking
<1>1. cons[c].cursor \in Nat
  BY DEF TypeOK, Loop
<1>2. cons' \in [Consumer -> Loop] /\ IdsInv' /\ AckInv'
  BY <1>1, BatchStep DEF IdsInv
<1>3. TypeOK'
  BY <1>2 DEF TypeOK
<1>4. NoDeliveryLost'
  <2>1. e \in settled
    BY DEF AckInv
  <2>2. \A f \in stream : f.id = e.id => f = e
    BY DEF IdsInv
  <2>. QED  BY <2>1, <2>2 DEF NoDeliveryLost
<1>. QED  BY <1>2, <1>3, <1>4

LEMMA AckFailsIInv ==
    ASSUME IInv, NEW c \in Consumer, NEW e \in cons[c].batch, AckFails(c, e) PROVE IInv'
<1>. USE DEF IInv, AckFails, Acking
<1>1. cons[c].cursor \in Nat
  BY DEF TypeOK, Loop
<1>2. cons' \in [Consumer -> Loop] /\ IdsInv' /\ AckInv'
  BY <1>1, BatchStep DEF IdsInv
<1>3. TypeOK' /\ NoDeliveryLost'
  BY <1>2, ConsumerAssumption DEF ConsumerAssumption, TypeOK, Fault, NoDeliveryLost
<1>. QED  BY <1>2, <1>3

-----------------------------------------------------------------------------
\* The invariant the theorems below rest on: it holds initially and every step
\* of the system keeps it.
THEOREM Invariance == Spec => []IInv
<1>1. Init => IInv
  BY InitIInv
<1>2. IInv /\ [Next]_vars => IInv'
  <2>. SUFFICES ASSUME IInv, [Next]_vars PROVE IInv'
    OBVIOUS
  <2>1. ASSUME NEW body \in Delivery \cup {Malformed}, Publish(body) PROVE IInv'
    BY <2>1, PublishIInv
  <2>2. CASE LoseStream
    BY <2>2, LoseStreamIInv
  <2>3. ASSUME NEW id \in pel, IdleGrows(id) PROVE IInv'
    BY <2>3, IdleGrowsIInv
  <2>4. ASSUME NEW c \in Consumer, Boot(c) \/ Exit(c) \/ RecoveryDue(c) PROVE IInv'
    BY <2>4, BootIInv, ExitIInv, RecoveryDueIInv
  <2>5. ASSUME NEW c \in Consumer,
               Recover(c) \/ RecoverReplyLost(c) \/ Read(c) \/ ReadNothing(c)
                 \/ ReadReplyLost(c)
        PROVE  IInv'
    BY <2>5, RecoverIInv, RecoverReplyLostIInv, ReadIInv, ReadNothingIInv, ReadReplyLostIInv
  <2>6. ASSUME NEW c \in Consumer, NEW e \in cons[c].batch,
               Retain(c, e) \/ ProcessOk(c, e) \/ Ack(c, e) \/ AckFails(c, e)
        PROVE  IInv'
    BY <2>6, RetainIInv, ProcessOkIInv, AckIInv, AckFailsIInv
  <2>7. CASE UNCHANGED vars
    BY <2>7 DEF vars, IInv, TypeOK, IdsInv, AckInv, NoDeliveryLost
  <2>. QED  BY <2>1, <2>2, <2>3, <2>4, <2>5, <2>6, <2>7 DEF Next, Step
<1>. QED  BY <1>1, <1>2, PTL DEF Spec

\* Every variable keeps its type, whatever the bounds and the number of loops.
THEOREM TypeCorrect == Spec => []TypeOK
<1>1. IInv => TypeOK
  BY DEF IInv
<1>. QED  BY <1>1, Invariance, PTL

\* No delivery is lost between the stream and ProcessJob, whatever replies are
\* lost, acknowledgements fail, processes exit, or Redis loses its data.
THEOREM DeliveriesSurvive == Spec => []NoDeliveryLost
<1>1. IInv => NoDeliveryLost
  BY DEF IInv
<1>. QED  BY <1>1, Invariance, PTL

-----------------------------------------------------------------------------
(***************************************************************************)
(* The at-least-once queue.                                                *)
(***************************************************************************)
\* What is pending has been delivered, and a group that is not there has
\* delivered nothing: so nothing that is acknowledged is undelivered as well.  A
\* loop holds entries only while it handles them.
QueueInv ==
    /\ \A c \in Consumer : cons[c].pc \notin {"handle", "ack"} => cons[c].batch = {}
    /\ \A id \in pel : id <= lastDelivered
    /\ ~group => lastDelivered = 0 /\ pel = {}
    /\ \A c \in Consumer : \A e \in cons[c].batch \cap stream : e.id <= lastDelivered
    /\ \A e \in settled : e.id < nextEntry

\* A loop that With leaves without a batch is not handling anything.
LEMMA WithNothing ==
    ASSUME NEW c \in Consumer, NEW k \in Nat
    PROVE  With(c, {}, k).pc \notin {"handle", "ack"}
BY DEF With

\* What the loops hold.
Held == [c \in Consumer |-> cons[c].batch]

\* A step that changes one loop changes what this loop holds.
LEMMA HeldStep ==
    ASSUME TypeOK, NEW c \in Consumer, NEW L, NEW B, cons' = [cons EXCEPT ![c] = L],
           L.batch = B
    PROVE  /\ cons'[c] = L
           /\ \A d \in Consumer : d # c => cons'[d] = cons[d]
           /\ Held' = [Held EXCEPT ![c] = B]
BY DEF TypeOK, Held

\* A step that gives a loop a batch of delivered entries, and delivers no less
\* than before, keeps the invariant.
LEMMA QueueInvStep ==
    ASSUME TypeOK, QueueInv, NEW c \in Consumer, NEW L,
           cons' = [cons EXCEPT ![c] = L],
           L.pc \notin {"handle", "ack"} => L.batch = {},
           \A e \in L.batch \cap stream : e.id <= lastDelivered',
           lastDelivered' \in Nat, lastDelivered <= lastDelivered',
           pel' \subseteq pel \cup {lastDelivered'},
           ~group' => lastDelivered' = 0 /\ pel' = {},
           \A e \in settled' : e.id < nextEntry,
           UNCHANGED <<stream, nextEntry>>
    PROVE  QueueInv'
<1>1. cons'[c] = L /\ \A d \in Consumer : d # c => cons'[d] = cons[d]
  BY DEF TypeOK
<1>2. \A d \in Consumer : cons'[d].pc \notin {"handle", "ack"} => cons'[d].batch = {}
  BY <1>1 DEF QueueInv
<1>3. \A id \in pel' : id <= lastDelivered'
  BY DEF QueueInv, TypeOK
<1>4. \A d \in Consumer : \A e \in cons'[d].batch \cap stream : e.id <= lastDelivered'
  BY <1>1 DEF QueueInv, TypeOK, Entry
<1>. QED  BY <1>2, <1>3, <1>4 DEF QueueInv

\* What is waiting depends on what the stream, the pending list and the last
\* delivered id say of its entries.
LEMMA SameWaiting ==
    ASSUME UNCHANGED stream,
           \A e \in stream : (e.id > lastDelivered \/ e.id \in pel)
                               <=> (e.id > lastDelivered' \/ e.id \in pel')
    PROVE  Waiting' = Waiting
BY DEF Waiting

LEMMA PublishPuts ==
    ASSUME IInv, QueueInv, NEW body \in Delivery \cup {Malformed}, Publish(body)
    PROVE  QueueInv' /\ \E e \in Waiting' : Queue!Put(e)
<1>. DEFINE e == [id |-> nextEntry, body |-> body]
<1>1. e.id = nextEntry /\ stream' = stream \cup {e}
  BY DEF Publish
<1>. HIDE DEF e
<1>2. nextEntry \in Nat /\ lastDelivered < nextEntry /\ lastDelivered \in Nat
  BY DEF IInv, TypeOK, IdsInv
<1>3. /\ \A f \in stream \cup settled : f.id \in Nat /\ f.id < nextEntry
      /\ \A c \in Consumer : \A f \in cons[c].batch : f.id \in Nat /\ f.id < nextEntry
  BY DEF IInv, TypeOK, IdsInv, QueueInv, Loop, Entry
<1>4. e \notin stream \cup settled /\ \A c \in Consumer : e \notin cons[c].batch
  BY <1>1, <1>2, <1>3
<1>5. Waiting' = Waiting \cup {e}
  BY <1>1, <1>2 DEF Waiting, Publish
<1>6. QueueInv'
  <2>1. \A c \in Consumer : \A f \in cons[c].batch \cap stream' : f.id <= lastDelivered
    BY <1>1, <1>4 DEF QueueInv
  <2>2. \A f \in settled : f.id < nextEntry'
    BY <1>2, <1>3 DEF Publish
  <2>. QED  BY <2>1, <2>2 DEF QueueInv, Publish
<1>7. Queue!Put(e)
  <2>1. e \notin Waiting \cup settled  BY <1>4 DEF Waiting
  <2>. QED  BY <1>4, <1>5, <2>1 DEF Queue!Put, Publish
<1>. QED  BY <1>5, <1>6, <1>7

LEMMA LoseStreamLoses ==
    ASSUME IInv, QueueInv, LoseStream  PROVE QueueInv' /\ Queue!Lose
<1>1. QueueInv'  BY DEF QueueInv, LoseStream
<1>2. Waiting' = {}  BY DEF Waiting, LoseStream
<1>. QED  BY <1>1, <1>2 DEF LoseStream, Queue!Lose

\* Nothing is put, handled, acknowledged or lost, and only this loop's hands may
\* have changed, to what is waiting if they were empty, or to less.
Hands(c, B) ==
    /\ Waiting' = Waiting
    /\ Held' = [Held EXCEPT ![c] = B]
    /\ UNCHANGED <<settled, losses>>
    /\ B \subseteq cons[c].batch \/ (cons[c].batch = {} /\ B \subseteq Waiting)

\* The steps of a consumer of the queue, in terms of what the loops hold.
LEMMA ConsumerStep ==
    ASSUME NEW c \in Consumer, NEW D, NEW e,
           \/ D \subseteq cons[c].batch /\ Queue!Leave(c, D)
           \/ D \subseteq Waiting /\ Queue!Take(c, D)
           \/ e \in cons[c].batch /\ (Queue!Handle(c, e) \/ Queue!Acknowledge(c, e))
    PROVE  Queue!Next
<1>1. Held[c] = cons[c].batch  BY DEF Held
<1>2. CASE D \subseteq cons[c].batch /\ Queue!Leave(c, D)
  <2>1. D \in SUBSET Held[c]  BY <1>1, <1>2
  <2>. QED  BY <1>2, <2>1, Zenon DEF Queue!Next, Held
<1>3. CASE D \subseteq Waiting /\ Queue!Take(c, D)
  <2>1. D \in SUBSET Waiting  BY <1>3
  <2>. QED  BY <1>3, <2>1, Zenon DEF Queue!Next
<1>4. CASE e \in cons[c].batch /\ (Queue!Handle(c, e) \/ Queue!Acknowledge(c, e))
  <2>1. e \in Held[c]  BY <1>1, <1>4
  <2>. QED  BY <1>4, <2>1, Zenon DEF Queue!Next, Held
<1>. QED  BY <1>2, <1>3, <1>4

LEMMA HandsStep ==
    ASSUME TypeOK, NEW c \in Consumer, NEW B, Hands(c, B)  PROVE [Queue!Next]_Queue!vars
<1>1. Held[c] = cons[c].batch  BY DEF Held
<1>2. CASE B \subseteq cons[c].batch
  <2>0. PICK D : D = cons[c].batch \ B  OBVIOUS
  <2>1. D \subseteq cons[c].batch /\ Held[c] \ D = B  BY <1>1, <1>2, <2>0
  <2>2. Queue!Leave(c, D)  BY <2>1 DEF Queue!Leave, Hands, Held
  <2>. QED  BY <2>1, <2>2, ConsumerStep
<1>3. CASE cons[c].batch = {} /\ B \subseteq Waiting
  <2>1. Queue!Take(c, B)  BY <1>1, <1>3 DEF Queue!Take, Hands, Held
  <2>. QED  BY <1>3, <2>1, ConsumerStep
<1>. QED  BY <1>2, <1>3 DEF Hands

-----------------------------------------------------------------------------
\* The steps of one loop.
LEMMA BootHands == ASSUME IInv, QueueInv, NEW c \in Consumer, Boot(c)
                   PROVE  QueueInv' /\ Hands(c, {})
<1>0. PICK L : L = [pc |-> "top", due |-> TRUE, cursor |-> 0, batch |-> {}]  OBVIOUS
<1>1. lastDelivered' = lastDelivered /\ lastDelivered \in Nat
  BY DEF Boot, FirstDelivered, QueueInv, IInv, TypeOK
<1>2. L.pc = "top" /\ L.batch = {}  BY <1>0
<1>3. cons' = [cons EXCEPT ![c] = L]  BY <1>0 DEF Boot
<1>4. QueueInv'
  <2>1. /\ group' = TRUE /\ \A e \in settled' : e.id < nextEntry
        /\ \A e \in L.batch \cap stream : e.id <= lastDelivered'
    BY <1>2 DEF Boot, QueueInv
  <2>2. /\ lastDelivered <= lastDelivered' /\ pel' \subseteq pel \cup {lastDelivered'}
        /\ UNCHANGED <<stream, nextEntry>>
    BY <1>1 DEF Boot
  <2>. QED  BY <1>1, <1>2, <1>3, <2>1, <2>2, QueueInvStep DEF IInv
<1>5. Waiting' = Waiting  BY <1>1, SameWaiting DEF Boot
<1>6. Held' = [Held EXCEPT ![c] = {}]  BY <1>2, <1>3 DEF IInv, TypeOK, Held
<1>. QED  BY <1>4, <1>5, <1>6 DEF Hands, Boot

LEMMA ExitHands == ASSUME IInv, QueueInv, NEW c \in Consumer, Exit(c)
                   PROVE  QueueInv' /\ Hands(c, {})
<1>1. Stopped.pc = "down" /\ Stopped.batch = {}  BY DEF Stopped
<1>2. cons' = [cons EXCEPT ![c] = Stopped]  BY DEF Exit
<1>3. QueueInv'
  <2>1. /\ lastDelivered' \in Nat /\ lastDelivered <= lastDelivered'
        /\ ~group' => lastDelivered' = 0 /\ pel' = {}
        /\ \A e \in settled' : e.id < nextEntry
    BY DEF Exit, QueueInv, IInv, TypeOK
  <2>. QED  BY <1>1, <1>2, <2>1, QueueInvStep DEF Exit, IInv
<1>4. Waiting' = Waiting  BY SameWaiting DEF Exit
<1>5. Held' = [Held EXCEPT ![c] = {}]  BY <1>1, <1>2 DEF IInv, TypeOK, Held
<1>. QED  BY <1>3, <1>4, <1>5 DEF Hands, Exit

\* A step that changes neither the queue nor hands: only where the loop is.
LEMMA EmptyHands ==
    ASSUME IInv, QueueInv, NEW c \in Consumer, NEW L, cons' = [cons EXCEPT ![c] = L],
           L.batch = {}, cons[c].pc \notin {"handle", "ack"},
           lastDelivered' \in Nat, lastDelivered <= lastDelivered',
           pel' \subseteq pel \cup {lastDelivered'},
           ~group' => lastDelivered' = 0 /\ pel' = {}, Waiting' = Waiting,
           UNCHANGED <<stream, nextEntry, settled, losses>>
    PROVE  QueueInv' /\ Hands(c, {})
<1>1. cons[c].batch = {}  BY DEF QueueInv
<1>2. QueueInv'
  <2>1. \A e \in settled' : e.id < nextEntry  BY DEF QueueInv
  <2>. QED  BY <2>1, QueueInvStep DEF IInv
<1>3. Held' = [Held EXCEPT ![c] = {}]  BY DEF IInv, TypeOK, Held
<1>. QED  BY <1>1, <1>2, <1>3 DEF Hands

LEMMA RecoveryDueHands == ASSUME IInv, QueueInv, NEW c \in Consumer, RecoveryDue(c)
                          PROVE  QueueInv' /\ Hands(c, {})
<1>1. PICK L : L = [cons[c] EXCEPT !.due = TRUE]  OBVIOUS
<1>2. cons[c] \in Loop /\ cons[c].pc = "top" /\ cons[c].batch = {}
  BY DEF RecoveryDue, QueueInv, IInv, TypeOK
<1>3. L.batch = {}  BY <1>1, <1>2 DEF Loop
<1>4. cons' = [cons EXCEPT ![c] = L]  BY <1>1 DEF RecoveryDue
<1>5. /\ lastDelivered' \in Nat /\ lastDelivered <= lastDelivered'
      /\ ~group' => lastDelivered' = 0 /\ pel' = {}
      /\ pel' \subseteq pel \cup {lastDelivered'}
  BY DEF RecoveryDue, QueueInv, IInv, TypeOK
<1>6. Waiting' = Waiting  BY SameWaiting DEF RecoveryDue
<1>. QED  BY <1>2, <1>3, <1>4, <1>5, <1>6, EmptyHands DEF RecoveryDue

\* A scan hands out what is pending, or nothing.
LEMMA ScanHands ==
    ASSUME IInv, QueueInv, NEW c \in Consumer, cons[c].pc = "top",
           NEW B \in SUBSET { e \in stream : e.id \in pel }, NEW k \in Nat,
           cons' = [cons EXCEPT ![c] = With(c, B, k)],
           UNCHANGED <<stream, nextEntry, group, lastDelivered, pel, settled, losses>>
    PROVE  QueueInv' /\ Hands(c, B)
<1>1. PICK L : L = With(c, B, k)  OBVIOUS
<1>2. B \in SUBSET Entry /\ cons[c] \in Loop  BY DEF IInv, TypeOK
<1>3. L.batch = B /\ (L.pc \notin {"handle", "ack"} => L.batch = {})
  <2>1. B # {} => L.pc = "handle"  BY <1>1 DEF With
  <2>. QED  BY <1>1, <1>2, <2>1, WithType
<1>4. cons' = [cons EXCEPT ![c] = L]  BY <1>1
<1>5. QueueInv'
  <2>1. /\ \A e \in L.batch \cap stream : e.id <= lastDelivered'
        /\ \A e \in settled' : e.id < nextEntry
        /\ ~group' => lastDelivered' = 0 /\ pel' = {}
    BY <1>3 DEF QueueInv
  <2>2. lastDelivered' \in Nat /\ lastDelivered <= lastDelivered'  BY DEF IInv, TypeOK
  <2>. QED  BY <1>3, <1>4, <2>1, <2>2, QueueInvStep DEF IInv
<1>6. Waiting' = Waiting  BY SameWaiting
<1>7. Held' = [Held EXCEPT ![c] = B]  BY <1>3, <1>4 DEF IInv, TypeOK, Held
<1>8. cons[c].batch = {} /\ B \subseteq Waiting  BY DEF QueueInv, Waiting
<1>. QED  BY <1>5, <1>6, <1>7, <1>8 DEF Hands

LEMMA RecoverHands == ASSUME IInv, QueueInv, NEW c \in Consumer, Recover(c)
                      PROVE  QueueInv' /\ \E B : Hands(c, B)
<1>1. CASE group
  <2>1. PICK next \in NextCursor(c) :
          cons' = [cons EXCEPT ![c] = With(c, { e \in stream : e.id \in Claimed(c) }, next)]
    BY <1>1 DEF Recover
  <2>2. PICK B : B = { e \in stream : e.id \in Claimed(c) }  OBVIOUS
  <2>3. B \subseteq { e \in stream : e.id \in pel } /\ next \in Nat
    BY <2>2, CursorType DEF Claimed, IInv, TypeOK
  <2>. QED  BY <2>1, <2>2, <2>3, ScanHands DEF Recover
<1>2. CASE ~group
  <2>1. PICK k : k = cons[c].cursor  OBVIOUS
  <2>2. k \in Nat  BY <2>1 DEF IInv, TypeOK, Loop
  <2>3. cons' = [cons EXCEPT ![c] = With(c, {}, k)]  BY <1>2, <2>1 DEF Recover
  <2>. QED  BY <2>2, <2>3, ScanHands DEF Recover
<1>. QED  BY <1>1, <1>2

LEMMA RecoverReplyLostHands ==
    ASSUME IInv, QueueInv, NEW c \in Consumer, RecoverReplyLost(c)
    PROVE  QueueInv' /\ \E B : Hands(c, B)
<1>1. PICK k : k = cons[c].cursor  OBVIOUS
<1>2. k \in Nat  BY <1>1 DEF IInv, TypeOK, Loop
<1>3. cons' = [cons EXCEPT ![c] = With(c, {}, k)]  BY <1>1 DEF RecoverReplyLost
<1>. QED  BY <1>2, <1>3, ScanHands DEF RecoverReplyLost

\* The first undelivered entry, once delivered, waits on the pending list, and no
\* other is passed over.
LEMMA DeliverKeeps ==
    ASSUME IInv, QueueInv, NEW e \in Undelivered, Deliver(e),
           UNCHANGED <<stream, nextEntry, group>>
    PROVE  /\ e \in Waiting /\ e \in Entry /\ group
           /\ lastDelivered' = e.id /\ e.id \in Nat /\ lastDelivered <= e.id
           /\ pel' \subseteq pel \cup {lastDelivered'}
           /\ Waiting' = Waiting
<1>1. e \in stream /\ e \in Entry /\ group /\ e.id > lastDelivered
  BY DEF Undelivered, IInv, TypeOK
<1>2. e.id \in Nat /\ lastDelivered \in Nat /\ lastDelivered' = e.id /\ pel' = pel \cup {e.id}
  BY <1>1 DEF Deliver, IInv, TypeOK, Entry
<1>3. ASSUME NEW f \in stream
      PROVE  (f.id > lastDelivered \/ f.id \in pel)
               <=> (f.id > lastDelivered' \/ f.id \in pel')
  <2>1. f.id \in Nat  BY DEF IInv, TypeOK, Entry
  <2>2. f.id > lastDelivered => e.id <= f.id  BY DEF Undelivered
  <2>. QED  BY <1>1, <1>2, <2>1, <2>2
<1>4. Waiting' = Waiting  BY <1>3, SameWaiting
<1>. QED  BY <1>1, <1>2, <1>4 DEF Waiting

LEMMA ReadHands == ASSUME IInv, QueueInv, NEW c \in Consumer, Read(c)
                   PROVE  QueueInv' /\ \E B : Hands(c, B)
<1>1. PICK e \in Undelivered : Deliver(e) /\ cons' = [cons EXCEPT ![c] = With(c, {e}, cons[c].cursor)]
  BY DEF Read
<1>2. PICK L : L = With(c, {e}, cons[c].cursor)  OBVIOUS
<1>3. /\ e \in Waiting /\ e \in Entry /\ group
      /\ lastDelivered' = e.id /\ e.id \in Nat /\ lastDelivered <= e.id
      /\ pel' \subseteq pel \cup {lastDelivered'}
      /\ Waiting' = Waiting
  BY <1>1, DeliverKeeps DEF Read
<1>4. L.pc = "handle" /\ L.batch = {e}  BY <1>2 DEF With
<1>5. cons' = [cons EXCEPT ![c] = L]  BY <1>1, <1>2
<1>6. cons[c].batch = {}  BY DEF Read, Reading, QueueInv
<1>7. QueueInv'
  <2>1. /\ \A f \in L.batch \cap stream : f.id <= lastDelivered'
        /\ \A f \in settled' : f.id < nextEntry
        /\ group' = group
        /\ UNCHANGED <<stream, nextEntry>>
    BY <1>3, <1>4 DEF QueueInv, Read
  <2>. QED  BY <1>3, <1>4, <1>5, <2>1, QueueInvStep DEF IInv
<1>8. Held' = [Held EXCEPT ![c] = {e}]  BY <1>4, <1>5 DEF IInv, TypeOK, Held
<1>9. {e} \subseteq Waiting  BY <1>3
<1>. QED  BY <1>3, <1>6, <1>7, <1>8, <1>9 DEF Hands, Read

LEMMA ReadNothingHands == ASSUME IInv, QueueInv, NEW c \in Consumer, ReadNothing(c)
                          PROVE  QueueInv' /\ Hands(c, {})
<1>1. PICK L : L = [cons[c] EXCEPT !.pc = "top"]  OBVIOUS
<1>2. cons[c] \in Loop /\ cons[c].pc \in {"read", "top"} /\ cons[c].batch = {}
  BY DEF ReadNothing, Reading, QueueInv, IInv, TypeOK
<1>3. L.batch = {}  BY <1>1, <1>2 DEF Loop
<1>4. cons' = [cons EXCEPT ![c] = L]  BY <1>1 DEF ReadNothing
<1>5. /\ lastDelivered' \in Nat /\ lastDelivered <= lastDelivered'
      /\ ~group' => lastDelivered' = 0 /\ pel' = {}
      /\ pel' \subseteq pel \cup {lastDelivered'}
  BY DEF ReadNothing, QueueInv, IInv, TypeOK
<1>6. Waiting' = Waiting  BY SameWaiting DEF ReadNothing
<1>. QED  BY <1>2, <1>3, <1>4, <1>5, <1>6, EmptyHands DEF ReadNothing

LEMMA ReadReplyLostHands == ASSUME IInv, QueueInv, NEW c \in Consumer, ReadReplyLost(c)
                            PROVE  QueueInv' /\ Hands(c, {})
<1>1. PICK e \in Undelivered : Deliver(e)  BY DEF ReadReplyLost
<1>2. PICK L : L = [cons[c] EXCEPT !.pc = "top"]  OBVIOUS
<1>3. cons[c] \in Loop /\ cons[c].pc \in {"read", "top"} /\ cons[c].batch = {}
  BY DEF ReadReplyLost, Reading, QueueInv, IInv, TypeOK
<1>4. L.batch = {}  BY <1>2, <1>3 DEF Loop
<1>5. cons' = [cons EXCEPT ![c] = L]  BY <1>2 DEF ReadReplyLost
<1>6. /\ group /\ lastDelivered' \in Nat /\ lastDelivered <= lastDelivered'
      /\ pel' \subseteq pel \cup {lastDelivered'}
      /\ Waiting' = Waiting
  BY <1>1, DeliverKeeps DEF ReadReplyLost
<1>7. /\ ~group' => lastDelivered' = 0 /\ pel' = {}
      /\ UNCHANGED <<stream, nextEntry, settled, losses>>
  BY <1>6, Zenon DEF ReadReplyLost
<1>. QED  BY <1>3, <1>4, <1>5, <1>6, <1>7, EmptyHands

\* A loop that is through with an entry, leaving it where it is or acknowledging it.
LEMMA ThroughHands ==
    ASSUME IInv, QueueInv, NEW c \in Consumer, NEW e \in cons[c].batch,
           cons' = [cons EXCEPT ![c] = With(c, cons[c].batch \ {e}, cons[c].cursor)],
           pel' \subseteq pel,
           UNCHANGED <<stream, nextEntry, group, lastDelivered, settled, losses>>
    PROVE  QueueInv' /\ Held' = [Held EXCEPT ![c] = cons[c].batch \ {e}]
<1>1. PICK L : L = With(c, cons[c].batch \ {e}, cons[c].cursor)  OBVIOUS
<1>2. cons[c] \in Loop /\ cons[c].batch \ {e} \in SUBSET Entry /\ cons[c].cursor \in Nat
  BY DEF IInv, TypeOK, Loop
<1>3. L.batch = cons[c].batch \ {e}  BY <1>1, <1>2, WithType
<1>4. L.pc \notin {"handle", "ack"} => L.batch = {}
  <2>1. cons[c].batch \ {e} # {} => L.pc = "handle"  BY <1>1 DEF With
  <2>. QED  BY <1>3, <2>1
<1>5. cons' = [cons EXCEPT ![c] = L]  BY <1>1
<1>6. QueueInv'
  <2>1. /\ \A f \in L.batch \cap stream : f.id <= lastDelivered'
        /\ \A f \in settled' : f.id < nextEntry
        /\ ~group' => lastDelivered' = 0 /\ pel' = {}
    BY <1>3 DEF QueueInv
  <2>2. lastDelivered' \in Nat /\ lastDelivered <= lastDelivered'  BY DEF IInv, TypeOK
  <2>. QED  BY <1>4, <1>5, <2>1, <2>2, QueueInvStep DEF IInv
<1>7. Held' = [Held EXCEPT ![c] = cons[c].batch \ {e}]
  BY <1>3, <1>5 DEF IInv, TypeOK, Held
<1>. QED  BY <1>6, <1>7

LEMMA LeaveHands ==
    ASSUME IInv, QueueInv, NEW c \in Consumer, NEW e \in cons[c].batch,
           Retain(c, e) \/ AckFails(c, e)
    PROVE  QueueInv' /\ \E B : Hands(c, B)
<1>1. /\ cons' = [cons EXCEPT ![c] = With(c, cons[c].batch \ {e}, cons[c].cursor)]
      /\ UNCHANGED <<stream, nextEntry, group, lastDelivered, pel, settled, losses>>
  BY DEF Retain, AckFails, Acking
<1>2. Waiting' = Waiting  BY <1>1, SameWaiting
<1>3. PICK B : B = cons[c].batch \ {e}  OBVIOUS
<1>4. QueueInv' /\ Held' = [Held EXCEPT ![c] = cons[c].batch \ {e}]
  BY <1>1, ThroughHands
<1>5. Hands(c, B)  BY <1>1, <1>2, <1>3, <1>4 DEF Hands
<1>. QED  BY <1>4, <1>5

LEMMA ProcessOkHandles ==
    ASSUME IInv, QueueInv, NEW c \in Consumer, NEW e \in cons[c].batch, ProcessOk(c, e)
    PROVE  QueueInv' /\ Queue!Handle(c, e)
<1>1. PICK L : L = [cons[c] EXCEPT !.pc = "ack"]  OBVIOUS
<1>2. cons[c] \in Loop  BY DEF IInv, TypeOK
<1>3. L.batch = cons[c].batch /\ L.pc = "ack"  BY <1>1, <1>2 DEF Loop
<1>4. cons' = [cons EXCEPT ![c] = L]  BY <1>1 DEF ProcessOk
<1>5. QueueInv'
  <2>1. e.id < nextEntry  BY DEF IInv, IdsInv
  <2>2. /\ \A f \in L.batch \cap stream : f.id <= lastDelivered'
        /\ \A f \in settled' : f.id < nextEntry
        /\ ~group' => lastDelivered' = 0 /\ pel' = {}
    BY <1>3, <2>1 DEF QueueInv, ProcessOk
  <2>3. /\ lastDelivered' \in Nat /\ lastDelivered <= lastDelivered'
        /\ pel' \subseteq pel \cup {lastDelivered'}
        /\ UNCHANGED <<stream, nextEntry>>
    BY DEF IInv, TypeOK, ProcessOk
  <2>. QED  BY <1>3, <1>4, <2>2, <2>3, QueueInvStep DEF IInv
<1>6. Waiting' = Waiting  BY SameWaiting DEF ProcessOk
<1>7. Held' = Held  BY <1>3, <1>4 DEF IInv, TypeOK, Held
<1>8. Held[c] = cons[c].batch  BY DEF Held
<1>. QED  BY <1>5, <1>6, <1>7, <1>8 DEF Queue!Handle, ProcessOk, Held

\* An id names one entry, so an XACK takes away what the loop holds and no other;
\* and what it takes away has been delivered, so it does not come back as new.
LEMMA AckAcknowledges ==
    ASSUME IInv, QueueInv, NEW c \in Consumer, NEW e \in cons[c].batch, Ack(c, e)
    PROVE  QueueInv' /\ Queue!Acknowledge(c, e)
<1>1. /\ cons' = [cons EXCEPT ![c] = With(c, cons[c].batch \ {e}, cons[c].cursor)]
      /\ pel' = pel \ {e.id}
      /\ UNCHANGED <<stream, nextEntry, group, lastDelivered, settled, losses>>
  BY DEF Ack, Acking
<1>2. QueueInv' /\ Held' = [Held EXCEPT ![c] = cons[c].batch \ {e}]
  BY <1>1, ThroughHands
<1>3. e \in settled  BY DEF Ack, Acking, IInv, AckInv
<1>4. Waiting' = Waiting \ {e}
  <2>1. lastDelivered \in Nat /\ \A f \in stream : f.id \in Nat
    BY DEF IInv, TypeOK, Entry
  <2>2. \A f \in stream : f.id = e.id => f = e  BY DEF IInv, IdsInv
  <2>3. e \in stream => ~(e.id > lastDelivered)  BY <2>1 DEF QueueInv
  <2>. QED  BY <1>1, <2>2, <2>3 DEF Waiting
<1>5. Held[c] = cons[c].batch  BY DEF Held
<1>6. e \in Held[c] \cap settled  BY <1>3, <1>5
<1>7. Held' = [Held EXCEPT ![c] = @ \ {e}]  BY <1>2, <1>5
<1>. QED  BY <1>1, <1>2, <1>4, <1>6, <1>7 DEF Queue!Acknowledge, Held

-----------------------------------------------------------------------------
LEMMA QueueStep ==
    ASSUME IInv, QueueInv, [Next]_vars
    PROVE  QueueInv' /\ [Queue!Next]_Queue!vars
<1>. DEFINE Goal == QueueInv' /\ [Queue!Next]_Queue!vars
<1>1. ASSUME NEW body \in Delivery \cup {Malformed}, Publish(body)  PROVE Goal
  <2>1. QueueInv' /\ \E e \in Waiting' : Queue!Put(e)  BY <1>1, PublishPuts
  <2>. QED  BY <2>1, Zenon DEF Queue!Next
<1>2. CASE LoseStream
  <2>1. QueueInv' /\ Queue!Lose  BY <1>2, LoseStreamLoses
  <2>. QED  BY <2>1, Zenon DEF Queue!Next
<1>3. ASSUME NEW id \in pel, IdleGrows(id)  PROVE Goal
  <2>1. Waiting' = Waiting  BY <1>3, SameWaiting DEF IdleGrows
  <2>. QED  BY <1>3, <2>1 DEF IdleGrows, QueueInv, Queue!vars
<1>4. ASSUME NEW c \in Consumer, QueueInv' /\ \E B : Hands(c, B)  PROVE Goal
  BY <1>4, HandsStep DEF IInv
<1>5. ASSUME NEW c \in Consumer,
             \/ Boot(c) \/ Exit(c) \/ RecoveryDue(c) \/ Recover(c)
             \/ RecoverReplyLost(c) \/ Read(c) \/ ReadNothing(c) \/ ReadReplyLost(c)
      PROVE  Goal
  BY <1>4, <1>5, BootHands, ExitHands, RecoveryDueHands, RecoverHands,
     RecoverReplyLostHands, ReadHands, ReadNothingHands, ReadReplyLostHands
<1>6. ASSUME NEW c \in Consumer, NEW e \in cons[c].batch,
             Retain(c, e) \/ ProcessOk(c, e) \/ Ack(c, e) \/ AckFails(c, e)
      PROVE  Goal
  <2>1. CASE Retain(c, e) \/ AckFails(c, e)
    BY <1>4, <2>1, LeaveHands
  <2>2. CASE ProcessOk(c, e) \/ Ack(c, e)
    <3>1. QueueInv' /\ (Queue!Handle(c, e) \/ Queue!Acknowledge(c, e))
      BY <2>2, ProcessOkHandles, AckAcknowledges
    <3>. QED  BY <3>1, ConsumerStep
  <2>. QED  BY <1>6, <2>1, <2>2
<1>7. CASE UNCHANGED vars
  <2>1. Waiting' = Waiting  BY <1>7, SameWaiting DEF vars
  <2>. QED  BY <1>7, <2>1 DEF vars, QueueInv, Queue!vars
<1>. QED  BY <1>1, <1>2, <1>3, <1>5, <1>6, <1>7 DEF Next, Step

LEMMA InitQueue == Init => QueueInv /\ Queue!Init
<1>. SUFFICES ASSUME Init  PROVE QueueInv /\ Queue!Init  OBVIOUS
<1>1. QueueInv  BY DEF Init, QueueInv, Stopped
<1>2. Waiting = {}  BY DEF Init, Waiting
<1>3. Held = [c \in Consumer |-> {}]  BY DEF Init, Held, Stopped
<1>. QED  BY <1>1, <1>2, <1>3 DEF Queue!Init, Init, Held

\* Stream, group, pending list, scan and loops are an at-least-once queue, with
\* any number of loops and of lost replies, exits and losses of Redis' data.
THEOREM StreamIsQueue == Spec => ImplementsQueue
<1>1. Init => QueueInv /\ Queue!Init  BY InitQueue
<1>2. IInv /\ QueueInv /\ [Next]_vars => QueueInv' /\ [Queue!Next]_Queue!vars
  BY QueueStep
<1>. QED  BY <1>1, <1>2, Invariance, PTL DEF Spec, ImplementsQueue, Queue!Spec
=============================================================================
