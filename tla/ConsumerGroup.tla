---------------------------- MODULE ConsumerGroup ----------------------------
(***************************************************************************)
(* How a published delivery reaches ProcessJob: the Redis stream, its      *)
(* consumer group, and the read loops (Consumer.Start) that take new       *)
(* entries with XREADGROUP, take over idle pending ones with XAUTOCLAIM,   *)
(* and acknowledge with XACK what ProcessJob returned nil for.             *)
(*                                                                         *)
(* Entry ids are numbers that only grow, also when Redis loses its data    *)
(* (Redis makes them from the clock).  Which consumer a pending entry is   *)
(* assigned to does not matter to any command used here, so the pending    *)
(* entries list is a set of ids.  An entry is idle once it has waited for  *)
(* RecoveryIdle; that may well happen while its consumer still handles it. *)
(***************************************************************************)
EXTENDS Naturals, FiniteSets

CONSTANTS
    Delivery,   \* the <<job_id, generation>> pairs the dispatcher publishes
    Malformed,  \* the content of an entry handle() cannot parse
    Consumer,   \* the read loops
    Count,      \* entries XAUTOCLAIM may return: the 100 of recover
    MaxCopies,  \* bound on the entries of one content that the stream holds
    MaxLosses,  \* bound on the losses of Redis' data
    MaxFaults   \* bound on lost replies, failed acknowledgements and exits

ASSUME ConsumerAssumption ==
    /\ Malformed \notin Delivery
    /\ Count \in Nat \ {0}
    /\ MaxCopies \in Nat
    /\ MaxLosses \in Nat
    /\ MaxFaults \in Nat

VARIABLES
    stream,         \* the entries of the stream
    nextEntry,      \* the id of the next entry
    group,          \* the consumer group exists
    lastDelivered,  \* the last id the group has delivered
    pel,            \* ids delivered and not acknowledged
    idle,           \* those of them that XAUTOCLAIM may take
    cons,           \* the read loops
    settled,        \* history: entries ProcessJob returned nil for
    losses, faults  \* what has gone wrong so far

vars == <<stream, nextEntry, group, lastDelivered, pel, idle, cons, settled,
          losses, faults>>

Entry == [id: Nat \ {0}, body: Delivery \cup {Malformed}]

\* pc "top" is the head of the loop, "read" the XREADGROUP after a recovery.
Loop == [pc: {"down", "top", "read", "handle", "ack"}, due: BOOLEAN,
         cursor: Nat, batch: SUBSET Entry]

Stopped == [pc |-> "down", due |-> FALSE, cursor |-> 0, batch |-> {}]

Init ==
    /\ stream = {}
    /\ nextEntry = 1
    /\ group = FALSE
    /\ lastDelivered = 0
    /\ pel = {}
    /\ idle = {}
    /\ cons = [c \in Consumer |-> Stopped]
    /\ settled = {}
    /\ losses = 0
    /\ faults = 0

Fault == faults < MaxFaults /\ faults' = faults + 1

-----------------------------------------------------------------------------
\* XADD, without MAXLEN; it creates the stream, but no group.
Publish(body) ==
    /\ Cardinality({ e \in stream : e.body = body }) < MaxCopies
    /\ stream' = stream \cup { [id |-> nextEntry, body |-> body] }
    /\ nextEntry' = nextEntry + 1
    /\ UNCHANGED <<group, lastDelivered, pel, idle, cons, settled, losses, faults>>

\* Redis comes back without its data.
LoseStream ==
    /\ losses < MaxLosses
    /\ losses' = losses + 1
    /\ stream' = {}
    /\ group' = FALSE
    /\ lastDelivered' = 0
    /\ pel' = {}
    /\ idle' = {}
    /\ UNCHANGED <<nextEntry, cons, settled, faults>>

\* RecoveryIdle has passed since the entry was last delivered or claimed.
IdleGrows(id) ==
    /\ id \in pel \ idle
    /\ idle' = idle \cup {id}
    /\ UNCHANGED <<stream, nextEntry, group, lastDelivered, pel, cons, settled,
                   losses, faults>>

-----------------------------------------------------------------------------
\* Bug variant: the group starts at "$", the end of the stream.
FirstDeliveredFromEnd == nextEntry - 1

\* The group starts at "0": everything in the stream is still to be delivered.
FirstDelivered == 0

\* A process starts: EnsureConsumerGroup (BUSYGROUP is no error), then Start.
Boot(c) ==
    /\ cons[c].pc = "down"
    /\ group' = TRUE
    /\ lastDelivered' = IF group THEN lastDelivered ELSE FirstDelivered
    /\ cons' = [cons EXCEPT ![c] =
                  [pc |-> "top", due |-> TRUE, cursor |-> 0, batch |-> {}]]
    /\ UNCHANGED <<stream, nextEntry, pel, idle, settled, losses, faults>>

\* A stop, a drain that times out or a crash, wherever the loop is.
Exit(c) ==
    /\ cons[c].pc # "down"
    /\ Fault
    /\ cons' = [cons EXCEPT ![c] = Stopped]
    /\ UNCHANGED <<stream, nextEntry, group, lastDelivered, pel, idle, settled, losses>>

\* RecoveryInterval has passed when the loop looks at the clock.
RecoveryDue(c) ==
    /\ cons[c].pc = "top"
    /\ ~cons[c].due
    /\ cons' = [cons EXCEPT ![c].due = TRUE]
    /\ UNCHANGED <<stream, nextEntry, group, lastDelivered, pel, idle, settled,
                   losses, faults>>

\* The loop with a batch to handle and a cursor.  With nothing to handle it goes
\* on; the recovery it was in, if any, is over and followed by a read.
With(c, batch, cursor) ==
    IF batch # {}
    THEN [pc |-> "handle", due |-> cons[c].due, cursor |-> cursor, batch |-> batch]
    ELSE [pc |-> IF cons[c].due THEN "read" ELSE "top", due |-> FALSE,
          cursor |-> cursor, batch |-> {}]

-----------------------------------------------------------------------------
(***************************************************************************)
(* recover: XAUTOCLAIM from the cursor.                                    *)
(***************************************************************************)
Claimed(c) ==
    LET ready == { id \in idle : id >= cons[c].cursor }
    IN  { id \in ready : Cardinality({ k \in ready : k < id }) < Count }

\* Bug variant: the cursor stays where it is.
NextCursorStays(c) == { cons[c].cursor }

\* The cursor of the next scan: the first id after those scanned by this one,
\* or 0 when the scan is complete.
NextCursor(c) ==
    LET rest == { id \in pel : \A k \in Claimed(c) : k < id }
    IN  IF Cardinality(Claimed(c)) < Count \/ rest = {} THEN {0}
        ELSE { id \in rest : \A k \in rest : id <= k }

Recover(c) ==
    /\ cons[c].pc = "top" /\ cons[c].due
    /\ IF group
       THEN \E next \in NextCursor(c) :
              cons' = [cons EXCEPT ![c] =
                         With(c, { e \in stream : e.id \in Claimed(c) }, next)]
       ELSE cons' = [cons EXCEPT ![c] = With(c, {}, cons[c].cursor)]    \* NOGROUP
    /\ idle' = idle \ Claimed(c)
    /\ UNCHANGED <<stream, nextEntry, group, lastDelivered, pel, settled, losses, faults>>

\* XAUTOCLAIM is executed, but the loop sees an error and keeps its cursor.
RecoverReplyLost(c) ==
    /\ cons[c].pc = "top" /\ cons[c].due
    /\ group
    /\ Fault
    /\ idle' = idle \ Claimed(c)
    /\ cons' = [cons EXCEPT ![c] = With(c, {}, cons[c].cursor)]
    /\ UNCHANGED <<stream, nextEntry, group, lastDelivered, pel, settled, losses>>

-----------------------------------------------------------------------------
(***************************************************************************)
(* Start: XREADGROUP ... COUNT 1 STREAMS stream >.                         *)
(***************************************************************************)
Reading(c) == cons[c].pc = "read" \/ (cons[c].pc = "top" /\ ~cons[c].due)

\* The first entry the group has not delivered, if there are one and a group.
Undelivered ==
    { e \in stream : /\ group
                     /\ e.id > lastDelivered
                     /\ \A f \in stream : f.id > lastDelivered => e.id <= f.id }

\* Redis hands out the entry and puts it on the pending entries list.
Deliver(e) ==
    /\ lastDelivered' = e.id
    /\ pel' = pel \cup {e.id}

Read(c) ==
    /\ Reading(c)
    /\ \E e \in Undelivered :
          /\ Deliver(e)
          /\ cons' = [cons EXCEPT ![c] = With(c, {e}, cons[c].cursor)]
    /\ UNCHANGED <<stream, nextEntry, group, idle, settled, losses, faults>>

\* Nothing to read within a second, or NOGROUP.
ReadNothing(c) ==
    /\ Reading(c)
    /\ Undelivered = {}
    /\ cons' = [cons EXCEPT ![c].pc = "top"]
    /\ UNCHANGED <<stream, nextEntry, group, lastDelivered, pel, idle, settled,
                   losses, faults>>

\* XREADGROUP is executed, but the loop sees an error.
ReadReplyLost(c) ==
    /\ Reading(c)
    /\ Fault
    /\ \E e \in Undelivered : Deliver(e)
    /\ cons' = [cons EXCEPT ![c].pc = "top"]
    /\ UNCHANGED <<stream, nextEntry, group, idle, settled, losses>>

-----------------------------------------------------------------------------
(***************************************************************************)
(* handle, called for the entries of a batch in their order.               *)
(***************************************************************************)
Handling(c, e) ==
    /\ cons[c].pc = "handle"
    /\ e \in cons[c].batch
    /\ \A f \in cons[c].batch : e.id <= f.id

\* The entry cannot be parsed, or ProcessJob fails: it stays pending.
Retain(c, e) ==
    /\ Handling(c, e)
    /\ cons' = [cons EXCEPT ![c] = With(c, cons[c].batch \ {e}, cons[c].cursor)]
    /\ UNCHANGED <<stream, nextEntry, group, lastDelivered, pel, idle, settled,
                   losses, faults>>

Parsed(e) == e.body # Malformed

\* ProcessJob returns nil: the delivery is settled, XACK comes next.
ProcessOk(c, e) ==
    /\ Handling(c, e)
    /\ Parsed(e)
    /\ cons' = [cons EXCEPT ![c].pc = "ack"]
    /\ settled' = settled \cup {e}
    /\ UNCHANGED <<stream, nextEntry, group, lastDelivered, pel, idle, losses, faults>>

Acking(c, e) ==
    /\ cons[c].pc = "ack"
    /\ e \in cons[c].batch
    /\ \A f \in cons[c].batch : e.id <= f.id
    /\ cons' = [cons EXCEPT ![c] = With(c, cons[c].batch \ {e}, cons[c].cursor)]

\* XACK succeeds, or is executed and its reply lost; the owner is not checked.
Ack(c, e) ==
    /\ Acking(c, e)
    /\ pel' = pel \ {e.id}
    /\ idle' = idle \ {e.id}
    /\ UNCHANGED <<stream, nextEntry, group, lastDelivered, settled, losses, faults>>

\* XACK fails: only logged.
AckFails(c, e) ==
    /\ Acking(c, e)
    /\ Fault
    /\ UNCHANGED <<stream, nextEntry, group, lastDelivered, pel, idle, settled, losses>>

-----------------------------------------------------------------------------
\* A step the loop takes when nothing goes wrong.
Step(c) ==
    \/ Recover(c) \/ Read(c) \/ ReadNothing(c)
    \/ \E e \in cons[c].batch : Retain(c, e) \/ ProcessOk(c, e) \/ Ack(c, e)

Next ==
    \/ \E body \in Delivery \cup {Malformed} : Publish(body)
    \/ LoseStream
    \/ \E id \in pel : IdleGrows(id)
    \/ \E c \in Consumer :
          \/ Boot(c) \/ Exit(c) \/ RecoveryDue(c)
          \/ Step(c)
          \/ RecoverReplyLost(c) \/ ReadReplyLost(c)
          \/ \E e \in cons[c].batch : AckFails(c, e)

Spec == Init /\ [][Next]_vars

\* The ids there can be, from the three bounds.
Ids == 1 .. (MaxLosses + 1) * MaxCopies * (Cardinality(Delivery) + 1)

Settled(d) == \E e \in settled : e.body = d

(***************************************************************************)
(* Fairness.  A loop that runs goes on; clocks advance; Dispatch publishes *)
(* an unsettled delivery again (it keeps the intents of nonterminal jobs); *)
(* and a delivery that is handled again and again does not fail in MySQL   *)
(* every single time.  Nothing starts a process again by itself.           *)
(***************************************************************************)
Fairness ==
    /\ \A c \in Consumer : WF_vars(Step(c)) /\ WF_vars(RecoveryDue(c))
    /\ \A id \in Ids : WF_vars(IdleGrows(id))
    /\ \A d \in Delivery :
          /\ WF_vars(~Settled(d) /\ Publish(d))
          /\ SF_vars(\E c \in Consumer : \E e \in cons[c].batch :
                        e.body = d /\ ProcessOk(c, e))

FairSpec == Spec /\ Fairness

-----------------------------------------------------------------------------
\* Every variable has its type.
TypeOK ==
    /\ stream \subseteq Entry
    /\ nextEntry \in Nat \ {0}
    /\ group \in BOOLEAN
    /\ lastDelivered \in Nat
    /\ pel \subseteq Nat \ {0}
    /\ idle \subseteq pel
    /\ cons \in [Consumer -> Loop]
    /\ settled \subseteq [id: Nat \ {0}, body: Delivery]
    /\ losses \in 0 .. MaxLosses
    /\ faults \in 0 .. MaxFaults

\* No delivery is lost between the stream and ProcessJob: an entry Redis still
\* has is yet to be delivered, or pending where recovery finds it, unless
\* ProcessJob returned nil for that very entry.  It holds with lost replies,
\* failed acknowledgements, exits and losses of the whole stream, and it says
\* that entries handle() cannot parse are retained.
NoDeliveryLost ==
    \A e \in stream : e.id > lastDelivered \/ e.id \in pel \/ e \in settled

\* The entries that are yet to be delivered, or pending where recovery finds them.
Waiting == { e \in stream : e.id > lastDelivered \/ e.id \in pel }

Queue == INSTANCE DeliveryQueue WITH
    waiting <- Waiting, held <- [c \in Consumer |-> cons[c].batch], handled <- settled

\* Stream, group, pending list and scan are an at-least-once queue: a loop takes
\* only what is neither acknowledged nor lost; what leaves the stream's keeping
\* was handled by the loop that acknowledges it; and what has left it, by an
\* acknowledgement or with Redis' data, is never handed out again, although a new
\* group starts at "0" and ids are all that an XACK goes by.
ImplementsQueue == Queue!Spec

Running == \E c \in Consumer : cons[c].pc # "down"

\* As long as the group is there and a worker runs in the end, every delivery is
\* settled: the scan reaches entries behind others that are retained for good,
\* and what exits, lost replies and a loss of the stream that was followed by a
\* new start leave behind is taken up again.
EverySettled == <>[](group /\ Running) => \A d \in Delivery : <>Settled(d)

\* "Retaining nonterminal intents also heals lost Redis stream deliveries"
\* (README.md), "Redis stream is lost: Nonterminal dispatch intents republish"
\* (docs/reliability.md): as long as a worker runs, every delivery is settled,
\* even if the stream is lost once.  The code creates the group only when a
\* process starts, so a running worker gets NOGROUP from then on.
LostStreamHeals == <>[]Running => \A d \in Delivery : <>Settled(d)

=============================================================================
