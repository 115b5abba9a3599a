---------------------------- MODULE DeliveryQueue ----------------------------
(***************************************************************************)
(* What the stream promises the worker: at-least-once delivery, without    *)
(* ids, groups, pending lists, idle times or cursors.  An entry waits until *)
(* somebody who was handed it has handled it and says so; until then it    *)
(* may be handed out again and again, to several at once; and once it is   *)
(* acknowledged it never comes back.  Only a loss of the whole queue takes *)
(* entries away otherwise.  ConsumerGroup implements it.                   *)
(***************************************************************************)
EXTENDS Naturals

CONSTANT Consumer  \* who takes entries

VARIABLES
    waiting,   \* entries put and not acknowledged
    held,      \* what each consumer has been handed and is yet to handle
    handled,   \* entries handled with success
    losses     \* how often the queue was lost

vars == <<waiting, held, handled, losses>>

Init ==
    /\ waiting = {}
    /\ held = [c \in Consumer |-> {}]
    /\ handled = {}
    /\ losses = 0

\* An entry, whatever it says, is put once.
Put(e) ==
    /\ e \notin waiting \cup handled
    /\ \A c \in Consumer : e \notin held[c]
    /\ waiting' = waiting \cup {e}
    /\ UNCHANGED <<held, handled, losses>>

Take(c, batch) ==
    /\ held[c] = {}
    /\ batch \subseteq waiting
    /\ held' = [held EXCEPT ![c] = batch]
    /\ UNCHANGED <<waiting, handled, losses>>

Handle(c, e) ==
    /\ e \in held[c]
    /\ handled' = handled \cup {e}
    /\ UNCHANGED <<waiting, held, losses>>

\* The consumer is through with the entry, and the entry with the queue.
Acknowledge(c, e) ==
    /\ e \in held[c] \cap handled
    /\ waiting' = waiting \ {e}
    /\ held' = [held EXCEPT ![c] = @ \ {e}]
    /\ UNCHANGED <<handled, losses>>

\* The consumer leaves entries where they are: one, or, when it stops, all.
Leave(c, batch) ==
    /\ held' = [held EXCEPT ![c] = @ \ batch]
    /\ UNCHANGED <<waiting, handled, losses>>

Lose ==
    /\ waiting' = {}
    /\ losses' = losses + 1
    /\ UNCHANGED <<held, handled>>

Next ==
    \/ \E e \in waiting' : Put(e)
    \/ \E c \in Consumer :
          \/ \E batch \in SUBSET waiting : Take(c, batch)
          \/ \E e \in held[c] : Handle(c, e) \/ Acknowledge(c, e)
          \/ \E batch \in SUBSET held[c] : Leave(c, batch)
    \/ Lose

Spec == Init /\ [][Next]_vars
=============================================================================
