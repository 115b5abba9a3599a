---------------------------- MODULE JobLifecycle ----------------------------
(***************************************************************************)
(* What the service promises about one job, without leases, outbox,        *)
(* deliveries, heartbeats or clocks: the state diagram of                  *)
(* docs/reliability.md with its attempt budget and its generations.        *)
(* JobStore implements it.                                                 *)
(***************************************************************************)
EXTENDS Naturals

CONSTANTS
    Job,      \* job ids
    Budgets   \* the values max_retries may have, a set of natural numbers

VARIABLE life   \* where each job stands: [status, generation, attempts, budget]

Stage(status, generation, attempts, budget) ==
    [status |-> status, generation |-> generation,
     attempts |-> attempts, budget |-> budget]

Unknown == Stage("ABSENT", 0, 0, 0)

\* Jobs accepted before the durable-delivery release enter in any stage that
\* is not COMPLETED, with what is left of their budget.
Inherited ==
    UNION { { Stage("PENDING", 1, n, b) : n \in 0 .. b + 1 }
            \cup { Stage("FAILED", 1, 0, b), Stage("DEAD", 1, 0, b) } : b \in Budgets }

Init == life \in [Job -> { Unknown } \cup Inherited]

Exhausted(j) == life[j].attempts > life[j].budget

Become(j, stage) == life' = [life EXCEPT ![j] = stage]

\* The same generation and budget, in another status.
Move(j, status, attempts) ==
    Become(j, Stage(status, life[j].generation, attempts, life[j].budget))

\* Accepted through the API, exactly once.
Accept(j, b) ==
    /\ life[j].status = "ABSENT"
    /\ Become(j, Stage("PENDING", 1, 0, b))

\* An attempt begins, the first, a retry, or one that replaces an interrupted one.
Begin(j) ==
    /\ life[j].status \in {"PENDING", "PROCESSING"}
    /\ ~Exhausted(j)
    /\ Move(j, "PROCESSING", life[j].attempts + 1)

Complete(j) ==
    /\ life[j].status = "PROCESSING"
    /\ Move(j, "COMPLETED", life[j].attempts)

\* A transient failure with budget left.
Reschedule(j) ==
    /\ life[j].status = "PROCESSING"
    /\ ~Exhausted(j)
    /\ Move(j, "PENDING", life[j].attempts)

\* A permanent failure, or nothing left of the budget.
Bury(j) ==
    /\ \/ life[j].status = "PROCESSING"
       \/ life[j].status = "PENDING" /\ Exhausted(j)
    /\ Move(j, "DEAD", life[j].attempts)

\* A requeue: a new generation with the whole budget.
Replay(j) ==
    /\ life[j].status \in {"DEAD", "FAILED"}
    /\ Become(j, Stage("PENDING", life[j].generation + 1, 0, life[j].budget))

Next ==
    \E j \in Job :
        \/ \E b \in Budgets : Accept(j, b)
        \/ Begin(j) \/ Complete(j) \/ Reschedule(j) \/ Bury(j) \/ Replay(j)

Spec == Init /\ [][Next]_life
=============================================================================
