------------------------- MODULE JobStoreInvariant --------------------------
(***************************************************************************)
(* The inductive invariant of JobStore: what the proofs of its safety      *)
(* properties need to know of every reachable state.                       *)
(***************************************************************************)
EXTENDS JobStore

\* A job row: generations count from 1, attempts stay in the budget, and the
\* wait of a retry is over once an attempt has begun.
JobInv ==
    \A j \in Job :
        /\ jobs[j].status = "ABSENT" <=> jobs[j].generation = 0
        /\ jobs[j].attempt_count <= jobs[j].max_retries + 1
        /\ jobs[j].status = "PROCESSING" => jobs[j].next_attempt_at = 0

\* Outbox rows have distinct ids and never run ahead of their job: no row of a
\* future generation, none beyond the next attempt, and while an attempt is
\* executing not even that one.
OutboxInv ==
    /\ \A r \in outbox :
          /\ r.id < nextId
          /\ 1 <= r.generation
          /\ r.generation <= jobs[r.job_id].generation
          /\ r.generation = jobs[r.job_id].generation =>
                /\ r.attempt <= jobs[r.job_id].attempt_count + 1
                /\ jobs[r.job_id].status = "PROCESSING" =>
                      r.attempt <= jobs[r.job_id].attempt_count
    /\ \A r, q \in outbox : r.id = q.id => r = q

\* What an open outbox transaction has read still holds of the row it locks:
\* the row is available, and a decision to delete it can not become wrong.
DispatchInv ==
    \A d \in Dispatcher : disp[d].pc # "idle" =>
        /\ disp[d].id < nextId
        /\ disp[d].pc = "mark" => <<disp[d].job_id, disp[d].generation>> \in sent
        /\ \A r \in outbox : r.id = disp[d].id =>
              /\ r.job_id = disp[d].job_id
              /\ r.generation = disp[d].generation
              /\ r.available_at = 0
              /\ disp[d].pc = "delete" => Obsolete(r.job_id, r.generation)

\* FAILED is a status of earlier releases: nothing was ever dispatched for such a
\* job, so no delivery can start it before it is replayed.
FailedInv ==
    \A j \in Job : jobs[j].status = "FAILED" =>
        /\ \A r \in outbox : r.job_id # j
        /\ \A d \in Dispatcher : disp[d].job_id # j
        /\ \A m \in sent : m[1] # j

\* A worker's attempt is never ahead of its job, and is the current attempt
\* whenever the worker still owns the lease.
TaskInv ==
    \A w \in Worker : proc[w].pc # "idle" =>
        LET j == proc[w].job_id
        IN  /\ 1 <= proc[w].generation
            /\ proc[w].generation <= jobs[j].generation
            /\ /\ proc[w].generation = jobs[j].generation
               /\ jobs[j].status = "PROCESSING"
               /\ jobs[j].lease_owner = w
               => proc[w].attempt_count = jobs[j].attempt_count
            /\ proc[w].outcome = "PENDING" => proc[w].attempt_count <= jobs[j].max_retries
            /\ proc[w].outcome = "COMPLETED" =>
                  <<j, proc[w].generation>> \in succeeded

\* Executions begun are attempts counted; none belongs to a future generation.
StartsInv ==
    \A j \in Job, g \in Generations :
        /\ g = jobs[j].generation => starts[j][g] <= jobs[j].attempt_count
        /\ g > jobs[j].generation => starts[j][g] = 0

AuditInv == \A j \in Job : audit[j].to_status = jobs[j].status

\* The inductive invariant.
IInv ==
    /\ TypeOK
    /\ JobInv /\ OutboxInv /\ DispatchInv /\ FailedInv /\ TaskInv /\ StartsInv /\ AuditInv
    /\ DurableIntent /\ RetryIntentOwnsDelivery /\ PublishedWasSent
    /\ BudgetRespected /\ CompletedWasExecuted
=============================================================================
