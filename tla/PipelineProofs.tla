---------------------------- MODULE PipelineProofs ----------------------------
(***************************************************************************)
(* Proofs about the tables (JobStore), the waits between the attempts of a *)
(* job (RetryDelays) and the pipeline (ScaleQueue), for every set of jobs, *)
(* workers and dispatchers and every value of the other constants.  The    *)
(* pipeline implements JobStore, so what is proved of the tables under any *)
(* worker and any delivery holds of the tables of the pipeline.            *)
(***************************************************************************)
EXTENDS ScaleQueue, RetryDelays, JobStoreInvariant, FiniteSetTheorems, TLAPS

(***************************************************************************)
(* The tables.                                                             *)
(***************************************************************************)
LEMMA StatusNames ==
    /\ Outcome \subseteq Status
    /\ \A s \in {"ABSENT", "PENDING", "PROCESSING", "FAILED", "DEAD"} : s \in Status
BY DEF Status, Outcome, Terminal

\* The changes of a job row that the transactions make keep its type.
LEMMA ClaimedRow ==
    ASSUME NEW r \in JobRow, NEW s \in Status, NEW n \in Nat,
           NEW w \in Worker \cup {None}, NEW t \in Nat
    PROVE  [r EXCEPT !.status = s, !.attempt_count = n,
                     !.lease_owner = w, !.lease_until = t] \in JobRow
BY DEF JobRow

LEMMA BuriedRow ==
    ASSUME NEW r \in JobRow, NEW s \in Status, NEW w \in Worker \cup {None}, NEW t \in Nat
    PROVE  [r EXCEPT !.status = s, !.lease_owner = w, !.lease_until = t] \in JobRow
BY DEF JobRow

LEMMA FinishedRow ==
    ASSUME NEW r \in JobRow, NEW s \in Status, NEW w \in Worker \cup {None},
           NEW t \in Nat, NEW u \in Nat
    PROVE  [r EXCEPT !.status = s, !.next_attempt_at = u,
                     !.lease_owner = w, !.lease_until = t] \in JobRow
BY DEF JobRow

LEMMA RenewedRow ==
    ASSUME NEW r \in JobRow, NEW t \in Nat
    PROVE  [r EXCEPT !.lease_until = t] \in JobRow
BY DEF JobRow

LEMMA OlderRow ==
    ASSUME NEW r \in JobRow, NEW t \in Nat, NEW u \in Nat
    PROVE  [r EXCEPT !.next_attempt_at = t, !.lease_until = u] \in JobRow
BY DEF JobRow

LEMMA OlderIntent ==
    ASSUME NEW r \in OutboxRow, NEW t \in Nat, NEW u \in Nat
    PROVE  [r EXCEPT !.available_at = t, !.published_at = u] \in OutboxRow
BY DEF OutboxRow

LEMMA MarkedIntent ==
    ASSUME NEW r \in OutboxRow
    PROVE  [r EXCEPT !.published_at = RepublishAfter] \in OutboxRow
BY ConstantsAssumption DEF OutboxRow

LEMMA FreshType ==
    ASSUME NEW s \in Status, NEW g \in Nat, NEW n \in Nat, NEW b \in Nat
    PROVE  Fresh(s, g, n, b) \in JobRow
BY DEF Fresh, JobRow

LEMMA IntentType ==
    ASSUME NEW id \in Nat, NEW j \in Job, NEW g \in Nat, NEW n \in Nat, NEW t \in Nat
    PROVE  Intent(id, j, g, n, t) \in OutboxRow
BY DEF Intent, OutboxRow

LEMMA InitJobs == Init => jobs \in [Job -> StartingRows]
BY DEF Init

LEMMA InitRow ==
    ASSUME Init, NEW j \in Job
    PROVE  \E s \in {"ABSENT", "PENDING", "FAILED", "DEAD"}, b \in Budgets :
               jobs[j] \in Migrated(s, b)
BY InitJobs DEF StartingRows

LEMMA InitType == Init => TypeOK
<1> SUFFICES ASSUME Init PROVE TypeOK
  OBVIOUS
<1>1. Cardinality(Job) \in Nat
  BY ConstantsAssumption, FS_CardinalityType
<1>2. jobs \in [Job -> JobRow]
  <2>1. ASSUME NEW s \in {"ABSENT", "PENDING", "FAILED", "DEAD"}, NEW b \in Budgets
        PROVE  Migrated(s, b) \subseteq JobRow
    <3>1. b \in Nat /\ 1 \in Nat /\ 0 \in Nat /\ \A n \in 0 .. b + 1 : n \in Nat
      BY ConstantsAssumption
    <3>2. CASE s = "ABSENT"
      BY <3>1, <3>2, StatusNames, FreshType DEF Migrated
    <3>3. CASE s = "PENDING"
      BY <3>1, <3>3, StatusNames, FreshType DEF Migrated
    <3>4. CASE s \in {"FAILED", "DEAD"}
      BY <3>1, <3>4, StatusNames, FreshType DEF Migrated
    <3> QED
      BY <3>2, <3>3, <3>4
  <2> QED
    BY <2>1, InitJobs DEF StartingRows
<1>3. outbox \subseteq OutboxRow
  <2>1. PICK number \in [Job -> 1 .. Cardinality(Job)] :
            outbox = { Intent(number[j], j, 1, jobs[j].attempt_count + 1, 0) :
                         j \in { i \in Job : jobs[i].status = "PENDING" } }
    BY DEF Init
  <2>2. ASSUME NEW j \in Job
        PROVE  Intent(number[j], j, 1, jobs[j].attempt_count + 1, 0) \in OutboxRow
    BY <1>1, <1>2, IntentType DEF JobRow
  <2> QED
    BY <2>1, <2>2
<1>4. audit \in [Job -> AuditRow]
  BY <1>2, StatusNames DEF Init, AuditRow, JobRow
<1>5. sent \subseteq Job \X Nat
  BY DEF Init
<1> QED
  BY <1>1, <1>2, <1>3, <1>4, <1>5 DEF Init, TypeOK

\* What each transaction leaves in the table jobs has the type of a row.
LEMMA UpdateType ==
    ASSUME TypeOK, NEW j \in Job, NEW row \in JobRow, UpdateJob(j, row)
    PROVE  jobs' \in [Job -> JobRow]
BY DEF UpdateJob, TypeOK

LEMMA LogType ==
    ASSUME TypeOK, NEW j \in Job, NEW from \in Status, NEW to \in Status, Log(j, from, to)
    PROVE  audit' \in [Job -> AuditRow]
BY DEF Log, TypeOK, AuditRow

LEMMA InsertType ==
    ASSUME TypeOK, NEW j \in Job, NEW g \in Nat, NEW n \in Nat, NEW t \in Nat,
           InsertIntent(j, g, n, t)
    PROVE  outbox' \subseteq OutboxRow /\ nextId' \in Nat
BY IntentType DEF InsertIntent, TypeOK

LEMMA NextType == TypeOK /\ [Next]_vars => TypeOK'
<1> SUFFICES ASSUME TypeOK, [Next]_vars PROVE TypeOK'
  OBVIOUS
<1> USE ConstantsAssumption
<1>1. ASSUME NEW j \in Job, NEW b \in Budgets, Create(j, b) PROVE TypeOK'
  <2>1. Fresh("PENDING", 1, 0, b) \in JobRow
    BY StatusNames, FreshType
  <2>2. jobs' \in [Job -> JobRow]
    BY <1>1, <2>1, UpdateType DEF Create
  <2>3. audit' \in [Job -> AuditRow]
    BY <1>1, StatusNames, LogType DEF Create
  <2>4. outbox' \subseteq OutboxRow /\ nextId' \in Nat
    BY <1>1, InsertType DEF Create
  <2> QED
    BY <1>1, <2>2, <2>3, <2>4 DEF Create, TypeOK
<1>2. ASSUME NEW j \in Job, Requeue(j) PROVE TypeOK'
  <2>1. /\ jobs[j].status \in Status
        /\ jobs[j].generation + 1 \in Nat
        /\ jobs[j].max_retries \in Nat
    BY DEF TypeOK, JobRow
  <2>2. Fresh("PENDING", jobs[j].generation + 1, 0, jobs[j].max_retries) \in JobRow
    BY <2>1, StatusNames, FreshType
  <2>3. jobs' \in [Job -> JobRow]
    BY <1>2, <2>2, UpdateType DEF Requeue
  <2>4. audit' \in [Job -> AuditRow]
    BY <1>2, <2>1, StatusNames, LogType DEF Requeue
  <2>5. outbox' \subseteq OutboxRow /\ nextId' \in Nat
    BY <1>2, <2>1, InsertType DEF Requeue
  <2> QED
    BY <1>2, <2>3, <2>4, <2>5 DEF Requeue, TypeOK
<1>3. ASSUME NEW d \in Dispatcher, DispatchSelect(d) PROVE TypeOK'
  <2>1. PICK r \in outbox : disp' = [disp EXCEPT ![d] = [pc |-> "read", id |-> r.id,
                               job_id |-> r.job_id, generation |-> r.generation]]
    BY <1>3 DEF DispatchSelect
  <2>2. r.id \in Nat /\ r.job_id \in Job /\ r.generation \in Nat
    BY DEF TypeOK, OutboxRow
  <2>3. disp' \in [Dispatcher -> Transaction \cup {NoTransaction}]
    BY <2>1, <2>2 DEF TypeOK, Transaction
  <2> QED
    BY <1>3, <2>3 DEF DispatchSelect, TypeOK
<1>4. ASSUME NEW d \in Dispatcher, DispatchRead(d) PROVE TypeOK'
  BY <1>4 DEF DispatchRead, TypeOK, Transaction, NoTransaction
<1>5. ASSUME NEW d \in Dispatcher, DispatchPublish(d) PROVE TypeOK'
  <2>1. disp[d] \in Transaction
    BY <1>5 DEF DispatchPublish, TypeOK, NoTransaction
  <2>2. disp[d].job_id \in Job /\ disp[d].generation \in Nat
    BY <2>1 DEF Transaction
  <2>3. sent' \subseteq Job \X Nat
    BY <1>5, <2>2 DEF DispatchPublish, TypeOK
  <2>4. [disp[d] EXCEPT !.pc = "mark"] \in Transaction
    BY <2>1 DEF Transaction
  <2>5. disp' \in [Dispatcher -> Transaction \cup {NoTransaction}]
    BY <1>5, <2>4 DEF DispatchPublish, TypeOK
  <2> QED
    BY <1>5, <2>3, <2>5 DEF DispatchPublish, TypeOK
<1>6. ASSUME NEW d \in Dispatcher, DispatchMark(d) PROVE TypeOK'
  <2>1. \A r \in outbox : [r EXCEPT !.published_at = RepublishAfter] \in OutboxRow
    BY MarkedIntent DEF TypeOK
  <2> QED
    BY <1>6, <2>1 DEF DispatchMark, TypeOK
<1>7. ASSUME NEW d \in Dispatcher, DispatchDelete(d) PROVE TypeOK'
  BY <1>7 DEF DispatchDelete, TypeOK
<1>8. ASSUME NEW d \in Dispatcher, DispatchFail(d) PROVE TypeOK'
  BY <1>8 DEF DispatchFail, TypeOK
<1>9. ASSUME NEW w \in Worker, NEW j \in Job, NEW g \in Generations, ClaimCommits(w, j, g)
      PROVE  jobs' \in [Job -> JobRow] /\ audit' \in [Job -> AuditRow]
  <2>1. jobs[j] \in JobRow
    BY DEF TypeOK
  <2>2. jobs[j].status \in Status /\ jobs[j].attempt_count + 1 \in Nat
    BY <2>1 DEF JobRow
  <2>3. Leased(j, w) \in JobRow
    BY <2>1, <2>2, StatusNames, ClaimedRow DEF Leased
  <2> QED
    BY <1>9, <2>2, <2>3, StatusNames, UpdateType, LogType DEF ClaimCommits
<1>10. ASSUME NEW w \in Worker, NEW j \in Job, NEW g \in Generations, Claim(w, j, g)
       PROVE  TypeOK'
  <2>1. jobs' \in [Job -> JobRow] /\ audit' \in [Job -> AuditRow]
    BY <1>9, <1>10 DEF Claim
  <2>2. proc' \in [Worker -> Task \cup {NoTask}]
    BY <1>10 DEF Claim, TypeOK, JobRow, Task, Attempt, Generations
  <2>3. starts' \in [Job -> [Generations -> Nat]]
    BY <1>10 DEF Claim, TypeOK
  <2> QED
    BY <1>10, <2>1, <2>2, <2>3 DEF Claim, TypeOK
<1>11. ASSUME NEW w \in Worker, NEW j \in Job, NEW g \in Generations, ClaimReplyLost(w, j, g)
       PROVE  TypeOK'
  BY <1>9, <1>11 DEF ClaimReplyLost, TypeOK
<1>12. ASSUME NEW w \in Worker, NEW j \in Job, NEW g \in Generations, ClaimExhausted(w, j, g)
       PROVE  TypeOK'
  <2> DEFINE row == [jobs[j] EXCEPT !.status = "DEAD", !.lease_owner = None,
                                    !.lease_until = 0]
  <2>1. jobs[j].status \in Status /\ jobs[j] \in JobRow
    BY DEF TypeOK, JobRow
  <2>3. row \in JobRow
    BY <2>1, StatusNames, BuriedRow
  <2>2. jobs' \in [Job -> JobRow] /\ audit' \in [Job -> AuditRow]
    BY <1>12, <2>1, <2>3, StatusNames, UpdateType, LogType DEF ClaimExhausted
  <2> QED
    BY <1>12, <2>2 DEF ClaimExhausted, TypeOK
<1>13. ASSUME NEW b \in beats, RenewLands(b) PROVE TypeOK'
  <2>1. b.job_id \in Job /\ jobs[b.job_id] \in JobRow
    BY DEF TypeOK, Beat
  <2>3. [jobs[b.job_id] EXCEPT !.lease_until = LeaseTime] \in JobRow
    BY <2>1, RenewedRow
  <2>2. jobs' \in [Job -> JobRow]
    BY <1>13, <2>1, <2>3, UpdateType DEF RenewLands
  <2> QED
    BY <1>13, <2>2 DEF RenewLands, TypeOK
<1>14. ASSUME NEW b \in beats, RenewFails(b) PROVE TypeOK'
  <2>1. proc' \in [Worker -> Task \cup {NoTask}]
    BY <1>14 DEF RenewFails, TypeOK, Beat, Task, Attempt, NoTask
  <2> QED
    BY <1>14, <2>1 DEF RenewFails, TypeOK
<1>15. ASSUME NEW w \in Worker, BeatSend(w) PROVE TypeOK'
  <2>1. Heartbeat(w) \in Beat
    BY <1>15 DEF BeatSend, Heartbeat, Beat, TypeOK, Task, Attempt, NoTask
  <2> QED
    BY <1>15, <2>1 DEF BeatSend, TypeOK
<1>16. ASSUME NEW w \in Worker, Abandon(w) PROVE TypeOK'
  BY <1>16 DEF Abandon, TypeOK
<1>17. ASSUME NEW w \in Worker, NEW result \in {"ok", "transient", "permanent"},
              HandlerReturns(w, result)
       PROVE  TypeOK'
  <2>1. proc' \in [Worker -> Task \cup {NoTask}]
    BY <1>17 DEF HandlerReturns, TypeOK, Task, Attempt, NoTask
  <2>2. succeeded' \subseteq Job \X Nat
    BY <1>17 DEF HandlerReturns, TypeOK, Task, Attempt, NoTask
  <2> QED
    BY <1>17, <2>1, <2>2 DEF HandlerReturns, TypeOK
<1>18. ASSUME NEW w \in Worker, NEW delay \in Delays, Finish(w, delay) PROVE TypeOK'
  <2> DEFINE j == proc[w].job_id
             wait == IF proc[w].outcome = "COMPLETED" THEN 0 ELSE delay
             row == [jobs[j] EXCEPT !.status = proc[w].outcome, !.next_attempt_at = wait,
                                    !.lease_owner = None, !.lease_until = 0]
  <2>1. j \in Job /\ proc[w].outcome \in Status /\ wait \in Nat
    BY <1>18, StatusNames DEF Finish, TypeOK, Task, Attempt, NoTask
  <2>6. jobs[j] \in JobRow
    BY <2>1 DEF TypeOK
  <2>7. jobs[j].generation \in Nat /\ jobs[j].attempt_count + 1 \in Nat
    BY <2>6 DEF JobRow
  <2>2. row \in JobRow
    BY <2>1, <2>6, FinishedRow
  <2>3. UpdateJob(j, row) /\ Log(j, "PROCESSING", proc[w].outcome)
    BY <1>18 DEF Finish
  <2>4. jobs' \in [Job -> JobRow] /\ audit' \in [Job -> AuditRow]
    BY <2>1, <2>2, <2>3, StatusNames, UpdateType, LogType
  <2>5. outbox' \subseteq OutboxRow /\ nextId' \in Nat
    <3>1. CASE proc[w].outcome = "PENDING"
      BY <1>18, <2>1, <2>7, <3>1, InsertType DEF Finish
    <3>2. CASE proc[w].outcome # "PENDING"
      BY <1>18, <3>2 DEF Finish, TypeOK
    <3> QED
      BY <3>1, <3>2
  <2> QED
    BY <1>18, <2>4, <2>5 DEF Finish, TypeOK
<1>19. CASE Tick
  <2>1. \A t \in Nat : Down(t) \in Nat
    BY DEF Down
  <2>2. jobs' \in [Job -> JobRow]
    <3>1. ASSUME NEW j \in Job
          PROVE  [jobs[j] EXCEPT !.next_attempt_at = Down(jobs[j].next_attempt_at),
                                 !.lease_until = Down(jobs[j].lease_until)] \in JobRow
      <4>1. jobs[j] \in JobRow
        BY DEF TypeOK
      <4>2. jobs[j].next_attempt_at \in Nat /\ jobs[j].lease_until \in Nat
        BY <4>1 DEF JobRow
      <4> QED
        BY <2>1, <4>1, <4>2, OlderRow
    <3> QED
      BY <1>19, <3>1 DEF Tick
  <2>3. outbox' \subseteq OutboxRow
    <3>1. ASSUME NEW r \in outbox
          PROVE  [r EXCEPT !.available_at = Down(r.available_at),
                           !.published_at = Down(r.published_at)] \in OutboxRow
      <4>1. r \in OutboxRow
        BY DEF TypeOK
      <4>2. r.available_at \in Nat /\ r.published_at \in Nat
        BY <4>1 DEF OutboxRow
      <4> QED
        BY <2>1, <4>1, <4>2, OlderIntent
    <3> QED
      BY <1>19, <3>1 DEF Tick
  <2> QED
    BY <1>19, <2>2, <2>3 DEF Tick, TypeOK
<1>20. CASE UNCHANGED vars
  BY <1>20 DEF vars, TypeOK
<1> QED
  BY <1>1, <1>2, <1>3, <1>4, <1>5, <1>6, <1>7, <1>8, <1>10, <1>11, <1>12, <1>13,
     <1>14, <1>15, <1>16, <1>17, <1>18, <1>19, <1>20 DEF Next

\* The columns, the open transactions, the tasks and the histories keep their
\* types, whatever the interleaving of API, dispatchers, workers and clock.
THEOREM TypeCorrect == Spec => []TypeOK
BY InitType, NextType, PTL DEF Spec

-----------------------------------------------------------------------------
(***************************************************************************)
(* The inductive invariant.                                                *)
(***************************************************************************)
\* The rows that matter to the invariant: the type of a job row and of a task.
LEMMA RowFacts ==
    ASSUME TypeOK, NEW j \in Job
    PROVE  /\ jobs[j] \in JobRow
           /\ jobs[j].generation \in Nat /\ jobs[j].attempt_count \in Nat
           /\ jobs[j].max_retries \in Nat /\ jobs[j].next_attempt_at \in Nat
           /\ jobs[j].lease_until \in Nat
BY DEF TypeOK, JobRow

LEMMA TaskFacts ==
    ASSUME TypeOK, NEW w \in Worker, proc[w].pc # "idle"
    PROVE  /\ proc[w].job_id \in Job
           /\ proc[w].generation \in Nat
           /\ proc[w].attempt_count \in Nat
           /\ proc[w].pc = "finishing" => proc[w].outcome \in Outcome
           /\ proc[w].pc # "finishing" => proc[w].outcome = "none"
BY DEF TypeOK, Task, Attempt, NoTask

LEMMA DownFacts == \A t \in Nat : Down(t) \in Nat /\ (Down(t) > 0 => t > 0)
BY DEF Down

(***************************************************************************)
(* A transaction does one of seven things to the row of a job.             *)
(***************************************************************************)
Kept(j) ==
    /\ jobs'[j].status = jobs[j].status
    /\ jobs'[j].generation = jobs[j].generation
    /\ jobs'[j].attempt_count = jobs[j].attempt_count
    /\ jobs'[j].max_retries = jobs[j].max_retries
    /\ jobs'[j].lease_owner = jobs[j].lease_owner
    /\ jobs'[j].next_attempt_at \in {jobs[j].next_attempt_at, Down(jobs[j].next_attempt_at)}

LEMMA TickKeeps ==
    ASSUME TypeOK, Tick, NEW j \in Job
    PROVE  Kept(j) /\ jobs'[j].next_attempt_at = Down(jobs[j].next_attempt_at)
BY RowFacts DEF Tick, Kept, JobRow

LEMMA RenewKeeps ==
    ASSUME TypeOK, NEW b \in beats, RenewLands(b), NEW j \in Job
    PROVE  Kept(j) /\ jobs'[j].next_attempt_at = jobs[j].next_attempt_at
<1>1. b.job_id \in Job
  BY DEF TypeOK, Beat
<1> QED
  BY <1>1, RowFacts DEF RenewLands, UpdateJob, Kept, TypeOK, JobRow

LEMMA ClaimUpdates ==
    ASSUME TypeOK, NEW w \in Worker, NEW j \in Job, NEW g \in Generations,
           ClaimCommits(w, j, g)
    PROVE  /\ jobs'[j].status = "PROCESSING"
           /\ jobs'[j].generation = jobs[j].generation
           /\ jobs'[j].attempt_count = jobs[j].attempt_count + 1
           /\ jobs'[j].max_retries = jobs[j].max_retries
           /\ jobs'[j].lease_owner = w
           /\ jobs'[j].next_attempt_at = jobs[j].next_attempt_at
           /\ \A i \in Job : i # j => jobs'[i] = jobs[i]
           /\ jobs[j].attempt_count <= jobs[j].max_retries
           /\ jobs[j].next_attempt_at = 0
           /\ jobs[j].generation = g
           /\ jobs[j].status \notin {"ABSENT", "COMPLETED", "DEAD"}
BY RowFacts DEF ClaimCommits, UpdateJob, Leased, TypeOK, JobRow, Claimable, Exhausted,
                Early, Ignored, Obsolete, Terminal

LEMMA BuryUpdates ==
    ASSUME TypeOK, NEW w \in Worker, NEW j \in Job, NEW g \in Generations,
           ClaimExhausted(w, j, g)
    PROVE  /\ jobs'[j].status = "DEAD"
           /\ jobs'[j].generation = jobs[j].generation
           /\ jobs'[j].attempt_count = jobs[j].attempt_count
           /\ jobs'[j].max_retries = jobs[j].max_retries
           /\ jobs'[j].lease_owner = None
           /\ jobs'[j].next_attempt_at = jobs[j].next_attempt_at
           /\ \A i \in Job : i # j => jobs'[i] = jobs[i]
           /\ jobs[j].status \notin {"ABSENT", "COMPLETED", "DEAD"}
BY RowFacts DEF ClaimExhausted, UpdateJob, TypeOK, JobRow, Claimable,
                Ignored, Obsolete, Terminal

LEMMA FinishUpdates ==
    ASSUME TypeOK, NEW w \in Worker, NEW delay \in Delays, Finish(w, delay),
           NEW j \in Job, j = proc[w].job_id
    PROVE  /\ jobs'[j].status = proc[w].outcome
           /\ proc[w].outcome \in Outcome
           /\ jobs'[j].generation = jobs[j].generation
           /\ jobs'[j].attempt_count = jobs[j].attempt_count
           /\ jobs'[j].max_retries = jobs[j].max_retries
           /\ jobs'[j].lease_owner = None
           /\ jobs'[j].next_attempt_at = IF proc[w].outcome = "COMPLETED" THEN 0 ELSE delay
           /\ \A i \in Job : i # j => jobs'[i] = jobs[i]
           /\ jobs[j].status = "PROCESSING"
           /\ jobs[j].lease_owner = w
           /\ jobs[j].lease_until > 0
           /\ jobs[j].generation = proc[w].generation
BY RowFacts, TaskFacts DEF Finish, UpdateJob, TypeOK, JobRow, Fence

LEMMA CreateUpdates ==
    ASSUME TypeOK, NEW j \in Job, NEW b \in Budgets, Create(j, b)
    PROVE  /\ jobs'[j].status = "PENDING" /\ jobs'[j].generation = 1
           /\ jobs'[j].attempt_count = 0 /\ jobs'[j].max_retries = b
           /\ jobs'[j].next_attempt_at = 0 /\ jobs'[j].lease_owner = None
           /\ \A i \in Job : i # j => jobs'[i] = jobs[i]
           /\ jobs[j].status = "ABSENT"
           /\ b \in Nat
BY ConstantsAssumption DEF Create, UpdateJob, TypeOK, Fresh

LEMMA RequeueUpdates ==
    ASSUME TypeOK, NEW j \in Job, Requeue(j)
    PROVE  /\ jobs'[j].status = "PENDING" /\ jobs'[j].generation = jobs[j].generation + 1
           /\ jobs'[j].attempt_count = 0 /\ jobs'[j].max_retries = jobs[j].max_retries
           /\ jobs'[j].next_attempt_at = 0 /\ jobs'[j].lease_owner = None
           /\ \A i \in Job : i # j => jobs'[i] = jobs[i]
           /\ jobs[j].status \in {"DEAD", "FAILED"}
BY DEF Requeue, UpdateJob, TypeOK, Fresh

\* Every step keeps a job's row, up to timers, or is one of five transactions on it.
LEMMA JobRowSteps ==
    ASSUME TypeOK, [Next]_vars, NEW j \in Job
    PROVE  \/ Kept(j)
           \/ \E b \in Budgets : Create(j, b)
           \/ Requeue(j)
           \/ \E w \in Worker, g \in Generations : <<j, g>> \in sent /\ ClaimCommits(w, j, g)
           \/ \E w \in Worker, g \in Generations : <<j, g>> \in sent /\ ClaimExhausted(w, j, g)
           \/ \E w \in Worker, delay \in Delays : Finish(w, delay) /\ j = proc[w].job_id
<1> DEFINE Goal == \/ Kept(j)
                   \/ \E b \in Budgets : Create(j, b)
                   \/ Requeue(j)
                   \/ \E w \in Worker, g \in Generations :
                         <<j, g>> \in sent /\ ClaimCommits(w, j, g)
                   \/ \E w \in Worker, g \in Generations :
                         <<j, g>> \in sent /\ ClaimExhausted(w, j, g)
                   \/ \E w \in Worker, delay \in Delays :
                         Finish(w, delay) /\ j = proc[w].job_id
<1>1. ASSUME jobs'[j] = jobs[j] PROVE Goal
  BY <1>1 DEF Kept
<1>2. CASE \E i \in Job : (\E b \in Budgets : Create(i, b)) \/ Requeue(i)
  BY <1>1, <1>2, CreateUpdates, RequeueUpdates
<1>3. CASE \E d \in Dispatcher :
              \/ DispatchSelect(d) \/ DispatchRead(d) \/ DispatchPublish(d)
              \/ DispatchMark(d) \/ DispatchDelete(d) \/ DispatchFail(d)
  BY <1>1, <1>3 DEF DispatchSelect, DispatchRead, DispatchPublish, DispatchMark,
                    DispatchDelete, DispatchFail
<1>4. CASE \E w \in Worker, i \in Job, g \in Generations :
              /\ <<i, g>> \in sent
              /\ Claim(w, i, g) \/ ClaimReplyLost(w, i, g) \/ ClaimExhausted(w, i, g)
  <2>1. PICK w \in Worker, i \in Job, g \in Generations :
                <<i, g>> \in sent /\ (ClaimCommits(w, i, g) \/ ClaimExhausted(w, i, g))
    BY <1>4 DEF Claim, ClaimReplyLost
  <2> QED
    BY <1>1, <2>1, ClaimUpdates, BuryUpdates
<1>5. CASE \E b \in beats : RenewLands(b) \/ RenewFails(b)
  BY <1>1, <1>5, RenewKeeps DEF RenewFails
<1>6. CASE \E w \in Worker :
              \/ BeatSend(w) \/ Abandon(w)
              \/ \E result \in {"ok", "transient", "permanent"} : HandlerReturns(w, result)
  BY <1>1, <1>6 DEF BeatSend, Abandon, HandlerReturns
<1>7. CASE \E w \in Worker, delay \in Delays : Finish(w, delay)
  <2>1. PICK w \in Worker, delay \in Delays : Finish(w, delay)
    BY <1>7
  <2>2. proc[w].job_id \in Job
    BY <2>1, TaskFacts DEF Finish
  <2> QED
    BY <1>1, <2>1, <2>2, FinishUpdates
<1>8. CASE Tick
  BY <1>8, TickKeeps
<1>9. CASE UNCHANGED vars
  BY <1>1, <1>9 DEF vars
<1> QED
  BY <1>2, <1>3, <1>4, <1>5, <1>6, <1>7, <1>8, <1>9 DEF Next

LEMMA JobInvNext == ASSUME TypeOK, JobInv, [Next]_vars PROVE JobInv'
<1> SUFFICES ASSUME NEW j \in Job
    PROVE  (/\ jobs[j].status = "ABSENT" <=> jobs[j].generation = 0
            /\ jobs[j].attempt_count <= jobs[j].max_retries + 1
            /\ jobs[j].status = "PROCESSING" => jobs[j].next_attempt_at = 0)'
  BY DEF JobInv
<1>0. /\ jobs[j].status = "ABSENT" <=> jobs[j].generation = 0
      /\ jobs[j].attempt_count <= jobs[j].max_retries + 1
      /\ jobs[j].status = "PROCESSING" => jobs[j].next_attempt_at = 0
  BY DEF JobInv
<1>1. CASE Kept(j)
  BY <1>0, <1>1, RowFacts DEF Kept, Down

<1>2. CASE \E b \in Budgets : Create(j, b)
  BY <1>2, CreateUpdates
<1>3. CASE Requeue(j)
  BY <1>3, RequeueUpdates, RowFacts
<1>4. CASE \E w \in Worker, g \in Generations : ClaimCommits(w, j, g)
  BY <1>0, <1>4, ClaimUpdates, RowFacts
<1>5. CASE \E w \in Worker, g \in Generations : ClaimExhausted(w, j, g)
  <2>1. PICK w \in Worker, g \in Generations : ClaimExhausted(w, j, g)
    BY <1>5
  <2> QED
    BY <1>0, <2>1, BuryUpdates, RowFacts
<1>6. CASE \E w \in Worker, delay \in Delays : Finish(w, delay) /\ j = proc[w].job_id
  <2>1. PICK w \in Worker, delay \in Delays : Finish(w, delay) /\ j = proc[w].job_id
    BY <1>6
  <2>2. /\ jobs'[j].status \in Outcome
        /\ jobs'[j].generation = jobs[j].generation
        /\ jobs'[j].attempt_count = jobs[j].attempt_count
        /\ jobs'[j].max_retries = jobs[j].max_retries
        /\ jobs[j].status = "PROCESSING"
    BY <2>1, FinishUpdates
  <2>3. jobs'[j].status # "PROCESSING" /\ jobs'[j].status # "ABSENT"
    BY <2>2 DEF Outcome
  <2> QED
    BY <1>0, <2>2, <2>3, RowFacts
<1> QED
  BY <1>1, <1>2, <1>3, <1>4, <1>5, <1>6, JobRowSteps

\* A step begins an execution, or leaves the counts of executions alone.
LEMMA StartsSteps ==
    ASSUME [Next]_vars
    PROVE  \/ starts' = starts
           \/ \E w \in Worker, j \in Job, g \in Generations : Claim(w, j, g)
BY DEF Next, vars, Create, Requeue, DispatchSelect, DispatchRead, DispatchPublish,
       DispatchMark, DispatchDelete, DispatchFail, ClaimReplyLost, ClaimExhausted,
       RenewLands, RenewFails, BeatSend, Abandon, HandlerReturns, Finish, Tick

LEMMA StartsInvNext ==
    ASSUME TypeOK, JobInv, StartsInv, BudgetRespected, [Next]_vars
    PROVE  StartsInv' /\ BudgetRespected'
<1> DEFINE Counts(j, g) ==
        /\ g = jobs[j].generation => starts[j][g] <= jobs[j].attempt_count
        /\ g > jobs[j].generation => starts[j][g] = 0
        /\ starts[j][g] <= jobs[j].max_retries + 1
<1> SUFFICES ASSUME NEW j \in Job, NEW g \in Generations PROVE Counts(j, g)'
  BY DEF StartsInv, BudgetRespected
<1>1. Counts(j, g) /\ starts[j][g] \in Nat /\ g \in Nat /\ g # 0
  BY ConstantsAssumption DEF StartsInv, BudgetRespected, TypeOK, Generations
<1>2. CASE \E w \in Worker, i \in Job, h \in Generations : Claim(w, i, h)
  <2>1. PICK w \in Worker, i \in Job, h \in Generations : Claim(w, i, h)
    BY <1>2
  <2>2. ClaimCommits(w, i, h) /\ starts' = [starts EXCEPT ![i][h] = @ + 1]
    BY <2>1 DEF Claim
  <2>3. starts'[j][g] = IF i = j /\ h = g THEN starts[j][g] + 1 ELSE starts[j][g]
    BY <2>2 DEF TypeOK
  <2>4. CASE i = j
    BY <1>1, <2>2, <2>3, <2>4, ClaimUpdates, RowFacts
  <2>5. CASE i # j
    BY <1>1, <2>2, <2>3, <2>5, ClaimUpdates
  <2> QED
    BY <2>4, <2>5
<1>3. CASE starts' = starts
  <2>1. CASE Kept(j)
    BY <1>1, <1>3, <2>1 DEF Kept
  <2>2. CASE \E b \in Budgets : Create(j, b)
    BY <1>1, <1>3, <2>2, CreateUpdates DEF JobInv
  <2>3. CASE Requeue(j)
    BY <1>1, <1>3, <2>3, RequeueUpdates, RowFacts
  <2>4. CASE \E w \in Worker, h \in Generations : ClaimCommits(w, j, h)
    BY <1>1, <1>3, <2>4, ClaimUpdates, RowFacts
  <2>5. CASE \E w \in Worker, h \in Generations : ClaimExhausted(w, j, h)
    <3>1. PICK w \in Worker, h \in Generations : ClaimExhausted(w, j, h)
      BY <2>5
    <3> QED
      BY <1>1, <1>3, <3>1, BuryUpdates
  <2>6. CASE \E w \in Worker, delay \in Delays : Finish(w, delay) /\ j = proc[w].job_id
    <3>1. PICK w \in Worker, delay \in Delays : Finish(w, delay) /\ j = proc[w].job_id
      BY <2>6
    <3> QED
      BY <1>1, <1>3, <3>1, FinishUpdates
  <2> QED
    BY <2>1, <2>2, <2>3, <2>4, <2>5, <2>6, JobRowSteps
<1> QED
  BY <1>2, <1>3, StartsSteps

\* What the transactions that touch job j leave in its log: the transition, or
\* nothing when there is none.
Logged(j) ==
    \/ jobs'[j].status # jobs[j].status
    \/ jobs'[j].attempt_count # jobs[j].attempt_count
    \/ audit'[j] # audit[j]
    => audit'[j] = [from_status |-> jobs[j].status, to_status |-> jobs'[j].status]

\* Every change of a status is logged in its transaction, from what it was.
LEMMA AuditSteps ==
    ASSUME TypeOK, AuditInv, [Next]_vars, NEW j \in Job
    PROVE  audit'[j].to_status = jobs'[j].status /\ Logged(j)
<1> DEFINE Goal == audit'[j].to_status = jobs'[j].status /\ Logged(j)
<1>0. audit[j].to_status = jobs[j].status
  BY DEF AuditInv
<1>1. ASSUME jobs'[j].status = jobs[j].status,
             jobs'[j].attempt_count = jobs[j].attempt_count, audit' = audit
      PROVE  Goal
  BY <1>0, <1>1 DEF Logged
<1>2. ASSUME NEW i \in Job, NEW to, Log(i, jobs[i].status, to),
             jobs'[i].status = to, \A k \in Job : k # i => jobs'[k] = jobs[k]
      PROVE  Goal
  <2>1. CASE j = i
    BY <1>2, <2>1 DEF Log, TypeOK, Logged
  <2>2. CASE j # i
    BY <1>0, <1>2, <2>2 DEF Log, TypeOK, Logged
  <2> QED
    BY <2>1, <2>2
<1>3. ASSUME NEW i \in Job, NEW b \in Budgets, Create(i, b) PROVE Goal
  BY <1>2, <1>3, CreateUpdates DEF Create
<1>4. ASSUME NEW i \in Job, Requeue(i) PROVE Goal
  BY <1>2, <1>4, RequeueUpdates DEF Requeue
<1>5. ASSUME NEW w \in Worker, NEW i \in Job, NEW g \in Generations,
             ClaimCommits(w, i, g)
      PROVE  Goal
  <2>1. Log(i, jobs[i].status, "PROCESSING")
    BY <1>5 DEF ClaimCommits
  <2> QED
    BY <1>2, <1>5, <2>1, ClaimUpdates
<1>6. ASSUME NEW w \in Worker, NEW i \in Job, NEW g \in Generations,
             ClaimExhausted(w, i, g)
      PROVE  Goal
  <2>1. Log(i, jobs[i].status, "DEAD")
    BY <1>6 DEF ClaimExhausted
  <2> QED
    BY <1>2, <1>6, <2>1, BuryUpdates
<1>7. ASSUME NEW w \in Worker, NEW delay \in Delays, Finish(w, delay) PROVE Goal
  <2>1. proc[w].job_id \in Job
    BY <1>7, TaskFacts DEF Finish
  <2>2. Log(proc[w].job_id, "PROCESSING", proc[w].outcome)
    BY <1>7 DEF Finish
  <2> QED
    BY <1>2, <1>7, <2>1, <2>2, FinishUpdates
<1>8. CASE \E d \in Dispatcher :
              \/ DispatchSelect(d) \/ DispatchRead(d) \/ DispatchPublish(d)
              \/ DispatchMark(d) \/ DispatchDelete(d) \/ DispatchFail(d)
  BY <1>1, <1>8 DEF DispatchSelect, DispatchRead, DispatchPublish, DispatchMark,
                    DispatchDelete, DispatchFail
<1>9. CASE \E b \in beats : RenewLands(b) \/ RenewFails(b)
  BY <1>1, <1>9, RenewKeeps DEF RenewFails, RenewLands, Kept
<1>10. CASE \E w \in Worker :
              \/ BeatSend(w) \/ Abandon(w)
              \/ \E result \in {"ok", "transient", "permanent"} : HandlerReturns(w, result)
  BY <1>1, <1>10 DEF BeatSend, Abandon, HandlerReturns
<1>11. CASE Tick
  BY <1>1, <1>11, TickKeeps DEF Kept, Tick
<1>12. CASE UNCHANGED vars
  BY <1>1, <1>12 DEF vars
<1> QED
  BY <1>3, <1>4, <1>5, <1>6, <1>7, <1>8, <1>9, <1>10, <1>11, <1>12
     DEF Next, Claim, ClaimReplyLost

\* What a step does to the job of an executing attempt.
LEMMA TaskRow ==
    ASSUME TypeOK, JobInv, TaskInv, [Next]_vars,
           NEW w \in Worker, proc[w].pc # "idle", NEW j \in Job, j = proc[w].job_id
    PROVE  /\ proc[w].generation <= jobs'[j].generation
           /\ /\ proc[w].generation = jobs'[j].generation
              /\ jobs'[j].status = "PROCESSING"
              /\ jobs'[j].lease_owner = w
              => proc[w].attempt_count = jobs'[j].attempt_count
           /\ jobs'[j].max_retries = jobs[j].max_retries
<1>1. /\ 1 <= proc[w].generation
      /\ proc[w].generation <= jobs[j].generation
      /\ /\ proc[w].generation = jobs[j].generation
         /\ jobs[j].status = "PROCESSING"
         /\ jobs[j].lease_owner = w
         => proc[w].attempt_count = jobs[j].attempt_count
  BY DEF TaskInv
<1>2. proc[w].generation \in Nat /\ jobs[j].generation \in Nat
  BY TaskFacts, RowFacts
<1>3. CASE Kept(j)
  BY <1>1, <1>3 DEF Kept
<1>4. CASE \E b \in Budgets : Create(j, b)
  BY <1>1, <1>2, <1>4, CreateUpdates DEF JobInv
<1>5. CASE Requeue(j)
  BY <1>1, <1>2, <1>5, RequeueUpdates
<1>6. CASE \E v \in Worker, g \in Generations : ClaimCommits(v, j, g)
  <2>1. PICK v \in Worker, g \in Generations : ClaimCommits(v, j, g)
    BY <1>6
  <2>2. proc[v].pc = "idle"
    BY <2>1 DEF ClaimCommits
  <2> QED
    BY <1>1, <2>1, <2>2, ClaimUpdates
<1>7. CASE \E v \in Worker, g \in Generations : ClaimExhausted(v, j, g)
  <2>1. PICK v \in Worker, g \in Generations : ClaimExhausted(v, j, g)
    BY <1>7
  <2> QED
    BY <1>1, <2>1, BuryUpdates
<1>8. CASE \E v \in Worker, delay \in Delays : Finish(v, delay) /\ j = proc[v].job_id
  <2>1. PICK v \in Worker, delay \in Delays : Finish(v, delay) /\ j = proc[v].job_id
    BY <1>8
  <2>2. /\ jobs'[j].status \in Outcome
        /\ jobs'[j].generation = jobs[j].generation
        /\ jobs'[j].max_retries = jobs[j].max_retries
    BY <2>1, FinishUpdates
  <2> QED
    BY <1>1, <2>2 DEF Outcome
<1> QED
  BY <1>3, <1>4, <1>5, <1>6, <1>7, <1>8, JobRowSteps

\* What a step does to the attempt of a worker.
LEMMA TaskSteps ==
    ASSUME TypeOK, [Next]_vars, NEW w \in Worker
    PROVE  \/ proc'[w] = proc[w] /\ succeeded \subseteq succeeded'
           \/ proc'[w] = NoTask
           \/ proc'[w] = [proc[w] EXCEPT !.pc = "lost"] /\ succeeded' = succeeded
              /\ proc[w].pc = "handling"
           \/ \E j \in Job, g \in Generations : Claim(w, j, g)
           \/ \E result \in {"ok", "transient", "permanent"} : HandlerReturns(w, result)
<1> DEFINE Goal ==
           \/ proc'[w] = proc[w] /\ succeeded \subseteq succeeded'
           \/ proc'[w] = NoTask
           \/ proc'[w] = [proc[w] EXCEPT !.pc = "lost"] /\ succeeded' = succeeded
              /\ proc[w].pc = "handling"
           \/ \E j \in Job, g \in Generations : Claim(w, j, g)
           \/ \E result \in {"ok", "transient", "permanent"} : HandlerReturns(w, result)
<1>1. CASE proc' = proc /\ succeeded' = succeeded
  BY <1>1
<1>2. ASSUME NEW v \in Worker, NEW j \in Job, NEW g \in Generations, Claim(v, j, g)
      PROVE  Goal
  BY <1>2 DEF Claim, TypeOK
<1>3. ASSUME NEW b \in beats, RenewFails(b) PROVE Goal
  BY <1>3 DEF RenewFails, TypeOK, Beat
<1>4. ASSUME NEW v \in Worker, NEW result \in {"ok", "transient", "permanent"},
             HandlerReturns(v, result)
      PROVE  Goal
  BY <1>4 DEF HandlerReturns, TypeOK
<1>5. ASSUME NEW v \in Worker, NEW delay \in Delays, Finish(v, delay) PROVE Goal
  BY <1>5 DEF Finish, TypeOK
<1>6. ASSUME NEW v \in Worker, Abandon(v) PROVE Goal
  BY <1>6 DEF Abandon, TypeOK
<1> QED
  BY <1>1, <1>2, <1>3, <1>4, <1>5, <1>6
     DEF Next, vars, Create, Requeue, DispatchSelect, DispatchRead, DispatchPublish,
         DispatchMark, DispatchDelete, DispatchFail, ClaimReplyLost, ClaimExhausted,
         RenewLands, BeatSend, Tick

LEMMA TaskInvNext == ASSUME TypeOK, JobInv, TaskInv, [Next]_vars PROVE TaskInv'
<1> DEFINE Current(w) ==
        LET j == proc[w].job_id
        IN  /\ 1 <= proc[w].generation
            /\ proc[w].generation <= jobs[j].generation
            /\ /\ proc[w].generation = jobs[j].generation
               /\ jobs[j].status = "PROCESSING"
               /\ jobs[j].lease_owner = w
               => proc[w].attempt_count = jobs[j].attempt_count
            /\ proc[w].outcome = "PENDING" => proc[w].attempt_count <= jobs[j].max_retries
            /\ proc[w].outcome = "COMPLETED" =>
                  <<j, proc[w].generation>> \in succeeded
<1> SUFFICES ASSUME NEW w \in Worker, proc'[w].pc # "idle" PROVE Current(w)'
  BY DEF TaskInv
<1>1. proc[w].pc # "idle" => Current(w)
  BY DEF TaskInv
<1>2. CASE proc'[w] = proc[w] /\ succeeded \subseteq succeeded'
  BY <1>1, <1>2, TaskRow, TaskFacts
<1>3. CASE proc'[w] = NoTask
  BY <1>3 DEF NoTask
<1>4. CASE /\ proc'[w] = [proc[w] EXCEPT !.pc = "lost"] /\ succeeded' = succeeded
           /\ proc[w].pc = "handling"
  <2>1. /\ proc'[w].job_id = proc[w].job_id
        /\ proc'[w].generation = proc[w].generation
        /\ proc'[w].attempt_count = proc[w].attempt_count
        /\ proc'[w].outcome = proc[w].outcome
    BY <1>4 DEF TypeOK, Task, Attempt, NoTask
  <2> QED
    BY <1>1, <1>4, <2>1, TaskRow, TaskFacts
<1>5. ASSUME NEW j \in Job, NEW g \in Generations, Claim(w, j, g) PROVE Current(w)'
  <2>1. ClaimCommits(w, j, g)
    BY <1>5 DEF Claim
  <2>2. proc'[w] = [pc |-> "handling", job_id |-> j, generation |-> g,
                    attempt_count |-> jobs[j].attempt_count + 1, outcome |-> "none"]
    BY <1>5 DEF Claim, TypeOK
  <2>3. g \in Nat /\ 1 <= g
    BY ConstantsAssumption DEF Generations
  <2> QED
    BY <2>1, <2>2, <2>3, ClaimUpdates
<1>6. ASSUME NEW result \in {"ok", "transient", "permanent"}, HandlerReturns(w, result)
      PROVE  Current(w)'
  <2> DEFINE j == proc[w].job_id
  <2>1. proc[w].pc = "handling" /\ jobs' = jobs
    BY <1>6 DEF HandlerReturns
  <2>2. Current(w) /\ j \in Job /\ proc[w].attempt_count \in Nat /\ jobs[j].max_retries \in Nat
    BY <1>1, <2>1, TaskFacts, RowFacts
  <2>3. /\ proc'[w].job_id = proc[w].job_id
        /\ proc'[w].generation = proc[w].generation
        /\ proc'[w].attempt_count = proc[w].attempt_count
    BY <1>6 DEF HandlerReturns, TypeOK, Task, Attempt, NoTask
  <2>4. proc'[w].outcome = CASE result = "ok" -> "COMPLETED"
                             [] result = "transient" /\ ~Last(w) -> "PENDING"
                             [] OTHER -> "DEAD"
    BY <1>6 DEF HandlerReturns, TypeOK, Task, Attempt, NoTask
  <2>5. proc'[w].outcome = "PENDING" => ~Last(w)
    BY <2>4
  <2>6. proc'[w].outcome = "COMPLETED" => result = "ok"
    BY <2>4
  <2>7. result = "ok" => <<j, proc[w].generation>> \in succeeded'
    BY <1>6 DEF HandlerReturns
  <2> QED
    BY <2>1, <2>2, <2>3, <2>5, <2>6, <2>7 DEF Last
<1> QED
  BY <1>2, <1>3, <1>4, <1>5, <1>6, TaskSteps

LEMMA CompletedNext ==
    ASSUME TypeOK, JobInv, TaskInv, CompletedWasExecuted, [Next]_vars
    PROVE  CompletedWasExecuted'
<1> SUFFICES ASSUME NEW j \in Job, jobs'[j].status = "COMPLETED"
             PROVE  <<j, jobs'[j].generation>> \in succeeded'
  BY DEF CompletedWasExecuted
<1>1. succeeded \subseteq succeeded'
  BY DEF Next, vars, Create, Requeue, DispatchSelect, DispatchRead, DispatchPublish,
         DispatchMark, DispatchDelete, DispatchFail, Claim, ClaimReplyLost,
         ClaimExhausted, RenewLands, RenewFails, BeatSend, Abandon, HandlerReturns,
         Finish, Tick
<1>2. CASE Kept(j)
  BY <1>1, <1>2 DEF Kept, CompletedWasExecuted
<1>3. CASE \E v \in Worker, delay \in Delays : Finish(v, delay) /\ j = proc[v].job_id
  <2>1. PICK v \in Worker, delay \in Delays : Finish(v, delay) /\ j = proc[v].job_id
    BY <1>3
  <2>2. proc[v].pc # "idle"
    BY <2>1 DEF Finish
  <2>3. proc[v].outcome = "COMPLETED" /\ jobs'[j].generation = proc[v].generation
    BY <2>1, FinishUpdates
  <2> QED
    BY <1>1, <2>1, <2>2, <2>3 DEF TaskInv
<1> QED
  BY <1>2, <1>3, JobRowSteps, CreateUpdates, RequeueUpdates, ClaimUpdates, BuryUpdates

-----------------------------------------------------------------------------
(***************************************************************************)
(* The outbox.                                                             *)
(***************************************************************************)
LEMMA IntentFacts ==
    ASSUME TypeOK, NEW r \in outbox
    PROVE  /\ r \in OutboxRow /\ r.id \in Nat /\ r.job_id \in Job /\ r.generation \in Nat
           /\ r.attempt \in Nat /\ r.available_at \in Nat /\ r.published_at \in Nat
BY DEF TypeOK, OutboxRow

\* The intent that a transaction leaving job j PENDING inserts.
NewIntent(j) == Intent(nextId, j, jobs'[j].generation, jobs'[j].attempt_count + 1,
                       jobs'[j].next_attempt_at)

Inserts(j) ==
    /\ jobs'[j].status = "PENDING"
    /\ KeyFree(j, jobs'[j].generation, jobs'[j].attempt_count + 1)
    /\ outbox' = outbox \cup { NewIntent(j) }
    /\ nextId' = nextId + 1
    /\ UNCHANGED <<disp, sent>>

LEMMA CreateInserts ==
    ASSUME TypeOK, NEW j \in Job, NEW b \in Budgets, Create(j, b) PROVE Inserts(j)
<1>1. /\ KeyFree(j, 1, 1)
      /\ outbox' = outbox \cup { Intent(nextId, j, 1, 1, 0) }
      /\ nextId' = nextId + 1
      /\ UNCHANGED <<disp, sent>>
  BY DEF Create, InsertIntent
<1>2. /\ jobs'[j].status = "PENDING" /\ jobs'[j].generation = 1
      /\ jobs'[j].attempt_count = 0 /\ jobs'[j].next_attempt_at = 0
  BY CreateUpdates
<1> QED
  BY <1>1, <1>2 DEF Inserts, NewIntent

LEMMA RequeueInserts ==
    ASSUME TypeOK, NEW j \in Job, Requeue(j) PROVE Inserts(j)
<1>1. /\ KeyFree(j, jobs[j].generation + 1, 1)
      /\ outbox' = outbox \cup { Intent(nextId, j, jobs[j].generation + 1, 1, 0) }
      /\ nextId' = nextId + 1
      /\ UNCHANGED <<disp, sent>>
  BY DEF Requeue, InsertIntent
<1>2. /\ jobs'[j].status = "PENDING" /\ jobs'[j].generation = jobs[j].generation + 1
      /\ jobs'[j].attempt_count = 0 /\ jobs'[j].next_attempt_at = 0
  BY RequeueUpdates
<1> QED
  BY <1>1, <1>2 DEF Inserts, NewIntent

LEMMA RetryInserts ==
    ASSUME TypeOK, NEW w \in Worker, NEW delay \in Delays, Finish(w, delay),
           proc[w].outcome = "PENDING", NEW j \in Job, j = proc[w].job_id
    PROVE  Inserts(j)
<1>1. InsertIntent(j, jobs[j].generation, jobs[j].attempt_count + 1, delay)
      /\ UNCHANGED <<disp, sent>>
  BY DEF Finish
<1>2. /\ jobs'[j].status = "PENDING" /\ jobs'[j].generation = jobs[j].generation
      /\ jobs'[j].attempt_count = jobs[j].attempt_count
      /\ jobs'[j].next_attempt_at = delay
  BY FinishUpdates
<1> QED
  BY <1>1, <1>2 DEF Inserts, InsertIntent, NewIntent

\* Every step leaves the outbox alone, inserts, marks, deletes, or is a Tick.
LEMMA OutboxSteps ==
    ASSUME TypeOK, [Next]_vars
    PROVE  \/ outbox' = outbox /\ nextId' = nextId
           \/ \E j \in Job : Inserts(j)
           \/ \E d \in Dispatcher : DispatchMark(d) \/ DispatchDelete(d)
           \/ Tick
<1> DEFINE Goal == \/ outbox' = outbox /\ nextId' = nextId
                   \/ \E j \in Job : Inserts(j)
                   \/ \E d \in Dispatcher : DispatchMark(d) \/ DispatchDelete(d)
                   \/ Tick
<1>1. ASSUME NEW w \in Worker, NEW delay \in Delays, Finish(w, delay) PROVE Goal
  <2>1. proc[w].job_id \in Job
    BY <1>1, TaskFacts DEF Finish
  <2>2. CASE proc[w].outcome = "PENDING"
    BY <1>1, <2>1, <2>2, RetryInserts
  <2>3. CASE proc[w].outcome # "PENDING"
    BY <1>1, <2>3 DEF Finish
  <2> QED
    BY <2>2, <2>3
<1>2. CASE \E j \in Job : (\E b \in Budgets : Create(j, b)) \/ Requeue(j)
  BY <1>2, CreateInserts, RequeueInserts
<1> QED
  BY <1>1, <1>2 DEF Next, vars, DispatchSelect, DispatchRead, DispatchPublish,
     DispatchFail, Claim, ClaimReplyLost, ClaimExhausted, RenewLands, RenewFails,
     BeatSend, Abandon, HandlerReturns

\* What an outbox row says of its job stays true, and obsolete stays obsolete.
LEMMA RowStays ==
    ASSUME TypeOK, JobInv, OutboxInv, [Next]_vars, NEW r \in outbox, NEW j \in Job,
           j = r.job_id
    PROVE  /\ r.generation <= jobs'[j].generation
           /\ r.generation = jobs'[j].generation =>
                 /\ r.attempt <= jobs'[j].attempt_count + 1
                 /\ jobs'[j].status = "PROCESSING" => r.attempt <= jobs'[j].attempt_count
           /\ Obsolete(j, r.generation) => Obsolete(j, r.generation)'
<1>1. /\ 1 <= r.generation
      /\ r.generation <= jobs[j].generation
      /\ r.generation = jobs[j].generation =>
            /\ r.attempt <= jobs[j].attempt_count + 1
            /\ jobs[j].status = "PROCESSING" => r.attempt <= jobs[j].attempt_count
  BY DEF OutboxInv
<1>2. /\ r.generation \in Nat /\ r.attempt \in Nat
      /\ jobs[j].generation \in Nat /\ jobs[j].attempt_count \in Nat
  BY IntentFacts, RowFacts
<1>3. CASE Kept(j)
  BY <1>1, <1>3 DEF Kept, Obsolete
<1>4. CASE \E b \in Budgets : Create(j, b)
  BY <1>1, <1>2, <1>4, CreateUpdates DEF JobInv
<1>5. CASE Requeue(j)
  BY <1>1, <1>2, <1>5, RequeueUpdates DEF Obsolete
<1>6. CASE \E w \in Worker, g \in Generations : ClaimCommits(w, j, g)
  BY <1>1, <1>2, <1>6, ClaimUpdates DEF Obsolete, Terminal
<1>7. CASE \E w \in Worker, g \in Generations : ClaimExhausted(w, j, g)
  <2>1. PICK w \in Worker, g \in Generations : ClaimExhausted(w, j, g)
    BY <1>7
  <2> QED
    BY <1>1, <1>2, <2>1, BuryUpdates DEF Obsolete, Terminal
<1>8. CASE \E w \in Worker, delay \in Delays : Finish(w, delay) /\ j = proc[w].job_id
  <2>1. PICK w \in Worker, delay \in Delays : Finish(w, delay) /\ j = proc[w].job_id
    BY <1>8
  <2>2. /\ jobs'[j].status \in Outcome /\ jobs[j].status = "PROCESSING"
        /\ jobs'[j].generation = jobs[j].generation
        /\ jobs'[j].attempt_count = jobs[j].attempt_count
    BY <2>1, FinishUpdates
  <2> QED
    BY <1>1, <2>2 DEF Outcome, Obsolete, Terminal
<1> QED
  BY <1>3, <1>4, <1>5, <1>6, <1>7, <1>8, JobRowSteps

\* An intent keeps what identifies it, whatever happens to its timestamps.
SameIntent(r, q) ==
    /\ q.id = r.id /\ q.job_id = r.job_id
    /\ q.generation = r.generation /\ q.attempt = r.attempt
    /\ r.available_at = 0 => q.available_at = 0

LEMMA MarkedIntents ==
    ASSUME TypeOK, NEW d \in Dispatcher, DispatchMark(d)
    PROVE  /\ \A q \in outbox' : \E r \in outbox : SameIntent(r, q) /\
                 (q = r \/ r.id = disp[d].id)
           /\ \A r \in outbox : r.id # disp[d].id => r \in outbox'
           /\ \A r \in outbox : \E q \in outbox' : SameIntent(r, q)
           /\ (\A r, q \in outbox : r.id = q.id => r = q) =>
                 \A r, q \in outbox' : r.id = q.id => r = q
           /\ nextId' = nextId /\ jobs' = jobs
<1> DEFINE Marked(r) == IF r.id = disp[d].id
                        THEN [r EXCEPT !.published_at = RepublishAfter] ELSE r
<1>1. \A r \in outbox : SameIntent(r, Marked(r))
  BY DEF SameIntent, TypeOK, OutboxRow
<1>2. outbox' = { Marked(r) : r \in outbox }
  BY DEF DispatchMark
<1>3. \A r \in outbox : r.id # disp[d].id => Marked(r) = r
  OBVIOUS
<1>4. nextId' = nextId /\ jobs' = jobs
  BY DEF DispatchMark
<1>5. \A r \in outbox : Marked(r).id = r.id
  BY <1>1 DEF SameIntent
<1> HIDE DEF Marked
<1> QED
  BY <1>1, <1>2, <1>3, <1>4, <1>5

LEMMA AgedIntents ==
    ASSUME TypeOK, Tick
    PROVE  /\ \A q \in outbox' : \E r \in outbox : SameIntent(r, q) /\
                 q.available_at = Down(r.available_at) /\ q.published_at = Down(r.published_at)
           /\ \A r \in outbox : \E q \in outbox' : SameIntent(r, q) /\
                 q.available_at = Down(r.available_at) /\ q.published_at = Down(r.published_at)
           /\ (\A r, q \in outbox : r.id = q.id => r = q) =>
                 \A r, q \in outbox' : r.id = q.id => r = q
           /\ nextId' = nextId
<1> DEFINE Aged(r) == [r EXCEPT !.available_at = Down(r.available_at),
                                !.published_at = Down(r.published_at)]
<1>1. \A r \in outbox : /\ SameIntent(r, Aged(r))
                        /\ Aged(r).available_at = Down(r.available_at)
                        /\ Aged(r).published_at = Down(r.published_at)
  BY DEF SameIntent, TypeOK, OutboxRow, Down
<1>2. outbox' = { Aged(r) : r \in outbox } /\ nextId' = nextId
  BY DEF Tick
<1>3. \A r \in outbox : Aged(r).id = r.id
  BY <1>1 DEF SameIntent
<1> HIDE DEF Aged
<1> QED
  BY <1>1, <1>2, <1>3

\* Every row after a step was there before, or is the intent just inserted.
LEMMA IntentOrigin ==
    ASSUME TypeOK, [Next]_vars, NEW q \in outbox'
    PROVE  \/ \E r \in outbox : SameIntent(r, q)
           \/ \E j \in Job : Inserts(j) /\ q = NewIntent(j)
<1>1. CASE outbox' = outbox
  BY <1>1 DEF SameIntent
<1>2. CASE \E j \in Job : Inserts(j)
  BY <1>2 DEF Inserts, SameIntent
<1>3. CASE \E d \in Dispatcher : DispatchMark(d)
  BY <1>3, MarkedIntents
<1>4. CASE \E d \in Dispatcher : DispatchDelete(d)
  BY <1>4 DEF DispatchDelete, SameIntent
<1>5. CASE Tick
  BY <1>5, AgedIntents
<1> QED
  BY <1>1, <1>2, <1>3, <1>4, <1>5, OutboxSteps

LEMMA NextIdGrows ==
    ASSUME TypeOK, [Next]_vars
    PROVE  nextId \in Nat /\ nextId' \in Nat /\ nextId <= nextId'
<1>1. nextId \in Nat
  BY DEF TypeOK
<1>2. nextId' = nextId \/ nextId' = nextId + 1
  BY OutboxSteps DEF Inserts, DispatchMark, DispatchDelete, Tick
<1> QED
  BY <1>1, <1>2

LEMMA OutboxInvNext ==
    ASSUME TypeOK, JobInv, OutboxInv, [Next]_vars
    PROVE  OutboxInv'
<1> DEFINE NotAhead(q) ==
        /\ q.id < nextId'
        /\ 1 <= q.generation
        /\ q.generation <= jobs'[q.job_id].generation
        /\ q.generation = jobs'[q.job_id].generation =>
              /\ q.attempt <= jobs'[q.job_id].attempt_count + 1
              /\ jobs'[q.job_id].status = "PROCESSING" =>
                    q.attempt <= jobs'[q.job_id].attempt_count
<1>1. ASSUME NEW q \in outbox' PROVE NotAhead(q)
  <2>1. ASSUME NEW r \in outbox, SameIntent(r, q)
        PROVE  NotAhead(q)
    <3>1. r.id < nextId /\ 1 <= r.generation /\ r.id \in Nat
      BY IntentFacts DEF OutboxInv
    <3>2. q.id < nextId'
      BY <2>1, <3>1, NextIdGrows DEF SameIntent
    <3> QED
      BY <2>1, <3>1, <3>2, RowStays, IntentFacts DEF SameIntent
  <2>2. ASSUME NEW j \in Job, Inserts(j), q = NewIntent(j)
        PROVE  NotAhead(q)
    <3>1. /\ q.id = nextId /\ q.job_id = j /\ q.generation = jobs'[j].generation
          /\ q.attempt = jobs'[j].attempt_count + 1
      BY <2>2 DEF NewIntent, Intent
    <3>2. jobs'[j].status = "PENDING" /\ nextId' = nextId + 1 /\ nextId \in Nat
      BY <2>2 DEF Inserts, TypeOK
    <3>3. jobs'[j].generation \in Nat /\ jobs'[j].attempt_count \in Nat
      BY NextType DEF TypeOK, JobRow
    <3>4. jobs'[j].generation # 0
      BY <3>2, JobInvNext DEF JobInv
    <3> QED
      BY <3>1, <3>2, <3>3, <3>4
  <2> QED
    BY <2>1, <2>2, IntentOrigin
<1>2. ASSUME NEW p \in outbox', NEW q \in outbox', p.id = q.id PROVE p = q
  <2>0. \A r, s \in outbox : r.id = s.id => r = s
    BY DEF OutboxInv
  <2>1. CASE outbox' = outbox
    BY <1>2, <2>0, <2>1
  <2>2. CASE \E j \in Job : Inserts(j)
    <3>1. PICK j \in Job : outbox' = outbox \cup { NewIntent(j) }
      BY <2>2 DEF Inserts
    <3>2. NewIntent(j).id = nextId
      BY DEF NewIntent, Intent
    <3>3. \A r \in outbox : r.id # nextId
      <4> SUFFICES ASSUME NEW r \in outbox PROVE r.id # nextId
        OBVIOUS
      <4>1. r.id < nextId /\ r.id \in Nat /\ nextId \in Nat
        BY IntentFacts DEF OutboxInv, TypeOK
      <4> QED
        BY <4>1
    <3> QED
      BY <1>2, <2>0, <3>1, <3>2, <3>3
  <2>3. CASE \E d \in Dispatcher : DispatchMark(d)
    BY <1>2, <2>0, <2>3, MarkedIntents
  <2>4. CASE \E d \in Dispatcher : DispatchDelete(d)
    BY <1>2, <2>0, <2>4 DEF DispatchDelete
  <2>5. CASE Tick
    BY <1>2, <2>0, <2>5, AgedIntents
  <2> QED
    BY <2>1, <2>2, <2>3, <2>4, <2>5, OutboxSteps
<1> QED
  BY <1>1, <1>2 DEF OutboxInv

\* What a step does to the transaction of a dispatcher.
LEMMA DispatchSteps ==
    ASSUME TypeOK, [Next]_vars, NEW d \in Dispatcher
    PROVE  \/ disp'[d] = disp[d] /\ sent \subseteq sent'
           \/ disp'[d] = NoTransaction
           \/ DispatchSelect(d) \/ DispatchRead(d) \/ DispatchPublish(d)
<1> DEFINE Goal == \/ disp'[d] = disp[d] /\ sent \subseteq sent'
                   \/ disp'[d] = NoTransaction
                   \/ DispatchSelect(d) \/ DispatchRead(d) \/ DispatchPublish(d)
<1>1. CASE disp' = disp /\ sent' = sent
  BY <1>1
<1>2. ASSUME NEW e \in Dispatcher,
             \/ DispatchSelect(e) \/ DispatchRead(e) \/ DispatchPublish(e)
             \/ DispatchMark(e) \/ DispatchDelete(e) \/ DispatchFail(e)
      PROVE  Goal
  <2>1. CASE DispatchSelect(e)
    BY <2>1 DEF DispatchSelect, TypeOK
  <2>2. CASE DispatchRead(e)
    BY <2>2 DEF DispatchRead, TypeOK
  <2>3. CASE DispatchPublish(e)
    BY <2>3 DEF DispatchPublish, TypeOK
  <2>4. CASE DispatchMark(e) \/ DispatchDelete(e) \/ DispatchFail(e)
    BY <2>4 DEF DispatchMark, DispatchDelete, DispatchFail, TypeOK
  <2> QED
    BY <1>2, <2>1, <2>2, <2>3, <2>4
<1>3. ASSUME NEW w \in Worker, NEW delay \in Delays, Finish(w, delay) PROVE Goal
  BY <1>1, <1>3 DEF Finish
<1>4. ASSUME NEW j \in Job, (\E b \in Budgets : Create(j, b)) \/ Requeue(j) PROVE Goal
  BY <1>1, <1>4 DEF Create, Requeue
<1> QED
  BY <1>1, <1>2, <1>3, <1>4 DEF Next, vars, Claim, ClaimReplyLost, ClaimExhausted,
     RenewLands, RenewFails, BeatSend, Abandon, HandlerReturns, Tick

LEMMA DispatchInvNext ==
    ASSUME TypeOK, JobInv, OutboxInv, DispatchInv, [Next]_vars
    PROVE  DispatchInv'
<1> DEFINE RowSound(d) ==
        /\ disp[d].id < nextId
        /\ disp[d].pc = "mark" => <<disp[d].job_id, disp[d].generation>> \in sent
        /\ \A r \in outbox : r.id = disp[d].id =>
              /\ r.job_id = disp[d].job_id
              /\ r.generation = disp[d].generation
              /\ r.available_at = 0
              /\ disp[d].pc = "delete" => Obsolete(r.job_id, r.generation)
<1> SUFFICES ASSUME NEW d \in Dispatcher, disp'[d].pc # "idle" PROVE RowSound(d)'
  BY DEF DispatchInv
<1>1. disp[d].pc # "idle" => RowSound(d)
  BY DEF DispatchInv
<1>2. CASE disp'[d] = disp[d] /\ sent \subseteq sent'
  <2>1. RowSound(d) /\ disp[d].id \in Nat
    BY <1>1, <1>2 DEF TypeOK, Transaction, NoTransaction
  <2>2. disp[d].id < nextId'
    BY <2>1, NextIdGrows
  <2>3. ASSUME NEW q \in outbox', q.id = disp[d].id
        PROVE  /\ q.job_id = disp[d].job_id
               /\ q.generation = disp[d].generation
               /\ q.available_at = 0
               /\ disp[d].pc = "delete" => Obsolete(q.job_id, q.generation)'
    <3>1. CASE \E r \in outbox : SameIntent(r, q)
      BY <2>1, <2>3, <3>1, RowStays, IntentFacts DEF SameIntent
    <3>2. CASE \E j \in Job : q = NewIntent(j)
      <4>1. q.id = nextId /\ nextId \in Nat
        BY <3>2 DEF NewIntent, Intent, TypeOK
      <4> QED
        BY <2>1, <2>3, <4>1
    <3> QED
      BY <3>1, <3>2, IntentOrigin
  <2> QED
    BY <1>2, <2>1, <2>2, <2>3
<1>3. CASE disp'[d] = NoTransaction
  BY <1>3 DEF NoTransaction
<1>4. CASE DispatchSelect(d)
  <2>1. PICK r \in outbox : /\ Due(r)
                            /\ disp' = [disp EXCEPT ![d] =
                                 [pc |-> "read", id |-> r.id, job_id |-> r.job_id,
                                  generation |-> r.generation]]
    BY <1>4 DEF DispatchSelect
  <2>2. disp'[d] = [pc |-> "read", id |-> r.id, job_id |-> r.job_id,
                    generation |-> r.generation]
    BY <2>1 DEF TypeOK
  <2>3. outbox' = outbox /\ nextId' = nextId
    BY <1>4 DEF DispatchSelect
  <2>4. r.available_at = 0 /\ r.id < nextId /\ \A q \in outbox : q.id = r.id => q = r
    BY <2>1 DEF Due, OutboxInv
  <2> QED
    BY <2>2, <2>3, <2>4
<1>5. CASE DispatchRead(d)
  <2>1. RowSound(d) /\ disp[d].pc = "read"
    BY <1>1, <1>5 DEF DispatchRead
  <2>2. /\ disp'[d].id = disp[d].id /\ disp'[d].job_id = disp[d].job_id
        /\ disp'[d].generation = disp[d].generation
        /\ disp'[d].pc = IF Obsolete(disp[d].job_id, disp[d].generation)
                         THEN "delete" ELSE "publish"
    BY <1>5, <2>1 DEF DispatchRead, TypeOK, Transaction, NoTransaction
  <2>3. outbox' = outbox /\ nextId' = nextId /\ jobs' = jobs
    BY <1>5 DEF DispatchRead
  <2> QED
    BY <2>1, <2>2, <2>3 DEF Obsolete
<1>6. CASE DispatchPublish(d)
  <2>1. RowSound(d) /\ disp[d].pc = "publish"
    BY <1>1, <1>6 DEF DispatchPublish
  <2>2. /\ disp'[d].id = disp[d].id /\ disp'[d].job_id = disp[d].job_id
        /\ disp'[d].generation = disp[d].generation
        /\ disp'[d].pc = "mark"
    BY <1>6, <2>1 DEF DispatchPublish, TypeOK, Transaction, NoTransaction
  <2>3. /\ outbox' = outbox /\ nextId' = nextId
        /\ <<disp[d].job_id, disp[d].generation>> \in sent'
    BY <1>6 DEF DispatchPublish
  <2> QED
    BY <2>1, <2>2, <2>3
<1> QED
  BY <1>2, <1>3, <1>4, <1>5, <1>6, DispatchSteps

\* A row survives a step unless its generation is obsolete, and one that is not
\* available yet survives it unchanged but for the passing of time.
LEMMA IntentSurvives ==
    ASSUME TypeOK, DispatchInv, [Next]_vars, NEW r \in outbox,
           ~Obsolete(r.job_id, r.generation)
    PROVE  /\ \E q \in outbox' : SameIntent(r, q)
           /\ r.available_at # 0 /\ ~Tick => r \in outbox'
<1>1. SameIntent(r, r)
  BY DEF SameIntent
<1>2. CASE outbox' = outbox
  BY <1>1, <1>2
<1>3. CASE \E j \in Job : Inserts(j)
  BY <1>1, <1>3 DEF Inserts
<1>4. CASE \E d \in Dispatcher : DispatchMark(d)
  <2>1. PICK d \in Dispatcher : DispatchMark(d)
    BY <1>4
  <2>2. r.id = disp[d].id => r.available_at = 0
    BY <2>1 DEF DispatchMark, DispatchInv
  <2> QED
    BY <2>1, <2>2, MarkedIntents
<1>5. CASE \E d \in Dispatcher : DispatchDelete(d)
  <2>1. PICK d \in Dispatcher : DispatchDelete(d)
    BY <1>5
  <2>2. r.id # disp[d].id
    BY <2>1 DEF DispatchDelete, DispatchInv
  <2>3. r \in outbox'
    BY <2>1, <2>2 DEF DispatchDelete
  <2> QED
    BY <1>1, <2>3
<1>6. CASE Tick
  BY <1>6, AgedIntents
<1> QED
  BY <1>2, <1>3, <1>4, <1>5, <1>6, OutboxSteps

LEMMA FailedInvNext ==
    ASSUME TypeOK, JobInv, OutboxInv, FailedInv, [Next]_vars
    PROVE  FailedInv'
<1> SUFFICES ASSUME NEW j \in Job, jobs'[j].status = "FAILED"
             PROVE  /\ \A r \in outbox' : r.job_id # j
                    /\ \A d \in Dispatcher : disp'[d].job_id # j
                    /\ \A m \in sent' : m[1] # j
  BY DEF FailedInv
<1>1. jobs[j].status = "FAILED"
  <2>1. CASE Kept(j)
    BY <2>1 DEF Kept
  <2>2. CASE \E w \in Worker, delay \in Delays : Finish(w, delay) /\ j = proc[w].job_id
    <3>1. jobs'[j].status \in Outcome
      BY <2>2, FinishUpdates
    <3> QED
      BY <3>1 DEF Outcome
  <2> QED
    BY <2>1, <2>2, JobRowSteps, CreateUpdates, RequeueUpdates, ClaimUpdates, BuryUpdates
<1>2. /\ \A r \in outbox : r.job_id # j
      /\ \A d \in Dispatcher : disp[d].job_id # j
      /\ \A m \in sent : m[1] # j
  BY <1>1 DEF FailedInv
<1>3. ASSUME NEW q \in outbox' PROVE q.job_id # j
  <2>1. CASE \E r \in outbox : SameIntent(r, q)
    BY <1>2, <2>1 DEF SameIntent
  <2>2. CASE \E i \in Job : Inserts(i) /\ q = NewIntent(i)
    BY <2>2 DEF Inserts, NewIntent, Intent
  <2> QED
    BY <2>1, <2>2, IntentOrigin
<1>4. ASSUME NEW d \in Dispatcher PROVE disp'[d].job_id # j
  <2>1. CASE disp'[d] = NoTransaction
    BY <2>1, ConstantsAssumption DEF NoTransaction
  <2>2. CASE DispatchSelect(d)
    BY <1>2, <2>2 DEF DispatchSelect, TypeOK
  <2>3. CASE DispatchRead(d) \/ DispatchPublish(d)
    <3>1. disp'[d].job_id = disp[d].job_id
      BY <2>3 DEF DispatchRead, DispatchPublish, TypeOK, Transaction, NoTransaction
    <3> QED
      BY <1>2, <3>1
  <2> QED
    BY <1>2, <2>1, <2>2, <2>3, DispatchSteps
<1>5. ASSUME NEW m \in sent' PROVE m[1] # j
  <2>1. sent' = sent \/ \E d \in Dispatcher : DispatchPublish(d)
    BY DEF Next, vars, Create, Requeue, DispatchSelect, DispatchRead, DispatchMark,
           DispatchDelete, DispatchFail, Claim, ClaimReplyLost, ClaimExhausted,
           RenewLands, RenewFails, BeatSend, Abandon, HandlerReturns, Finish, Tick
  <2>2. CASE \E d \in Dispatcher : DispatchPublish(d)
    BY <1>2, <2>2 DEF DispatchPublish
  <2> QED
    BY <1>2, <2>1, <2>2
<1> QED
  BY <1>3, <1>4, <1>5

\* A transaction that inserts the intent of a job leaves it durable.
LEMMA InsertedIntent ==
    ASSUME NEW j \in Job, Inserts(j)
    PROVE  \E r \in outbox' :
              /\ r.job_id = j /\ r.generation = jobs'[j].generation
              /\ r.attempt = jobs'[j].attempt_count + 1
              /\ r.available_at = jobs'[j].next_attempt_at
              /\ r.published_at = 0
<1>1. NewIntent(j) \in outbox'
  BY DEF Inserts
<1>2. /\ NewIntent(j).job_id = j
      /\ NewIntent(j).generation = jobs'[j].generation
      /\ NewIntent(j).attempt = jobs'[j].attempt_count + 1
      /\ NewIntent(j).available_at = jobs'[j].next_attempt_at
      /\ NewIntent(j).published_at = 0
  BY DEF NewIntent, Intent
<1> QED
  BY <1>1, <1>2

LEMMA DurableNext ==
    ASSUME TypeOK, JobInv, OutboxInv, DispatchInv, FailedInv, DurableIntent, [Next]_vars
    PROVE  DurableIntent'
<1> SUFFICES ASSUME NEW j \in Job, jobs'[j].status \in {"PENDING", "PROCESSING"}
             PROVE  \E q \in outbox' : q.job_id = j /\ q.generation = jobs'[j].generation
  BY DEF DurableIntent, Nonterminal
<1>1. ASSUME Nonterminal(j), jobs'[j].generation = jobs[j].generation
      PROVE  \E q \in outbox' : q.job_id = j /\ q.generation = jobs'[j].generation
  <2>1. PICK r \in outbox : r.job_id = j /\ r.generation = jobs[j].generation
    BY <1>1 DEF DurableIntent
  <2>2. ~Obsolete(r.job_id, r.generation)
    BY <1>1, <2>1 DEF Nonterminal, Obsolete, Terminal
  <2> QED
    BY <1>1, <2>1, <2>2, IntentSurvives DEF SameIntent
<1>2. CASE Kept(j)
  BY <1>1, <1>2 DEF Kept, Nonterminal
<1>3. CASE (\E b \in Budgets : Create(j, b)) \/ Requeue(j)
  BY <1>3, CreateInserts, RequeueInserts, InsertedIntent
<1>4. CASE \E w \in Worker, g \in Generations : <<j, g>> \in sent /\ ClaimCommits(w, j, g)
  <2>1. PICK w \in Worker, g \in Generations : <<j, g>> \in sent /\ ClaimCommits(w, j, g)
    BY <1>4
  <2>2. /\ jobs'[j].generation = jobs[j].generation
        /\ jobs[j].status \notin {"ABSENT", "COMPLETED", "DEAD"}
    BY <2>1, ClaimUpdates
  <2>3. jobs[j].status # "FAILED"
    BY <2>1 DEF FailedInv
  <2>4. Nonterminal(j)
    BY <2>2, <2>3 DEF Nonterminal, TypeOK, JobRow, Status, Terminal
  <2> QED
    BY <1>1, <2>2, <2>4
<1>5. CASE \E w \in Worker, g \in Generations : ClaimExhausted(w, j, g)
  BY <1>5, BuryUpdates
<1>6. CASE \E w \in Worker, delay \in Delays : Finish(w, delay) /\ j = proc[w].job_id
  <2>1. PICK w \in Worker, delay \in Delays : Finish(w, delay) /\ j = proc[w].job_id
    BY <1>6
  <2>2. jobs[j].status = "PROCESSING" /\ jobs'[j].generation = jobs[j].generation
    BY <2>1, FinishUpdates
  <2> QED
    BY <1>1, <2>2 DEF Nonterminal
<1> QED
  BY <1>2, <1>3, <1>4, <1>5, <1>6, JobRowSteps

\* Only time shortens the wait of a job whose row is otherwise kept.
LEMMA WaitKept ==
    ASSUME TypeOK, [Next]_vars, ~Tick, NEW j \in Job, Kept(j),
           Nonterminal(j), jobs[j].next_attempt_at > 0
    PROVE  jobs'[j].next_attempt_at = jobs[j].next_attempt_at
<1>1. ASSUME jobs'[j] = jobs[j] PROVE jobs'[j].next_attempt_at = jobs[j].next_attempt_at
  BY <1>1
<1>2. ASSUME NEW i \in Job, (\E b \in Budgets : Create(i, b)) \/ Requeue(i)
      PROVE  jobs'[j].next_attempt_at = jobs[j].next_attempt_at
  <2>1. CASE i = j
    BY <1>2, <2>1, CreateUpdates, RequeueUpdates DEF Nonterminal
  <2>2. CASE i # j
    BY <1>2, <2>2, CreateUpdates, RequeueUpdates
  <2> QED
    BY <2>1, <2>2
<1>3. ASSUME NEW w \in Worker, NEW i \in Job, NEW g \in Generations,
             ClaimCommits(w, i, g) \/ ClaimExhausted(w, i, g)
      PROVE  jobs'[j].next_attempt_at = jobs[j].next_attempt_at
  BY <1>3, ClaimUpdates, BuryUpdates
<1>4. ASSUME NEW w \in Worker, NEW delay \in Delays, Finish(w, delay)
      PROVE  jobs'[j].next_attempt_at = jobs[j].next_attempt_at
  <2> DEFINE i == proc[w].job_id
  <2>1. i \in Job
    BY <1>4, TaskFacts DEF Finish
  <2>2. i # j
    <3>1. jobs[i].status = "PROCESSING" /\ jobs'[i].status \in Outcome
      BY <1>4, <2>1, FinishUpdates
    <3> QED
      BY <3>1 DEF Kept, Outcome
  <2>3. \A k \in Job : k # i => jobs'[k] = jobs[k]
    BY <1>4, <2>1, FinishUpdates
  <2> QED
    BY <2>2, <2>3
<1>5. ASSUME NEW b \in beats, RenewLands(b)
      PROVE  jobs'[j].next_attempt_at = jobs[j].next_attempt_at
  BY <1>5, RenewKeeps
<1> QED
  BY <1>1, <1>2, <1>3, <1>4, <1>5 DEF Next, vars, Claim, ClaimReplyLost, DispatchSelect,
     DispatchRead, DispatchPublish, DispatchMark, DispatchDelete, DispatchFail,
     RenewFails, BeatSend, Abandon, HandlerReturns

LEMMA RetryIntentNext ==
    ASSUME TypeOK, JobInv, OutboxInv, DispatchInv, RetryIntentOwnsDelivery, [Next]_vars
    PROVE  RetryIntentOwnsDelivery'
<1> DEFINE Owned(j) == \E r \in outbox :
              /\ r.job_id = j /\ r.generation = jobs[j].generation
              /\ r.attempt = jobs[j].attempt_count + 1
              /\ r.available_at = jobs[j].next_attempt_at
              /\ r.published_at = 0
<1> SUFFICES ASSUME NEW j \in Job, jobs'[j].status \in {"PENDING", "PROCESSING"},
                    jobs'[j].next_attempt_at > 0
             PROVE  Owned(j)'
  BY DEF RetryIntentOwnsDelivery, Nonterminal, Early
<1>1. CASE Kept(j)
  <2>1. jobs[j].next_attempt_at > 0 /\ Nonterminal(j) /\ jobs[j].next_attempt_at \in Nat
    BY <1>1, DownFacts, RowFacts DEF Kept, Nonterminal
  <2>2. PICK r \in outbox : /\ r.job_id = j /\ r.generation = jobs[j].generation
                            /\ r.attempt = jobs[j].attempt_count + 1
                            /\ r.available_at = jobs[j].next_attempt_at
                            /\ r.published_at = 0
    BY <2>1 DEF RetryIntentOwnsDelivery, Early
  <2>3. ~Obsolete(r.job_id, r.generation)
    BY <2>1, <2>2 DEF Nonterminal, Obsolete, Terminal
  <2>4. CASE Tick
    <3>1. PICK q \in outbox' : SameIntent(r, q) /\ q.available_at = Down(r.available_at)
                               /\ q.published_at = Down(r.published_at)
      BY <2>4, AgedIntents
    <3>2. q.published_at = 0
      BY <2>2, <3>1 DEF Down
    <3> QED
      BY <1>1, <2>2, <2>4, <3>1, <3>2, TickKeeps DEF Kept, SameIntent
  <2>5. CASE ~Tick
    <3>1. r \in outbox'
      BY <2>1, <2>2, <2>3, <2>5, IntentSurvives
    <3>2. jobs'[j].next_attempt_at = jobs[j].next_attempt_at
      BY <1>1, <2>1, <2>5, WaitKept
    <3> QED
      BY <1>1, <2>2, <3>1, <3>2 DEF Kept
  <2> QED
    BY <2>4, <2>5
<1>2. CASE (\E b \in Budgets : Create(j, b)) \/ Requeue(j)
  BY <1>2, CreateUpdates, RequeueUpdates
<1>3. CASE \E w \in Worker, g \in Generations : ClaimCommits(w, j, g)
  BY <1>3, ClaimUpdates
<1>4. CASE \E w \in Worker, g \in Generations : ClaimExhausted(w, j, g)
  BY <1>4, BuryUpdates
<1>5. CASE \E w \in Worker, delay \in Delays : Finish(w, delay) /\ j = proc[w].job_id
  <2>1. PICK w \in Worker, delay \in Delays : Finish(w, delay) /\ j = proc[w].job_id
    BY <1>5
  <2>2. proc[w].outcome \in Outcome /\ jobs'[j].status = proc[w].outcome
    BY <2>1, FinishUpdates
  <2>3. proc[w].outcome = "PENDING"
    BY <2>2 DEF Outcome
  <2> QED
    BY <2>1, <2>3, RetryInserts, InsertedIntent
<1> QED
  BY <1>1, <1>2, <1>3, <1>4, <1>5, JobRowSteps

LEMMA PublishedNext ==
    ASSUME TypeOK, DispatchInv, PublishedWasSent, [Next]_vars
    PROVE  PublishedWasSent'
<1> SUFFICES ASSUME NEW q \in outbox', q.published_at > 0
             PROVE  <<q.job_id, q.generation>> \in sent'
  BY DEF PublishedWasSent
<1>1. sent \subseteq sent'
  BY DEF Next, vars, Create, Requeue, DispatchSelect, DispatchRead, DispatchPublish,
         DispatchMark, DispatchDelete, DispatchFail, Claim, ClaimReplyLost, ClaimExhausted,
         RenewLands, RenewFails, BeatSend, Abandon, HandlerReturns, Finish, Tick
<1>2. CASE q \in outbox
  BY <1>1, <1>2 DEF PublishedWasSent
<1>3. CASE \E j \in Job : q = NewIntent(j)
  BY <1>3 DEF NewIntent, Intent
<1>4. CASE \E d \in Dispatcher : DispatchMark(d)
  <2>1. PICK d \in Dispatcher : DispatchMark(d)
    BY <1>4
  <2>2. PICK r \in outbox : SameIntent(r, q) /\ (q = r \/ r.id = disp[d].id)
    BY <2>1, MarkedIntents
  <2>3. CASE r.id = disp[d].id
    BY <1>1, <2>1, <2>2, <2>3 DEF DispatchMark, DispatchInv, SameIntent
  <2> QED
    BY <1>2, <2>2, <2>3
<1>5. CASE Tick
  <2>1. PICK r \in outbox : SameIntent(r, q) /\ q.published_at = Down(r.published_at)
    BY <1>5, AgedIntents
  <2>2. r.published_at > 0
    BY <2>1, DownFacts, IntentFacts
  <2> QED
    BY <1>1, <2>1, <2>2 DEF PublishedWasSent, SameIntent
<1> QED
  BY <1>2, <1>3, <1>4, <1>5, OutboxSteps DEF Inserts, DispatchDelete

-----------------------------------------------------------------------------
(***************************************************************************)
(* The theorems.                                                           *)
(***************************************************************************)
LEMMA InitInv == Init => IInv
<1> SUFFICES ASSUME Init PROVE IInv
  OBVIOUS
<1>1. TypeOK
  BY InitType
<1>2. ASSUME NEW j \in Job
      PROVE  /\ jobs[j].status = "ABSENT" <=> jobs[j].generation = 0
             /\ jobs[j].attempt_count <= jobs[j].max_retries + 1
             /\ jobs[j].status # "PROCESSING" /\ jobs[j].status # "COMPLETED"
             /\ jobs[j].next_attempt_at = 0
             /\ jobs[j].status = "PENDING" => jobs[j].generation = 1
  <2>1. PICK s \in {"ABSENT", "PENDING", "FAILED", "DEAD"}, b \in Budgets :
            jobs[j] \in Migrated(s, b)
    BY InitRow
  <2>2. b \in Nat
    BY ConstantsAssumption
  <2>3. PICK g \in {0, 1}, n \in 0 .. b + 1, c \in {0, b} :
            /\ jobs[j] = Fresh(s, g, n, c)
            /\ s = "ABSENT" <=> g = 0
            /\ n <= c + 1
    <3>1. CASE s = "ABSENT"
      BY <2>1, <2>2, <3>1 DEF Migrated
    <3>2. CASE s = "PENDING"
      BY <2>1, <2>2, <3>2 DEF Migrated
    <3>3. CASE s \in {"FAILED", "DEAD"}
      BY <2>1, <2>2, <3>3 DEF Migrated
    <3> QED
      BY <3>1, <3>2, <3>3
  <2> QED
    BY <2>3 DEF Fresh
<1>3. PICK number \in [Job -> 1 .. Cardinality(Job)] :
          /\ \A i, j \in Job : i # j => number[i] # number[j]
          /\ outbox = { Intent(number[j], j, 1, jobs[j].attempt_count + 1, 0) :
                          j \in { i \in Job : jobs[i].status = "PENDING" } }
  BY DEF Init
<1>4. Cardinality(Job) \in Nat /\ nextId = Cardinality(Job) + 1
  BY ConstantsAssumption, FS_CardinalityType DEF Init
<1>5. ASSUME NEW r \in outbox
      PROVE  /\ r.job_id \in Job /\ jobs[r.job_id].status = "PENDING"
             /\ r.id = number[r.job_id] /\ r.generation = 1
             /\ r.attempt = jobs[r.job_id].attempt_count + 1
             /\ r.available_at = 0 /\ r.published_at = 0
             /\ r = Intent(r.id, r.job_id, 1, r.attempt, 0)
  BY <1>3 DEF Intent
<1>6. JobInv
  BY <1>2 DEF JobInv
<1>7. OutboxInv
  <2>1. ASSUME NEW r \in outbox
        PROVE  /\ r.id < nextId
               /\ r.generation = 1 /\ jobs[r.job_id].generation = 1
               /\ r.attempt <= jobs[r.job_id].attempt_count + 1
               /\ jobs[r.job_id].status # "PROCESSING"
    BY <1>1, <1>2, <1>4, <1>5, RowFacts
  <2>2. ASSUME NEW r \in outbox, NEW q \in outbox, r.id = q.id PROVE r = q
    <3>1. r.job_id = q.job_id
      BY <1>3, <1>5, <2>2
    <3> QED
      BY <1>5, <2>2, <3>1
  <2> QED
    BY <2>1, <2>2 DEF OutboxInv
<1>8. DispatchInv /\ TaskInv
  BY DEF Init, DispatchInv, TaskInv, NoTransaction, NoTask
<1>9. FailedInv
  <2>1. \A m \in sent : jobs[m[1]].status \in {"PENDING", "DEAD"}
    BY DEF Init
  <2>2. \A d \in Dispatcher : disp[d] = NoTransaction
    BY DEF Init
  <2> QED
    BY <1>5, <2>1, <2>2, ConstantsAssumption DEF FailedInv, NoTransaction
<1>10. AuditInv
  BY DEF Init, AuditInv
<1>11. StartsInv /\ BudgetRespected
  BY <1>1, RowFacts DEF Init, StartsInv, BudgetRespected
<1>12. DurableIntent
  <2> SUFFICES ASSUME NEW j \in Job, jobs[j].status = "PENDING"
               PROVE  \E r \in outbox : r.job_id = j /\ r.generation = jobs[j].generation
    BY <1>2 DEF DurableIntent, Nonterminal
  <2>1. Intent(number[j], j, 1, jobs[j].attempt_count + 1, 0) \in outbox
    BY <1>3
  <2> QED
    BY <1>2, <2>1 DEF Intent
<1>13. RetryIntentOwnsDelivery /\ CompletedWasExecuted
  BY <1>2 DEF RetryIntentOwnsDelivery, Early, CompletedWasExecuted
<1>14. PublishedWasSent
  BY <1>5 DEF PublishedWasSent
<1> QED
  BY <1>1, <1>6, <1>7, <1>8, <1>9, <1>10, <1>11, <1>12, <1>13, <1>14 DEF IInv

LEMMA NextInv == IInv /\ [Next]_vars => IInv'
<1> SUFFICES ASSUME IInv, [Next]_vars PROVE IInv'
  OBVIOUS
<1>1. /\ TypeOK /\ JobInv /\ OutboxInv /\ DispatchInv /\ FailedInv /\ TaskInv
      /\ StartsInv /\ AuditInv /\ DurableIntent /\ RetryIntentOwnsDelivery
      /\ PublishedWasSent /\ BudgetRespected /\ CompletedWasExecuted
  BY DEF IInv
<1>2. AuditInv'
  BY <1>1, AuditSteps DEF AuditInv
<1> QED
  BY <1>1, <1>2, NextType, JobInvNext, OutboxInvNext, DispatchInvNext, FailedInvNext,
     TaskInvNext, StartsInvNext, DurableNext, RetryIntentNext, PublishedNext,
     CompletedNext DEF IInv

\* The invariant holds in every reachable state.
THEOREM Invariance == Spec => []IInv
BY InitInv, NextInv, PTL DEF Spec

\* Accepted work is never lost: a job that is not finished has a dispatch intent.
THEOREM IntentsAreDurable == Spec => []DurableIntent
<1>1. IInv => DurableIntent
  BY DEF IInv
<1> QED
  BY <1>1, Invariance, PTL

\* An early delivery may be acknowledged: the next attempt has its own intent.
THEOREM RetriesOwnTheirDelivery == Spec => []RetryIntentOwnsDelivery
<1>1. IInv => RetryIntentOwnsDelivery
  BY DEF IInv
<1> QED
  BY <1>1, Invariance, PTL

\* No outcome and no replay is ever refused for a taken outbox key.
THEOREM IntentKeysAvailable == Spec => []IntentKeyAvailable
<1>1. IInv => IntentKeyAvailable
  <2> SUFFICES ASSUME IInv, NEW j \in Job
               PROVE  /\ jobs[j].status = "PROCESSING" =>
                            KeyFree(j, jobs[j].generation, jobs[j].attempt_count + 1)
                      /\ jobs[j].status \in {"ABSENT", "DEAD", "FAILED"} =>
                            KeyFree(j, jobs[j].generation + 1, 1)
    BY DEF IntentKeyAvailable
  <2>1. TypeOK /\ OutboxInv
    BY DEF IInv
  <2>2. jobs[j].generation \in Nat /\ jobs[j].attempt_count \in Nat
    BY <2>1, RowFacts
  <2>3. ASSUME NEW r \in outbox, r.job_id = j
        PROVE  /\ r.generation # jobs[j].generation + 1
               /\ jobs[j].status = "PROCESSING" /\ r.generation = jobs[j].generation
                  => r.attempt # jobs[j].attempt_count + 1
    BY <2>1, <2>2, <2>3, IntentFacts DEF OutboxInv
  <2> QED
    BY <2>3 DEF KeyFree
<1> QED
  BY <1>1, Invariance, PTL

\* Crashes, takeovers and lost replies never buy an execution beyond the budget.
THEOREM BudgetIsRespected == Spec => []BudgetRespected
<1>1. IInv => BudgetRespected
  BY DEF IInv
<1> QED
  BY <1>1, Invariance, PTL

\* Every completion is that of a successful execution of the same generation.
THEOREM CompletionsAreReal == Spec => []CompletedWasExecuted
<1>1. IInv => CompletedWasExecuted
  BY DEF IInv
<1> QED
  BY <1>1, Invariance, PTL

\* An intent marked as published is in the stream.
THEOREM PublishedIsSent == Spec => []PublishedWasSent
<1>1. IInv => PublishedWasSent
  BY DEF IInv
<1> QED
  BY <1>1, Invariance, PTL

LEMMA ClaimWaits ==
    ASSUME TypeOK, NEW w \in Worker, NEW j \in Job, NEW g \in Generations,
           ClaimCommits(w, j, g) \/ ClaimExhausted(w, j, g), jobs[j].status = "PROCESSING"
    PROVE  ~(jobs[j].lease_until > 0)
BY DEF ClaimCommits, ClaimExhausted, Claimable, Busy

\* Only the holder of a live lease, in its current attempt, decides a job.
THEOREM LeaseHolderDecidesIt == Spec => LeaseHolderDecides
<1> DEFINE Decided(j) ==
        LET live == jobs[j].lease_until > 0
            moved == jobs'[j].status # jobs[j].status
                     \/ jobs'[j].attempt_count # jobs[j].attempt_count
        IN  /\ jobs[j].status = "PROCESSING"
            /\ (moved /\ live) \/ jobs'[j].status \in {"COMPLETED", "PENDING", "FAILED"}
            => live /\ \E w \in Worker : Owns(w, j) /\ proc[w].outcome = jobs'[j].status
<1>1. IInv /\ [Next]_vars => [\A j \in Job : Decided(j)]_vars
  <2> SUFFICES ASSUME IInv, [Next]_vars, NEW j \in Job PROVE Decided(j)
    OBVIOUS
  <2>0. TypeOK /\ TaskInv
    BY DEF IInv
  <2>1. CASE Kept(j)
    BY <2>1 DEF Kept
  <2>2. CASE (\E b \in Budgets : Create(j, b)) \/ Requeue(j)
    BY <2>0, <2>2, CreateUpdates, RequeueUpdates
  <2>3. CASE \E w \in Worker, g \in Generations : ClaimCommits(w, j, g)
    BY <2>0, <2>3, ClaimUpdates, ClaimWaits
  <2>4. CASE \E w \in Worker, g \in Generations : ClaimExhausted(w, j, g)
    <3>1. PICK w \in Worker, g \in Generations : ClaimExhausted(w, j, g)
      BY <2>4
    <3>2. jobs'[j].status = "DEAD"
      BY <2>0, <3>1, BuryUpdates
    <3> QED
      BY <2>0, <3>1, <3>2, ClaimWaits
  <2>5. CASE \E w \in Worker, delay \in Delays : Finish(w, delay) /\ j = proc[w].job_id
    <3>1. PICK w \in Worker, delay \in Delays : Finish(w, delay) /\ j = proc[w].job_id
      BY <2>5
    <3>2. proc[w].pc = "finishing"
      BY <3>1 DEF Finish
    <3>3. /\ jobs[j].status = "PROCESSING" /\ jobs[j].lease_owner = w
          /\ jobs[j].lease_until > 0 /\ jobs[j].generation = proc[w].generation
          /\ jobs'[j].status = proc[w].outcome
      BY <2>0, <3>1, FinishUpdates
    <3>4. proc[w].attempt_count = jobs[j].attempt_count
      BY <2>0, <3>1, <3>2, <3>3 DEF TaskInv
    <3> QED
      BY <3>1, <3>2, <3>3, <3>4 DEF Owns
  <2> QED
    BY <2>0, <2>1, <2>2, <2>3, <2>4, <2>5, JobRowSteps
<1> QED
  BY <1>1, Invariance, PTL DEF Spec, LeaseHolderDecides

\* A finished job changes only by a replay, into a fresh next generation.
THEOREM TerminalIsFinal == Spec => TerminalUntilReplay
<1> DEFINE Final(j) ==
          /\ jobs[j].status \in {"COMPLETED", "DEAD", "FAILED"}
          /\ jobs'[j].status # jobs[j].status \/ jobs'[j].attempt_count # jobs[j].attempt_count
          => /\ jobs[j].status # "COMPLETED"
             /\ jobs'[j] = Fresh("PENDING", jobs[j].generation + 1, 0, jobs[j].max_retries)
<1>1. IInv /\ [Next]_vars => [\A j \in Job : Final(j)]_vars
  <2> SUFFICES ASSUME IInv, [Next]_vars, NEW j \in Job PROVE Final(j)
    OBVIOUS
  <2>0. TypeOK /\ FailedInv
    BY DEF IInv
  <2>1. CASE Kept(j)
    BY <2>1 DEF Kept
  <2>2. CASE \E b \in Budgets : Create(j, b)
    BY <2>0, <2>2, CreateUpdates
  <2>3. CASE Requeue(j)
    <3>1. jobs'[j] = Fresh("PENDING", jobs[j].generation + 1, 0, jobs[j].max_retries)
      BY <2>0, <2>3 DEF Requeue, UpdateJob, TypeOK
    <3> QED
      BY <2>0, <2>3, <3>1, RequeueUpdates
  <2>4. CASE \E w \in Worker, g \in Generations :
                <<j, g>> \in sent /\ (ClaimCommits(w, j, g) \/ ClaimExhausted(w, j, g))
    <3>1. PICK w \in Worker, g \in Generations :
              <<j, g>> \in sent /\ (ClaimCommits(w, j, g) \/ ClaimExhausted(w, j, g))
      BY <2>4
    <3>3. jobs[j].status # "FAILED"
      BY <2>0, <3>1 DEF FailedInv
    <3>4. jobs[j].status \notin {"ABSENT", "COMPLETED", "DEAD"}
      BY <2>0, <3>1, ClaimUpdates, BuryUpdates
    <3> QED
      BY <3>3, <3>4
  <2>5. CASE \E w \in Worker, delay \in Delays : Finish(w, delay) /\ j = proc[w].job_id
    BY <2>0, <2>5, FinishUpdates
  <2> QED
    BY <2>0, <2>1, <2>2, <2>3, <2>4, <2>5, JobRowSteps
<1> QED
  BY <1>1, Invariance, PTL DEF Spec, TerminalUntilReplay

\* A dispatcher deletes an intent only while its generation is over.
THEOREM DeletesOnlyObsolete == Spec => DeleteOnlyObsolete
<1> DEFINE Kept2(r) == (\A q \in outbox' : q.id # r.id) => Obsolete(r.job_id, r.generation)
<1>1. IInv /\ [Next]_vars => [\A r \in outbox : Kept2(r)]_vars
  BY IntentSurvives DEF IInv, SameIntent
<1> QED
  BY <1>1, Invariance, PTL DEF Spec, DeleteOnlyObsolete

\* The audit log has no gaps and ends in the current status.
THEOREM AuditTrailIsComplete == Spec => AuditTrail
<1>1. IInv => \A j \in Job : audit[j].to_status = jobs[j].status
  BY DEF IInv, AuditInv
<1>2. IInv /\ [Next]_vars => [\A j \in Job : Logged(j)]_vars
  BY AuditSteps DEF IInv
<1> QED
  BY <1>1, <1>2, Invariance, PTL DEF Spec, AuditTrail, Logged

-----------------------------------------------------------------------------
(***************************************************************************)
(* The tables implement the documented life cycle of a job.                *)
(***************************************************************************)
LEMMA LifeInit == Init => Lifecycle!Init
<1> SUFFICES ASSUME Init, NEW j \in Job
    PROVE  [status |-> jobs[j].status, generation |-> jobs[j].generation,
            attempts |-> jobs[j].attempt_count, budget |-> jobs[j].max_retries]
             \in { Lifecycle!Unknown } \cup Lifecycle!Inherited
  BY DEF Lifecycle!Init, Life
<1>1. PICK s \in {"ABSENT", "PENDING", "FAILED", "DEAD"}, b \in Budgets :
          jobs[j] \in Migrated(s, b)
  BY InitRow
<1>2. CASE s = "ABSENT"
  BY <1>1, <1>2 DEF Migrated, Fresh, Lifecycle!Unknown, Lifecycle!Stage
<1>3. CASE s = "PENDING"
  BY <1>1, <1>3 DEF Migrated, Fresh, Lifecycle!Inherited, Lifecycle!Stage
<1>4. CASE s \in {"FAILED", "DEAD"}
  BY <1>1, <1>4 DEF Migrated, Fresh, Lifecycle!Inherited, Lifecycle!Stage
<1> QED
  BY <1>1, <1>2, <1>3, <1>4

\* A step that changes only job j's row, in what the life cycle sees of it.
LEMMA LifeOfOne ==
    ASSUME NEW j \in Job, NEW s, NEW g, NEW n, NEW b,
           jobs'[j].status = s, jobs'[j].generation = g,
           jobs'[j].attempt_count = n, jobs'[j].max_retries = b,
           \A i \in Job : i # j => jobs'[i] = jobs[i]
    PROVE  Life' = [Life EXCEPT ![j] =
                      [status |-> s, generation |-> g, attempts |-> n, budget |-> b]]
BY DEF Life

LEMMA LifeKept ==
    ASSUME \A j \in Job : Kept(j)
    PROVE  Life' = Life
BY DEF Life, Kept

LEMMA LifeStep == IInv /\ [Next]_vars => [Lifecycle!Next]_Life
<1> SUFFICES ASSUME IInv, [Next]_vars PROVE [Lifecycle!Next]_Life
  OBVIOUS
<1>0. TypeOK /\ JobInv /\ TaskInv /\ FailedInv
  BY DEF IInv
<1>1. ASSUME jobs' = jobs PROVE Life' = Life
  BY <1>1 DEF Life
<1>2. ASSUME NEW j \in Job, NEW b \in Budgets, Create(j, b) PROVE Lifecycle!Accept(j, b)
  <2>1. Life[j].status = "ABSENT"
    BY <1>0, <1>2, CreateUpdates DEF Life
  <2>2. Life' = [Life EXCEPT ![j] = [status |-> "PENDING", generation |-> 1,
                                     attempts |-> 0, budget |-> b]]
    BY <1>0, <1>2, CreateUpdates, LifeOfOne
  <2> QED
    BY <2>1, <2>2 DEF Lifecycle!Accept, Lifecycle!Become, Lifecycle!Stage
<1>3. ASSUME NEW j \in Job, Requeue(j) PROVE Lifecycle!Replay(j)
  <2>1. Life[j].status \in {"DEAD", "FAILED"} /\ Life[j].generation = jobs[j].generation
        /\ Life[j].budget = jobs[j].max_retries
    BY <1>0, <1>3, RequeueUpdates DEF Life
  <2>2. Life' = [Life EXCEPT ![j] =
                   [status |-> "PENDING", generation |-> jobs[j].generation + 1,
                    attempts |-> 0, budget |-> jobs[j].max_retries]]
    BY <1>0, <1>3, RequeueUpdates, LifeOfOne
  <2> QED
    BY <2>1, <2>2 DEF Lifecycle!Replay, Lifecycle!Become, Lifecycle!Stage
<1>4. ASSUME NEW w \in Worker, NEW j \in Job, NEW g \in Generations,
             <<j, g>> \in sent, ClaimCommits(w, j, g)
      PROVE  Lifecycle!Begin(j)
  <2>1. jobs[j].status \notin {"ABSENT", "COMPLETED", "DEAD"}
        /\ jobs[j].attempt_count <= jobs[j].max_retries
    BY <1>0, <1>4, ClaimUpdates
  <2>2. jobs[j].status # "FAILED"
    BY <1>0, <1>4 DEF FailedInv
  <2>3. jobs[j].status \in {"PENDING", "PROCESSING"}
    BY <1>0, <2>1, <2>2 DEF TypeOK, JobRow, Status, Terminal
  <2>4. Life' = [Life EXCEPT ![j] =
                   [status |-> "PROCESSING", generation |-> jobs[j].generation,
                    attempts |-> jobs[j].attempt_count + 1, budget |-> jobs[j].max_retries]]
    BY <1>0, <1>4, ClaimUpdates, LifeOfOne
  <2>5. Life[j] = [status |-> jobs[j].status, generation |-> jobs[j].generation,
                   attempts |-> jobs[j].attempt_count, budget |-> jobs[j].max_retries]
    BY DEF Life
  <2>6. ~Lifecycle!Exhausted(j)
    BY <1>0, <2>1, <2>5, RowFacts DEF Lifecycle!Exhausted
  <2> QED
    BY <2>3, <2>4, <2>5, <2>6
       DEF Lifecycle!Begin, Lifecycle!Move, Lifecycle!Become, Lifecycle!Stage
<1>5. ASSUME NEW w \in Worker, NEW j \in Job, NEW g \in Generations,
             <<j, g>> \in sent, ClaimExhausted(w, j, g)
      PROVE  Lifecycle!Bury(j)
  <2>1. jobs[j].status \notin {"ABSENT", "COMPLETED", "DEAD"}
    BY <1>0, <1>5, BuryUpdates
  <2>2. jobs[j].status # "FAILED" /\ jobs[j].attempt_count >= jobs[j].max_retries + 1
    BY <1>0, <1>5 DEF ClaimExhausted, FailedInv, Exhausted
  <2>3. jobs[j].status \in {"PENDING", "PROCESSING"}
    BY <1>0, <2>1, <2>2 DEF TypeOK, JobRow, Status, Terminal
  <2>4. Life' = [Life EXCEPT ![j] =
                   [status |-> "DEAD", generation |-> jobs[j].generation,
                    attempts |-> jobs[j].attempt_count, budget |-> jobs[j].max_retries]]
    BY <1>0, <1>5, BuryUpdates, LifeOfOne
  <2>5. Life[j] = [status |-> jobs[j].status, generation |-> jobs[j].generation,
                   attempts |-> jobs[j].attempt_count, budget |-> jobs[j].max_retries]
    BY DEF Life
  <2>6. Lifecycle!Exhausted(j)
    BY <1>0, <2>2, <2>5, RowFacts DEF Lifecycle!Exhausted
  <2> QED
    BY <2>3, <2>4, <2>5, <2>6
       DEF Lifecycle!Bury, Lifecycle!Move, Lifecycle!Become, Lifecycle!Stage
<1>6. ASSUME NEW w \in Worker, NEW delay \in Delays, Finish(w, delay)
      PROVE  \E j \in Job : Lifecycle!Complete(j) \/ Lifecycle!Reschedule(j) \/ Lifecycle!Bury(j)
  <2> DEFINE j == proc[w].job_id
  <2>1. j \in Job
    BY <1>0, <1>6, TaskFacts DEF Finish
  <2>2. /\ jobs[j].status = "PROCESSING" /\ jobs[j].lease_owner = w
        /\ jobs[j].generation = proc[w].generation
        /\ proc[w].outcome \in Outcome
    BY <1>0, <1>6, <2>1, FinishUpdates
  <2>3. Life' = [Life EXCEPT ![j] =
                   [status |-> proc[w].outcome, generation |-> jobs[j].generation,
                    attempts |-> jobs[j].attempt_count, budget |-> jobs[j].max_retries]]
    BY <1>0, <1>6, <2>1, FinishUpdates, LifeOfOne
  <2>4. Life[j] = [status |-> jobs[j].status, generation |-> jobs[j].generation,
                   attempts |-> jobs[j].attempt_count, budget |-> jobs[j].max_retries]
    BY <2>1 DEF Life
  <2>5. proc[w].outcome = "PENDING" => ~Lifecycle!Exhausted(j)
    <3>1. /\ proc[w].attempt_count = jobs[j].attempt_count
          /\ proc[w].outcome = "PENDING" => proc[w].attempt_count <= jobs[j].max_retries
      BY <1>0, <1>6, <2>2 DEF TaskInv, Finish
    <3> QED
      BY <1>0, <2>1, <2>4, <3>1, RowFacts DEF Lifecycle!Exhausted
  <2>6. CASE proc[w].outcome = "COMPLETED"
    <3>1. Lifecycle!Complete(j)
      BY <2>2, <2>3, <2>4, <2>6
         DEF Lifecycle!Complete, Lifecycle!Move, Lifecycle!Become, Lifecycle!Stage
    <3> QED
      BY <2>1, <3>1
  <2>7. CASE proc[w].outcome = "PENDING"
    <3>1. Lifecycle!Reschedule(j)
      BY <2>2, <2>3, <2>4, <2>5, <2>7
         DEF Lifecycle!Reschedule, Lifecycle!Move, Lifecycle!Become, Lifecycle!Stage
    <3> QED
      BY <2>1, <3>1
  <2>8. CASE proc[w].outcome = "DEAD"
    <3>1. Lifecycle!Bury(j)
      BY <2>2, <2>3, <2>4, <2>8
         DEF Lifecycle!Bury, Lifecycle!Move, Lifecycle!Become, Lifecycle!Stage
    <3> QED
      BY <2>1, <3>1
  <2> QED
    BY <2>2, <2>6, <2>7, <2>8 DEF Outcome
<1>7. ASSUME NEW b \in beats, RenewLands(b) PROVE Life' = Life
  BY <1>0, <1>7, RenewKeeps, LifeKept
<1>8. CASE Tick
  BY <1>0, <1>8, TickKeeps, LifeKept
<1>9. CASE \E j \in Job : (\E b \in Budgets : Create(j, b)) \/ Requeue(j)
  BY <1>2, <1>3, <1>9 DEF Lifecycle!Next
<1>10. CASE \E w \in Worker, j \in Job, g \in Generations :
               /\ <<j, g>> \in sent
               /\ Claim(w, j, g) \/ ClaimReplyLost(w, j, g) \/ ClaimExhausted(w, j, g)
  BY <1>4, <1>5, <1>10 DEF Claim, ClaimReplyLost, Lifecycle!Next
<1>11. CASE \E w \in Worker, delay \in Delays : Finish(w, delay)
  BY <1>6, <1>11 DEF Lifecycle!Next
<1>12. CASE \/ \E d \in Dispatcher :
                  \/ DispatchSelect(d) \/ DispatchRead(d) \/ DispatchPublish(d)
                  \/ DispatchMark(d) \/ DispatchDelete(d) \/ DispatchFail(d)
            \/ \E b \in beats : RenewFails(b)
            \/ \E w \in Worker :
                  \/ BeatSend(w) \/ Abandon(w)
                  \/ \E result \in {"ok", "transient", "permanent"} : HandlerReturns(w, result)
            \/ UNCHANGED vars
  <2>1. jobs' = jobs
    BY <1>12 DEF DispatchSelect, DispatchRead, DispatchPublish, DispatchMark,
       DispatchDelete, DispatchFail, RenewFails, BeatSend, Abandon, HandlerReturns, vars
  <2> QED
    BY <1>1, <2>1
<1> QED
  BY <1>7, <1>8, <1>9, <1>10, <1>11, <1>12 DEF Next

\* Every behaviour of the tables, workers and dispatchers is one of the
\* documented life cycle, with its budget and its generations.
THEOREM Refinement == Spec => ImplementsLifecycle
BY LifeInit, LifeStep, Invariance, PTL DEF Spec, ImplementsLifecycle, Lifecycle!Spec

-----------------------------------------------------------------------------
(***************************************************************************)
(* The waits between attempts.                                             *)
(***************************************************************************)
\* Below the sign bit nothing wraps.
LEMMA NothingWraps ==
    ASSUME NEW x \in Nat, x < Half
    PROVE  Wrapped(x) = x
<1>1. Half \in Nat  BY BackoffAssumption DEF BackoffAssumption
<1>2. (x + Half) % (2 * Half) = x + Half  BY <1>1
<1> QED  BY <1>1, <1>2 DEF Wrapped

\* What 1<<n gives for a clamped n.
Powers == {1, 2, 4, 8, 16, 32, 64, 128, 256}

Power(c, p) ==
    /\ c = 0 => p = 1
    /\ c = 1 => p = 2
    /\ c = 2 => p = 4
    /\ c = 3 => p = 8
    /\ c = 4 => p = 16
    /\ c = 5 => p = 32
    /\ c = 6 => p = 64
    /\ c = 7 => p = 128
    /\ c = 8 => p = 256

LEMMA PowersOfTwo ==
    ASSUME NEW c
    PROVE  Power(c, 2^c)
<1>1. ASSUME c = 0  PROVE 2^c = 1
  <2>1. 2^0 = 1  OBVIOUS
  <2> QED  BY <1>1, <2>1, Zenon
<1>2. ASSUME c = 1  PROVE 2^c = 2
  <2>1. 2^1 = 2  OBVIOUS
  <2> QED  BY <1>2, <2>1, Zenon
<1>3. ASSUME c = 2  PROVE 2^c = 4
  <2>1. 2^2 = 4  OBVIOUS
  <2> QED  BY <1>3, <2>1, Zenon
<1>4. ASSUME c = 3  PROVE 2^c = 8
  <2>1. 2^3 = 8  OBVIOUS
  <2> QED  BY <1>4, <2>1, Zenon
<1>5. ASSUME c = 4  PROVE 2^c = 16
  <2>1. 2^4 = 16  OBVIOUS
  <2> QED  BY <1>5, <2>1, Zenon
<1>6. ASSUME c = 5  PROVE 2^c = 32
  <2>1. 2^5 = 32  OBVIOUS
  <2> QED  BY <1>6, <2>1, Zenon
<1>7. ASSUME c = 6  PROVE 2^c = 64
  <2>1. 2^6 = 64  OBVIOUS
  <2> QED  BY <1>7, <2>1, Zenon
<1>8. ASSUME c = 7  PROVE 2^c = 128
  <2>1. 2^7 = 128  OBVIOUS
  <2> QED  BY <1>8, <2>1, Zenon
<1>9. ASSUME c = 8  PROVE 2^c = 256
  <2>1. 2^8 = 256  OBVIOUS
  <2> QED  BY <1>9, <2>1, Zenon
<1> QED  BY <1>1, <1>2, <1>3, <1>4, <1>5, <1>6, <1>7, <1>8, <1>9 DEF Power

\* From one retry to the next it doubles, until the clamp takes over.
LEMMA ClampedShift ==
    ASSUME NEW n \in Int
    PROVE  /\ 2^Clamped(n) \in Powers /\ Clamped(n) < Width
           /\ 2^Clamped(n + 1) \in { 2^Clamped(n), 2 * 2^Clamped(n) }
           /\ n = 0 => 2^Clamped(n) = 1
<1> DEFINE c == Clamped(n)
           d == Clamped(n + 1)
           p == 2^c
           q == 2^d
<1>1. c \in 0 .. 8 /\ d \in {c, c + 1} /\ d \in 0 .. 8 /\ (n = 0 => c = 0)
  BY DEF Clamped
<1>2. c < Width  BY <1>1, BackoffAssumption DEF BackoffAssumption
<1> HIDE DEF c, d
<1>3. Power(c, p) /\ Power(d, q)  BY PowersOfTwo
<1> HIDE DEF p, q
<1>4. p \in Powers /\ q \in {p, 2 * p} /\ (n = 0 => p = 1)
  BY <1>1, <1>3 DEF Powers, Power
<1> QED  BY <1>2, <1>4 DEF p, q, c, d

LEMMA HalfDelay ==
    ASSUME NEW n \in Int
    PROVE  Longest(n) \div 2 =
               LET h == Second * 2^Clamped(n)
               IN  IF h > 150 * Second THEN 150 * Second ELSE h
<1> DEFINE p == 2^Clamped(n)
           cap == 2 * Second * p
<1>1. /\ Second \in Nat \ {0} /\ Half \in Nat /\ 512 * Second < Half
  BY BackoffAssumption DEF BackoffAssumption
<1>2. p \in Powers /\ ~(Clamped(n) >= Width)
  <2>1. p \in Powers /\ Clamped(n) < Width  BY ClampedShift
  <2>2. Clamped(n) \in Int /\ Width \in Int
    BY BackoffAssumption DEF BackoffAssumption, Clamped
  <2> QED  BY <2>1, <2>2
<1>3. Shifted(Clamped(n)) = Wrapped(p)  BY <1>2 DEF Shifted
<1> HIDE DEF p
<1>4. p \in Nat /\ p < Half  BY <1>1, <1>2 DEF Powers
<1>5. cap \in Nat /\ cap < Half  BY <1>1, <1>2 DEF Powers
<1>6. Shifted(Clamped(n)) = p  BY <1>3, <1>4, NothingWraps
<1> HIDE DEF cap
<1>7. Wrapped(2 * Second * Shifted(Clamped(n))) = cap  BY <1>5, <1>6, NothingWraps DEF cap
<1>8. Longest(n) = IF cap > 300 * Second THEN 300 * Second ELSE cap
  BY <1>1, <1>7 DEF Longest, Minute
<1>9. Longest(n) \div 2 = IF Second * p > 150 * Second THEN 150 * Second ELSE Second * p
  BY <1>1, <1>2, <1>8 DEF cap, Powers
<1> QED  BY <1>9 DEF p

\* backoff.go:8, for every attempt, seconds of any length and Durations of any width
\* that the longest delay fits.
THEOREM EveryDelayBacksOff == \A n \in Int : BacksOff(n)
<1> SUFFICES ASSUME NEW n \in Int  PROVE BacksOff(n)  OBVIOUS
<1>1. Second \in Nat \ {0}  BY BackoffAssumption DEF BackoffAssumption
<1> DEFINE p(i) == 2^Clamped(i)
           half(i) == Longest(i) \div 2
<1>2. p(n) \in Powers /\ p(n + 1) \in { p(n), 2 * p(n) } /\ (n = 0 => p(n) = 1)
  BY ClampedShift
<1>3. \A i \in Int : half(i) = IF Second * p(i) > 150 * Second THEN 150 * Second ELSE Second * p(i)
  BY HalfDelay
<1>4. \A i : ExponentialDelay(i) = { half(i) + r : r \in 0 .. half(i) }
  BY DEF ExponentialDelay
<1> DEFINE h == half(n)
           k == half(n + 1)
<1>5. h \in Nat /\ h >= Second /\ h <= 150 * Second /\ (n = 0 => h = Second)
  <2> HIDE DEF p, half
  <2> QED  BY <1>1, <1>2, <1>3 DEF Powers
<1>6. k \in Nat /\ k >= h
  <2> HIDE DEF p, half
  <2>1. k = IF Second * p(n + 1) > 150 * Second THEN 150 * Second ELSE Second * p(n + 1)
    BY <1>3
  <2>2. h = IF Second * p(n) > 150 * Second THEN 150 * Second ELSE Second * p(n)
    BY <1>3
  <2> QED  BY <1>1, <1>2, <2>1, <2>2 DEF Powers
<1>7. /\ ExponentialDelay(n) = { h + r : r \in 0 .. h }
      /\ ExponentialDelay(n + 1) = { k + r : r \in 0 .. k }
  BY <1>4
<1> HIDE DEF h, k
<1>8. Bounded(n)
  <2>1. h + 0 \in ExponentialDelay(n)  BY <1>5, <1>7
  <2>2. \A r \in 0 .. h : h + r \in Second .. 5 * Minute  BY <1>1, <1>5 DEF Minute
  <2> QED  BY <1>7, <2>1, <2>2 DEF Bounded
<1>9. KeepsBackingOff(n)
  <2>1. \A r \in 0 .. h, q \in 0 .. k : 2 * (k + q) >= h + r  BY <1>5, <1>6
  <2> QED  BY <1>7, <2>1 DEF KeepsBackingOff
<1>10. Starts(n)
  <2>1. n = 0 => \A r \in 0 .. h : h + r \in Second .. 2 * Second  BY <1>1, <1>5
  <2> QED  BY <1>7, <2>1 DEF Starts
<1> QED  BY <1>8, <1>9, <1>10 DEF BacksOff

\* An attempt is counted when it begins.
Attempted == \A w \in Worker : proc[w].pc # "idle" => proc[w].attempt_count \in Nat \ {0}

LEMMA AttemptedNext == ASSUME TypeOK, Attempted, [Next]_vars PROVE Attempted'
<1> SUFFICES ASSUME NEW w \in Worker, proc'[w].pc # "idle"
             PROVE  proc'[w].attempt_count \in Nat \ {0}
  BY DEF Attempted
<1>1. CASE proc'[w] = proc[w]  BY <1>1 DEF Attempted
<1>2. CASE proc'[w] = NoTask  BY <1>2 DEF NoTask
<1>3. CASE proc'[w] = [proc[w] EXCEPT !.pc = "lost"] /\ proc[w].pc = "handling"
  <2>1. proc'[w].attempt_count = proc[w].attempt_count
    BY <1>3 DEF TypeOK, Task, Attempt, NoTask
  <2> QED  BY <1>3, <2>1 DEF Attempted
<1>4. ASSUME NEW j \in Job, NEW g \in Generations, Claim(w, j, g)
      PROVE  proc'[w].attempt_count \in Nat \ {0}
  <2>1. proc'[w].attempt_count = jobs[j].attempt_count + 1
    BY <1>4 DEF Claim, TypeOK
  <2> QED  BY <2>1, RowFacts
<1>5. ASSUME NEW result \in {"ok", "transient", "permanent"}, HandlerReturns(w, result)
      PROVE  proc'[w].attempt_count \in Nat \ {0}
  <2>1. proc[w].pc = "handling" /\ proc'[w].attempt_count = proc[w].attempt_count
    BY <1>5 DEF HandlerReturns, TypeOK, Task, Attempt, NoTask
  <2> QED  BY <2>1 DEF Attempted
<1> QED  BY <1>1, <1>2, <1>3, <1>4, <1>5, TaskSteps

\* Every transient failure waits as backoff.go:8 says, in any state of the tables.
THEOREM DelaysAlwaysBackOff == Spec => []DelaysBackOff
<1>1. Init => Attempted  BY DEF Init, Attempted, NoTask
<1>2. TypeOK /\ Attempted /\ [Next]_vars => Attempted'  BY AttemptedNext
<1>3. Attempted => DelaysBackOff
  <2> SUFFICES ASSUME Attempted, NEW w \in Worker, proc[w].pc = "finishing",
                      NEW n \in proc[w].attempt_count - 1 .. MaxRetry
               PROVE  n \in BackingOff
    BY DEF DelaysBackOff
  <2>1. proc[w].attempt_count \in Nat \ {0}  BY DEF Attempted
  <2>2. MaxRetry \in Nat  BY RetryDelaysAssumption DEF RetryDelaysAssumption
  <2>3. n \in 0 .. MaxRetry  BY <2>1, <2>2
  <2> QED  BY <2>3, EveryDelayBacksOff DEF BackingOff
<1> QED  BY <1>1, <1>2, <1>3, TypeCorrect, PTL DEF Spec

-----------------------------------------------------------------------------
(***************************************************************************)
(* The pipeline.                                                           *)
(***************************************************************************)
\* What a loop holds is an entry.
LoopOK == entries \subseteq Entry /\ loop \in [Worker -> Entry \cup { NoEntry }]

\* Entries have contents that were sent, and so does what a loop still holds of one
\* that is acknowledged or forgotten.
SentOK ==
    /\ \A e \in entries : <<e.job_id, e.generation>> \in sent
    /\ \A w \in Worker : loop[w] # NoEntry =>
          <<loop[w].job_id, loop[w].generation>> \in sent

LEMMA HeldEntry ==
    ASSUME LoopOK, NEW w \in Worker, loop[w] # NoEntry
    PROVE  loop[w].job_id \in Job /\ loop[w].generation \in Generations
BY DEF LoopOK, Entry

LEMMA FreeIdsAreEntries ==
    ASSUME NEW j, NEW g
    PROVE  FreeIds(j, g) \subseteq Entry
BY DEF FreeIds

LEMMA OwnedEntry ==
    ASSUME NEW e \in Entry, NEW w \in Worker
    PROVE  [e EXCEPT !.owner = w] \in Entry /\ [e EXCEPT !.owner = w].owner = w
BY DEF Entry

-----------------------------------------------------------------------------
\* Each step is one of JobStore's, or leaves the tables alone.
LEMMA DispatcherSteps ==
    ASSUME NEW d \in Dispatcher, Dispatch(d) \/ DispatchBreaks(d)
    PROVE  Next
<1>1. \/ DispatchSelect(d) \/ DispatchRead(d) \/ DispatchPublish(d)
      \/ DispatchMark(d) \/ DispatchDelete(d) \/ DispatchFail(d)
  BY DEF Dispatch, DispatchBreaks, Publish
<1> QED  BY <1>1 DEF Next

LEMMA ClaimSteps ==
    ASSUME LoopOK, SentOK, NEW w \in Worker, Begin(w) \/ Bury(w) \/ LoseClaim(w)
    PROVE  Next
<1>1. /\ loop[w].job_id \in Job /\ loop[w].generation \in Generations
      /\ <<loop[w].job_id, loop[w].generation>> \in sent
  BY HeldEntry DEF Begin, Bury, LoseClaim, Holds, SentOK
<1> DEFINE j == loop[w].job_id
           g == loop[w].generation
<1>2. Claim(w, j, g) \/ ClaimReplyLost(w, j, g) \/ ClaimExhausted(w, j, g)
  BY DEF Begin, Bury, LoseClaim
<1> HIDE DEF j, g
<1>3. j \in Job /\ g \in Generations /\ <<j, g>> \in sent  BY <1>1 DEF j, g
<1> QED  BY <1>2, <1>3 DEF Next

LEMMA AttemptSteps ==
    ASSUME NEW w \in Worker, Return(w) \/ Settle(w) \/ GiveUp(w)
    PROVE  Next
<1>1. \/ \E result \in {"ok", "transient", "permanent"} : HandlerReturns(w, result)
      \/ \E delay \in Delays : Finish(w, delay)
      \/ Abandon(w)
  BY DEF Return, Settle, GiveUp
<1> QED  BY <1>1 DEF Next

LEMMA AckBreaksSteps ==
    ASSUME LoopOK, SentOK, NEW w \in Worker, AckBreaks(w)
    PROVE  Next
<1>1. CASE \E delay \in Delays : Finish(w, delay)  BY <1>1 DEF Next
<1>2. CASE Holds(w) /\ ClaimExhausted(w, loop[w].job_id, loop[w].generation)
  <2> DEFINE j == loop[w].job_id
             g == loop[w].generation
  <2>1. j \in Job /\ g \in Generations /\ <<j, g>> \in sent
    BY <1>2, HeldEntry DEF Holds, SentOK
  <2>2. ClaimExhausted(w, j, g)  BY <1>2
  <2> HIDE DEF j, g
  <2> QED  BY <2>1, <2>2 DEF Next
<1> QED  BY <1>1, <1>2 DEF AckBreaks

LEMMA HeartSteps == Heart => Next
BY DEF Heart, Next

LEMMA LoopSteps ==
    ASSUME NEW w \in Worker, NEW e,
           Read(w, e) \/ Recover(w, e) \/ Ignore(w) \/ Postpone(w) \/ ClaimBreaks(w)
    PROVE  UNCHANGED vars
BY DEF Read, Recover, Take, Ignore, Postpone, ClaimBreaks, store, vars

LEMMA StoreStep ==
    ASSUME LoopOK, SentOK, [QueueNext]_queueVars
    PROVE  [Next]_vars
<1>1. CASE UNCHANGED queueVars  BY <1>1 DEF queueVars, store, vars
<1>2. CASE \E j \in Job : Submit(j)  BY <1>2 DEF Submit, Next
<1>3. CASE \E d \in Dispatcher : Dispatch(d) \/ DispatchBreaks(d)
  BY <1>3, DispatcherSteps
<1>4. ASSUME NEW w \in Worker,
             \/ \E e \in entries : Read(w, e) \/ Recover(w, e)
             \/ Ignore(w) \/ Postpone(w) \/ Begin(w) \/ Bury(w) \/ LoseClaim(w)
             \/ Return(w) \/ Settle(w) \/ GiveUp(w) \/ ClaimBreaks(w) \/ AckBreaks(w)
      PROVE  [Next]_vars
  BY <1>4, ClaimSteps, AttemptSteps, AckBreaksSteps, LoopSteps
<1>5. CASE Heart  BY <1>5, HeartSteps
<1>6. CASE Forget  BY <1>6 DEF Forget, store, vars
<1>7. CASE Time  BY <1>7 DEF Time, Next
<1> QED  BY <1>1, <1>2, <1>3, <1>4, <1>5, <1>6, <1>7 DEF QueueNext

-----------------------------------------------------------------------------
\* Loops keep holding entries.
LEMMA LoopStep ==
    ASSUME LoopOK, [QueueNext]_queueVars
    PROVE  LoopOK'
<1>1. CASE UNCHANGED <<entries, loop>>  BY <1>1 DEF LoopOK
<1>2. ASSUME NEW w \in Worker, Ack(w) \/ Retain(w)  PROVE LoopOK'
  BY <1>2 DEF LoopOK, Ack, Retain
<1>3. ASSUME NEW w \in Worker, NEW e \in entries, Take(w, e)  PROVE LoopOK'
  BY <1>3, OwnedEntry DEF LoopOK, Take
<1>4. ASSUME NEW d \in Dispatcher, Publish(d)  PROVE LoopOK'
  BY <1>4, FreeIdsAreEntries DEF LoopOK, Publish
<1>5. CASE Forget  BY <1>5 DEF LoopOK, Forget
<1>6. ASSUME NEW d \in Dispatcher, Dispatch(d) \/ DispatchBreaks(d)  PROVE LoopOK'
  BY <1>1, <1>4, <1>6 DEF Dispatch, DispatchBreaks
<1>7. ASSUME NEW w \in Worker,
             \/ \E e \in entries : Read(w, e) \/ Recover(w, e)
             \/ Ignore(w) \/ Postpone(w) \/ Begin(w) \/ Bury(w) \/ LoseClaim(w)
             \/ Return(w) \/ Settle(w) \/ GiveUp(w) \/ ClaimBreaks(w) \/ AckBreaks(w)
      PROVE  LoopOK'
  BY <1>1, <1>2, <1>3, <1>7
  DEF Read, Recover, Ignore, Postpone, Begin, Bury, LoseClaim, Return, Settle, GiveUp,
      ClaimBreaks, AckBreaks
<1>8. CASE (\E j \in Job : Submit(j)) \/ Heart \/ Time
  BY <1>1, <1>8 DEF Submit, Heart, Time
<1>9. CASE UNCHANGED queueVars  BY <1>1, <1>9 DEF queueVars
<1> QED  BY <1>5, <1>6, <1>7, <1>8, <1>9 DEF QueueNext

LEMMA LoopInit == QueueInit => LoopOK /\ SentOK
BY DEF QueueInit, LoopOK, SentOK

-----------------------------------------------------------------------------
\* What loops take and read was sent: only Publish adds entries, when it sends them.
LEMMA SentGrows ==
    ASSUME [Next]_vars
    PROVE  sent \subseteq sent'
<1>1. CASE UNCHANGED sent  BY <1>1
<1>2. ASSUME NEW d \in Dispatcher,
             \/ DispatchSelect(d) \/ DispatchRead(d) \/ DispatchPublish(d)
             \/ DispatchMark(d) \/ DispatchDelete(d) \/ DispatchFail(d)
      PROVE  sent \subseteq sent'
  BY <1>1, <1>2 DEF DispatchSelect, DispatchRead, DispatchPublish, DispatchMark,
                    DispatchDelete, DispatchFail
<1>3. ASSUME NEW w \in Worker, NEW j \in Job, NEW g \in Generations,
             Claim(w, j, g) \/ ClaimReplyLost(w, j, g) \/ ClaimExhausted(w, j, g)
      PROVE  UNCHANGED sent
  BY <1>3 DEF Claim, ClaimReplyLost, ClaimExhausted
<1>4. ASSUME NEW w \in Worker,
             \/ BeatSend(w) \/ Abandon(w)
             \/ \E result \in {"ok", "transient", "permanent"} : HandlerReturns(w, result)
             \/ \E delay \in Delays : Finish(w, delay)
      PROVE  UNCHANGED sent
  BY <1>4 DEF BeatSend, Abandon, HandlerReturns, Finish
<1>5. CASE \E b \in beats : RenewLands(b) \/ RenewFails(b)
  BY <1>1, <1>5 DEF RenewLands, RenewFails
<1>6. CASE \E j \in Job : (\E b \in Budgets : Create(j, b)) \/ Requeue(j)
  BY <1>1, <1>6 DEF Create, Requeue
<1>7. CASE Tick \/ UNCHANGED vars  BY <1>1, <1>7 DEF Tick, vars
<1> QED  BY <1>1, <1>2, <1>3, <1>4, <1>5, <1>6, <1>7 DEF Next

LEMMA SentStep ==
    ASSUME LoopOK, SentOK, [QueueNext]_queueVars
    PROVE  SentOK'
<1>1. sent \subseteq sent'  BY StoreStep, SentGrows
<1>2. ASSUME entries' \subseteq entries,
             \A w \in Worker : loop'[w] = loop[w] \/ loop'[w] = NoEntry
      PROVE  SentOK'
  BY <1>1, <1>2 DEF SentOK
<1>3. CASE UNCHANGED <<entries, loop>>  BY <1>2, <1>3
<1>4. ASSUME NEW w \in Worker, Ack(w) \/ Retain(w)  PROVE SentOK'
  BY <1>2, <1>4 DEF LoopOK, Ack, Retain
<1>5. ASSUME NEW w \in Worker, NEW e \in entries, Take(w, e)  PROVE SentOK'
  <2> DEFINE f == [e EXCEPT !.owner = w]
  <2>1. f.job_id = e.job_id /\ f.generation = e.generation
    BY DEF LoopOK, Entry
  <2>2. loop' = [loop EXCEPT ![w] = f] /\ entries' = (entries \ {e}) \cup {f}
    BY <1>5 DEF Take
  <2> HIDE DEF f
  <2>3. <<f.job_id, f.generation>> \in sent'  BY <1>1, <2>1 DEF SentOK
  <2> QED  BY <1>1, <2>2, <2>3 DEF LoopOK, SentOK
<1>6. ASSUME NEW d \in Dispatcher, Publish(d)  PROVE SentOK'
  <2>1. <<disp[d].job_id, disp[d].generation>> \in sent'
    BY <1>6 DEF Publish, DispatchPublish
  <2>2. loop' = loop  BY <1>6 DEF Publish
  <2>3. ASSUME NEW e \in entries', e \notin entries
        PROVE  <<e.job_id, e.generation>> \in sent'
    <3>1. e \in FreeIds(disp[d].job_id, disp[d].generation)
      BY <1>6, <2>3 DEF Publish
    <3> QED  BY <2>1, <3>1 DEF FreeIds
  <2> QED  BY <1>1, <2>2, <2>3 DEF SentOK
<1>7. CASE Forget  BY <1>2, <1>7 DEF Forget
<1>8. ASSUME NEW d \in Dispatcher, Dispatch(d) \/ DispatchBreaks(d)  PROVE SentOK'
  BY <1>3, <1>6, <1>8 DEF Dispatch, DispatchBreaks
<1>9. ASSUME NEW w \in Worker,
             \/ \E e \in entries : Read(w, e) \/ Recover(w, e)
             \/ Ignore(w) \/ Postpone(w) \/ Begin(w) \/ Bury(w) \/ LoseClaim(w)
             \/ Return(w) \/ Settle(w) \/ GiveUp(w) \/ ClaimBreaks(w) \/ AckBreaks(w)
      PROVE  SentOK'
  BY <1>3, <1>4, <1>5, <1>9
  DEF Read, Recover, Ignore, Postpone, Begin, Bury, LoseClaim, Return, Settle, GiveUp,
      ClaimBreaks, AckBreaks
<1>10. CASE (\E j \in Job : Submit(j)) \/ Heart \/ Time
  BY <1>3, <1>10 DEF Submit, Heart, Time
<1>11. CASE UNCHANGED queueVars  BY <1>3, <1>11 DEF queueVars
<1> QED  BY <1>7, <1>8, <1>9, <1>10, <1>11 DEF QueueNext

-----------------------------------------------------------------------------
\* A worker that executes an attempt executes it for the entry its loop holds.
Bound(w) ==
    /\ loop[w] # NoEntry => loop[w].owner = w
    /\ proc[w].pc # "idle" => /\ loop[w] # NoEntry
                              /\ loop[w].job_id = proc[w].job_id
                              /\ loop[w].generation = proc[w].generation

ProcOK == proc \in [Worker -> Task \cup { NoTask }]

LEMMA TakeBinds ==
    ASSUME LoopOK, NEW v \in Worker, Bound(v), NEW w \in Worker, NEW e \in entries, Take(w, e)
    PROVE  Bound(v)'
<1>1. e \in Entry /\ proc' = proc  BY DEF LoopOK, Take, store
<1>2. CASE v = w  BY <1>1, <1>2, OwnedEntry DEF LoopOK, Take, Bound
<1>3. CASE v # w  BY <1>1, <1>3 DEF LoopOK, Take, Bound
<1> QED  BY <1>2, <1>3

\* An entry is given back by a worker that executes nothing, or nothing any more.
LEMMA GivingBackBinds ==
    ASSUME LoopOK, ProcOK, NEW v \in Worker, Bound(v), NEW w \in Worker,
           loop' = [loop EXCEPT ![w] = NoEntry],
           \/ proc' = proc /\ proc[w].pc = "idle"
           \/ proc' = [proc EXCEPT ![w] = NoTask]
    PROVE  Bound(v)'
<1>1. NoTask.pc = "idle"  BY DEF NoTask
<1>2. CASE v = w  BY <1>1, <1>2 DEF LoopOK, ProcOK, Bound
<1>3. CASE v # w  BY <1>3 DEF LoopOK, ProcOK, Bound
<1> QED  BY <1>2, <1>3

LEMMA BeginBinds ==
    ASSUME ProcOK, NEW v \in Worker, Bound(v), NEW w \in Worker, Begin(w)
    PROVE  Bound(v)'
<1> DEFINE task == [pc |-> "handling", job_id |-> loop[w].job_id,
                    generation |-> loop[w].generation,
                    attempt_count |-> jobs[loop[w].job_id].attempt_count + 1,
                    outcome |-> "none"]
<1>1. /\ loop' = loop /\ loop[w] # NoEntry
      /\ proc' = [proc EXCEPT ![w] = task]
  BY DEF Begin, Holds, Claim
<1>2. task.job_id = loop[w].job_id /\ task.generation = loop[w].generation
  OBVIOUS
<1> HIDE DEF task
<1>3. CASE v = w  BY <1>1, <1>2, <1>3 DEF ProcOK, Bound
<1>4. CASE v # w  BY <1>1, <1>4 DEF ProcOK, Bound
<1> QED  BY <1>3, <1>4

\* What changes the stage of an attempt leaves it an attempt at the same job.
LEMMA StageBinds ==
    ASSUME ProcOK, NEW v \in Worker, Bound(v), NEW w \in Worker, loop' = loop,
           proc[w].pc # "idle",
           proc'[w].job_id = proc[w].job_id, proc'[w].generation = proc[w].generation,
           \A u \in Worker : u # w => proc'[u] = proc[u]
    PROVE  Bound(v)'
<1>1. CASE v = w  BY <1>1 DEF Bound
<1>2. CASE v # w  BY <1>2 DEF Bound
<1> QED  BY <1>1, <1>2

LEMMA ReturnBinds ==
    ASSUME ProcOK, NEW v \in Worker, Bound(v), NEW w \in Worker, Return(w)
    PROVE  Bound(v)'
<1>1. loop' = loop  BY DEF Return
<1>2. PICK result \in {"ok", "transient", "permanent"} : HandlerReturns(w, result)
  BY DEF Return
<1>3. proc[w].pc = "handling"  BY <1>2 DEF HandlerReturns
<1>4. PICK outcome : proc' = [proc EXCEPT ![w].pc = "finishing", ![w].outcome = outcome]
  BY <1>2 DEF HandlerReturns
<1>5. proc[w] \in Task  BY <1>3 DEF ProcOK, NoTask
<1>6. proc'[w].job_id = proc[w].job_id /\ proc'[w].generation = proc[w].generation
  BY <1>4, <1>5 DEF ProcOK, Task, Attempt
<1>7. \A u \in Worker : u # w => proc'[u] = proc[u]  BY <1>4 DEF ProcOK
<1>8. proc[w].pc # "idle"  BY <1>3
<1> QED  BY <1>1, <1>6, <1>7, <1>8, StageBinds

LEMMA HeartBinds ==
    ASSUME ProcOK, beats \subseteq Beat, NEW v \in Worker, Bound(v), Heart
    PROVE  Bound(v)'
<1>1. loop' = loop  BY DEF Heart
<1>2. CASE proc' = proc  BY <1>1, <1>2 DEF Bound
<1>3. ASSUME NEW b \in beats, RenewFails(b), proc' # proc
      PROVE  Bound(v)'
  <2> DEFINE w == b.owner
  <2>1. w \in Worker  BY DEF Beat
  <2>2. proc[w].pc = "handling" /\ proc' = [proc EXCEPT ![w].pc = "lost"]
    BY <1>3 DEF RenewFails
  <2> HIDE DEF w
  <2>3. proc[w] \in Task  BY <2>1, <2>2 DEF ProcOK, NoTask
  <2>4. proc'[w].job_id = proc[w].job_id /\ proc'[w].generation = proc[w].generation
    BY <2>1, <2>2, <2>3 DEF ProcOK, Task, Attempt
  <2>5. \A u \in Worker : u # w => proc'[u] = proc[u]  BY <2>1, <2>2 DEF ProcOK
  <2>6. proc[w].pc # "idle"  BY <2>2
  <2> QED  BY <1>1, <2>1, <2>4, <2>5, <2>6, StageBinds
<1> QED  BY <1>2, <1>3 DEF Heart, BeatSend, RenewLands

LEMMA WorkerBinds ==
    ASSUME LoopOK, ProcOK, NEW v \in Worker, Bound(v), NEW w \in Worker,
           \/ \E e \in entries : Read(w, e) \/ Recover(w, e)
           \/ Ignore(w) \/ Postpone(w) \/ Begin(w) \/ Bury(w) \/ LoseClaim(w)
           \/ Return(w) \/ Settle(w) \/ GiveUp(w) \/ ClaimBreaks(w) \/ AckBreaks(w)
    PROVE  Bound(v)'
<1>1. CASE \E e \in entries : Read(w, e) \/ Recover(w, e)
  BY <1>1, TakeBinds DEF Read, Recover
<1>2. CASE Ignore(w) \/ Postpone(w) \/ ClaimBreaks(w)
  <2>1. loop' = [loop EXCEPT ![w] = NoEntry] /\ proc' = proc /\ proc[w].pc = "idle"
    BY <1>2 DEF Ignore, Postpone, ClaimBreaks, Holds, Ack, Retain, store
  <2> QED  BY <2>1, GivingBackBinds
<1>3. CASE Bury(w) \/ LoseClaim(w)
  <2>1. loop' = [loop EXCEPT ![w] = NoEntry] /\ proc' = proc /\ proc[w].pc = "idle"
    BY <1>3 DEF Bury, LoseClaim, Holds, Ack, Retain, ClaimExhausted, ClaimReplyLost
  <2> QED  BY <2>1, GivingBackBinds
<1>4. CASE Settle(w) \/ GiveUp(w)
  <2>1. loop' = [loop EXCEPT ![w] = NoEntry] /\ proc' = [proc EXCEPT ![w] = NoTask]
    BY <1>4 DEF Settle, GiveUp, Ack, Retain, Finish, Abandon
  <2> QED  BY <2>1, GivingBackBinds
<1>5. CASE AckBreaks(w)
  <2>1. /\ loop' = [loop EXCEPT ![w] = NoEntry]
        /\ \/ proc' = proc /\ proc[w].pc = "idle"
           \/ proc' = [proc EXCEPT ![w] = NoTask]
    BY <1>5 DEF AckBreaks, Retain, Holds, Finish, ClaimExhausted
  <2> QED  BY <2>1, GivingBackBinds
<1> QED  BY <1>1, <1>2, <1>3, <1>4, <1>5, BeginBinds, ReturnBinds

LEMMA BoundStep ==
    ASSUME LoopOK, ProcOK, beats \subseteq Beat, NEW v \in Worker, Bound(v),
           [QueueNext]_queueVars
    PROVE  Bound(v)'
<1>1. CASE UNCHANGED <<loop, proc>>  BY <1>1 DEF Bound
<1>2. CASE Heart  BY <1>2, HeartBinds
<1>3. CASE \E j \in Job : Submit(j)
  BY <1>1, <1>3 DEF Submit, Create, Requeue
<1>4. CASE \E d \in Dispatcher : Dispatch(d) \/ DispatchBreaks(d)
  BY <1>1, <1>4 DEF Dispatch, DispatchBreaks, Publish, DispatchSelect, DispatchRead,
                    DispatchPublish, DispatchMark, DispatchDelete, DispatchFail
<1>5. CASE Forget \/ Time  BY <1>1, <1>5 DEF Forget, Time, Tick, store
<1>6. CASE UNCHANGED queueVars  BY <1>1, <1>6 DEF queueVars, store
<1> QED  BY <1>2, <1>3, <1>4, <1>5, <1>6, WorkerBinds DEF QueueNext

LEMMA FaultsStep ==
    ASSUME ScaleQueueAssumption, faults \in 0 .. MaxFaults, [QueueNext]_queueVars
    PROVE  faults' \in 0 .. MaxFaults
<1>1. CASE faults' = faults  BY <1>1
<1>2. CASE Fault  BY <1>2 DEF Fault, ScaleQueueAssumption
<1>3. CASE (\E j \in Job : Submit(j)) \/ Heart \/ Forget \/ Time
  BY <1>1, <1>2, <1>3 DEF Submit, Heart, Forget, Time
<1>4. CASE \E d \in Dispatcher : Dispatch(d) \/ DispatchBreaks(d)
  BY <1>1, <1>2, <1>4 DEF Dispatch, Publish, DispatchBreaks
<1>5. ASSUME NEW w \in Worker,
             \/ \E e \in entries : Read(w, e) \/ Recover(w, e)
             \/ Ignore(w) \/ Postpone(w) \/ Begin(w) \/ Bury(w) \/ LoseClaim(w)
             \/ Return(w) \/ Settle(w) \/ GiveUp(w) \/ ClaimBreaks(w) \/ AckBreaks(w)
      PROVE  faults' \in 0 .. MaxFaults
  BY <1>1, <1>2, <1>5
  DEF Read, Recover, Take, Ignore, Postpone, Begin, Bury, LoseClaim, Return, Settle,
      GiveUp, ClaimBreaks, AckBreaks
<1>6. CASE UNCHANGED queueVars  BY <1>1, <1>6 DEF queueVars
<1> QED  BY <1>3, <1>4, <1>5, <1>6 DEF QueueNext

-----------------------------------------------------------------------------
\* The bridge over which JobStore's theorems reach the pipeline: its steps are built
\* from JobStore's, and what the loops hold was sent.
LEMMA StoreImplemented == QueueSpec => Spec /\ [](LoopOK /\ SentOK)
<1>1. QueueInit => Init  BY DEF QueueInit
<1>2. LoopOK /\ SentOK /\ [QueueNext]_queueVars => LoopOK' /\ SentOK' /\ [Next]_vars
  BY LoopStep, SentStep, StoreStep
<1> QED  BY <1>1, <1>2, LoopInit, PTL DEF QueueSpec, Spec

QueueInv == LoopOK /\ (\A w \in Worker : Bound(w)) /\ faults \in 0 .. MaxFaults

LEMMA QueueInvariance == QueueSpec => []QueueInv
<1>1. QueueInit => QueueInv
  <2> SUFFICES ASSUME QueueInit  PROVE QueueInv
    OBVIOUS
  <2>1. NoTask.pc = "idle"  BY DEF NoTask
  <2>2. \A w \in Worker : loop[w] = NoEntry /\ proc[w] = NoTask
    BY DEF QueueInit, Init
  <2> QED  BY <2>1, <2>2, LoopInit, ScaleQueueAssumption
           DEF QueueInit, QueueInv, Bound, ScaleQueueAssumption
<1>2. QueueInv /\ TypeOK /\ [QueueNext]_queueVars => QueueInv'
  <2> SUFFICES ASSUME QueueInv, TypeOK, [QueueNext]_queueVars  PROVE QueueInv'
    OBVIOUS
  <2>1. ProcOK /\ beats \subseteq Beat  BY DEF TypeOK, ProcOK
  <2>2. LoopOK'  BY LoopStep DEF QueueInv
  <2>3. \A w \in Worker : Bound(w)'  BY <2>1, BoundStep DEF QueueInv
  <2>4. faults' \in 0 .. MaxFaults  BY FaultsStep, ScaleQueueAssumption DEF QueueInv
  <2> QED  BY <2>2, <2>3, <2>4 DEF QueueInv
<1>3. QueueSpec => []TypeOK  BY StoreImplemented, TypeCorrect, PTL
<1> QED  BY <1>1, <1>2, <1>3, PTL DEF QueueSpec

\* In the pipeline a worker executes only the job and the generation of the entry
\* its loop holds, so that it acknowledges what it has settled.
THEOREM QueueTypeCorrect == QueueSpec => []QueueTypeOK
<1>1. QueueInv => QueueTypeOK  BY DEF QueueInv, QueueTypeOK, LoopOK, Bound
<1> QED  BY <1>1, QueueInvariance, PTL

-----------------------------------------------------------------------------
\* Acknowledgements.
LEMMA SameIdFields ==
    ASSUME NEW e \in Entry, NEW f \in Entry, SameId(e, f)
    PROVE  e.job_id = f.job_id /\ e.generation = f.generation
<1>1. /\ [e EXCEPT !.owner = None].job_id = [f EXCEPT !.owner = None].job_id
      /\ [e EXCEPT !.owner = None].generation = [f EXCEPT !.owner = None].generation
  BY DEF SameId
<1> QED  BY <1>1 DEF Entry

LEMMA TakenIsSame ==
    ASSUME NEW e \in Entry
    PROVE  SameId(e, e) /\ \A w \in Worker : SameId(e, [e EXCEPT !.owner = w])
BY DEF SameId, Entry

Gone(e) == loop' # loop /\ \A f \in entries' : ~SameId(e, f)

\* Only Ack removes an entry in a step of a loop, and only the one the loop holds.
LEMMA AckRemoves ==
    ASSUME LoopOK, NEW w \in Worker, NEW e \in entries, Gone(e), loop[w] # NoEntry,
           Ack(w)
    PROVE  e.job_id = loop[w].job_id /\ e.generation = loop[w].generation
<1>1. SameId(e, loop[w])  BY TakenIsSame DEF LoopOK, Gone, Ack
<1>2. e \in Entry /\ loop[w] \in Entry  BY DEF LoopOK
<1> QED  BY <1>1, <1>2, SameIdFields

LEMMA GoneByAck ==
    ASSUME LoopOK, NEW e \in entries, Gone(e), [QueueNext]_queueVars
    PROVE  \E w \in Worker : Ignore(w) \/ Bury(w) \/ Settle(w)
<1>1. loop' # loop /\ e \notin entries'  BY TakenIsSame DEF LoopOK, Gone
<1>2. ASSUME NEW w \in Worker, NEW d \in entries, Take(w, d)  PROVE FALSE
  <2>1. e = d  BY <1>1, <1>2 DEF Take
  <2> QED  BY <1>2, <2>1, TakenIsSame DEF LoopOK, Take, Gone
<1>3. ASSUME NEW w \in Worker,
             \/ \E d \in entries : Read(w, d) \/ Recover(w, d)
             \/ Ignore(w) \/ Postpone(w) \/ Begin(w) \/ Bury(w) \/ LoseClaim(w)
             \/ Return(w) \/ Settle(w) \/ GiveUp(w) \/ ClaimBreaks(w) \/ AckBreaks(w)
      PROVE  Ignore(w) \/ Bury(w) \/ Settle(w)
  BY <1>1, <1>2, <1>3
  DEF Read, Recover, Postpone, Begin, LoseClaim, Return, GiveUp, ClaimBreaks, AckBreaks,
      Retain
<1>4. CASE (\E j \in Job : Submit(j)) \/ Heart \/ Forget \/ Time \/ UNCHANGED queueVars
  BY <1>1, <1>4 DEF Submit, Heart, Forget, Time, queueVars
<1>5. CASE \E d \in Dispatcher : Dispatch(d) \/ DispatchBreaks(d)
  BY <1>1, <1>5 DEF Dispatch, Publish, DispatchBreaks
<1> QED  BY <1>3, <1>4, <1>5 DEF QueueNext

\* An entry that is ignored is stale, or early and its retry has its own intent: it is
\* not FAILED, as it was sent.
LEMMA IgnoredIsSettled ==
    ASSUME IInv, NEW j \in Job, NEW g \in Generations, <<j, g>> \in sent,
           Ignored(j, g) \/ (~Busy(j) /\ Early(j)), UNCHANGED <<jobs, outbox>>,
           NEW e, e.job_id = j, e.generation = g
    PROVE  Settled(e)'
<1>0. TypeOK /\ JobInv /\ FailedInv /\ RetryIntentOwnsDelivery  BY DEF IInv
<1>1. SUFFICES Settled(e)
  BY DEF Settled, Obsolete
<1>2. CASE Obsolete(j, g)  BY <1>2 DEF Settled
<1>3. CASE jobs[j].status = "ABSENT"
  <2>1. jobs[j].generation = 0 /\ g # 0
    BY <1>0, <1>3, ConstantsAssumption DEF JobInv, Generations
  <2> QED  BY <2>1 DEF Settled, Obsolete
<1>4. CASE ~Obsolete(j, g) /\ jobs[j].status # "ABSENT" /\ Early(j)
  <2>1. jobs[j].generation = g  BY <1>4 DEF Obsolete
  <2>2. jobs[j].status # "FAILED"  BY <1>0 DEF FailedInv
  <2>3. jobs[j].status \in Status  BY <1>0, RowFacts DEF JobRow
  <2>4. Nonterminal(j)  BY <1>4, <2>2, <2>3 DEF Status, Obsolete, Nonterminal, Terminal
  <2>5. PICK r \in outbox : /\ r.job_id = j /\ r.generation = jobs[j].generation
                            /\ r.attempt = jobs[j].attempt_count + 1
                            /\ r.published_at = 0
    BY <1>0, <1>4, <2>4 DEF RetryIntentOwnsDelivery
  <2> QED  BY <2>1, <2>5 DEF Settled
<1> QED  BY <1>2, <1>3, <1>4 DEF Ignored

LEMMA FinishedIsSettled ==
    ASSUME TypeOK, NEW w \in Worker, NEW delay \in Delays, Finish(w, delay),
           NEW e, e.job_id = proc[w].job_id, e.generation = proc[w].generation
    PROVE  Settled(e)'
<1> DEFINE j == proc[w].job_id
<1>1. j \in Job  BY TaskFacts DEF Finish
<1>2. /\ jobs'[j].status = proc[w].outcome /\ proc[w].outcome \in Outcome
      /\ jobs'[j].generation = jobs[j].generation
      /\ jobs'[j].attempt_count = jobs[j].attempt_count
      /\ jobs[j].generation = e.generation
  BY <1>1, FinishUpdates
<1>3. CASE proc[w].outcome \in Terminal  BY <1>2, <1>3 DEF Settled, Obsolete
<1>4. CASE proc[w].outcome = "PENDING"
  <2>1. PICK r \in outbox' : r = Intent(nextId, j, jobs[j].generation,
                                        jobs[j].attempt_count + 1, delay)
    BY <1>4 DEF Finish, InsertIntent
  <2>2. /\ r.job_id = j /\ r.generation = jobs[j].generation
        /\ r.attempt = jobs[j].attempt_count + 1 /\ r.published_at = 0
    BY <2>1 DEF Intent
  <2> QED  BY <1>2, <2>1, <2>2 DEF Settled
<1> QED  BY <1>2, <1>3, <1>4 DEF Outcome, Terminal

LEMMA AckSettles ==
    ASSUME QueueInv, SentOK, IInv, [QueueNext]_queueVars, NEW e \in entries, Gone(e)
    PROVE  Settled(e)'
<1>0. LoopOK /\ TypeOK  BY DEF QueueInv, IInv
<1>1. PICK w \in Worker : Ignore(w) \/ Bury(w) \/ Settle(w)  BY <1>0, GoneByAck
<1> DEFINE j == loop[w].job_id
           g == loop[w].generation
<1>2. loop[w] # NoEntry  BY <1>1 DEF Ignore, Bury, Settle, Holds, Finish, QueueInv, Bound
<1>3. j \in Job /\ g \in Generations /\ <<j, g>> \in sent
  BY <1>0, <1>2, HeldEntry DEF SentOK
<1>4. e.job_id = j /\ e.generation = g
  BY <1>0, <1>1, <1>2, AckRemoves DEF Ignore, Bury, Settle
<1>5. CASE Ignore(w)
  <2>1. Ignored(j, g) \/ (~Busy(j) /\ Early(j))  BY <1>5 DEF Ignore
  <2>2. UNCHANGED <<jobs, outbox>>  BY <1>5 DEF Ignore, store
  <2> HIDE DEF j, g
  <2> QED  BY <1>3, <1>4, <2>1, <2>2, IgnoredIsSettled
<1>6. CASE Bury(w)
  <2>1. ClaimExhausted(w, j, g)  BY <1>6 DEF Bury
  <2> HIDE DEF j, g
  <2>2. jobs'[j].status = "DEAD"  BY <1>0, <1>3, <2>1, BuryUpdates
  <2> QED  BY <1>4, <2>2 DEF Settled, Obsolete, Terminal
<1>7. CASE Settle(w)
  <2>1. PICK delay \in Delays : Finish(w, delay)  BY <1>7 DEF Settle
  <2>2. proc[w].pc # "idle"  BY <2>1 DEF Finish
  <2>3. j = proc[w].job_id /\ g = proc[w].generation  BY <2>2 DEF QueueInv, Bound
  <2> HIDE DEF j, g
  <2> QED  BY <1>0, <1>4, <2>1, <2>3, FinishedIsSettled
<1> QED  BY <1>1, <1>5, <1>6, <1>7

\* An entry is acknowledged only when its work is settled, whoever holds it, for any
\* number of jobs, workers, dispatchers, generations, copies and failures: the loops
\* see nothing of each other, and the tables alone make the decision safe.
THEOREM AcknowledgementsAreSafe == QueueSpec => AcknowledgedIsSettled
<1> DEFINE Safe == \A e \in entries : Gone(e) => Settled(e)'
<1>1. QueueInv /\ SentOK /\ IInv /\ [QueueNext]_queueVars => [Safe]_queueVars
  BY AckSettles
<1>2. QueueSpec => [](QueueInv /\ SentOK /\ IInv)
  BY QueueInvariance, StoreImplemented, Invariance, PTL
<1>3. [Safe]_queueVars =>
        [\A e \in entries : loop' # loop /\ (\A f \in entries' : ~SameId(e, f))
            => Settled(e)']_queueVars
  BY DEF Gone
<1> QED  BY <1>1, <1>2, <1>3, PTL DEF QueueSpec, AcknowledgedIsSettled

\* In the pipeline no accepted work loses its intent.
THEOREM PipelineIntentsAreDurable == QueueSpec => []DurableIntent
BY StoreImplemented, IntentsAreDurable, PTL

\* In the pipeline no generation of a job is executed more often than its budget
\* allows, however entries are duplicated, taken over and handled again.
THEOREM PipelineRespectsBudget == QueueSpec => []BudgetRespected
BY StoreImplemented, BudgetIsRespected, PTL

\* In the pipeline only the worker whose lease lives decides a job, whoever else has
\* been given its delivery meanwhile.
THEOREM PipelineLeaseHolderDecides == QueueSpec => LeaseHolderDecides
BY StoreImplemented, LeaseHolderDecidesIt, PTL

\* In the pipeline no entry that is read again, late or twice, changes a finished job.
THEOREM PipelineTerminalIsFinal == QueueSpec => TerminalUntilReplay
BY StoreImplemented, TerminalIsFinal, PTL

\* What the service promises about a job, the whole pipeline keeps.
THEOREM PipelineImplementsLifecycle == QueueSpec => ImplementsLifecycle
BY StoreImplemented, Refinement, PTL

=============================================================================
