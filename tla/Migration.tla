------------------------------ MODULE Migration ------------------------------
(***************************************************************************)
(* The schema migrations, run by db-migrate while API and workers are      *)
(* stopped: each is a few SQL statements, MySQL commits each of them by    *)
(* itself, and a run may break off between any two.  A migration is        *)
(* recorded as applied, or as not applied, after its last statement.       *)
(*                                                                         *)
(* Jobs accepted by the release before carry their used budget in          *)
(* retry_count alone: the failed attempts, without the one that is being   *)
(* executed.  Between runs the new release may execute jobs, which is      *)
(* abstracted to what it does to retry_count and attempt_count.            *)
(***************************************************************************)
EXTENDS Naturals, Sequences, FiniteSets

CONSTANTS
    Job,       \* job ids
    Budget,    \* max_retries of every job
    None,      \* SQL's NULL
    MaxWork,   \* bound on the steps of the new release
    MaxDowns   \* bound on rollbacks

ASSUME MigrationAssumption ==
    /\ IsFiniteSet(Job) /\ None \notin Job
    /\ Budget \in Nat /\ MaxWork \in Nat /\ MaxDowns \in Nat

VARIABLES
    tables,   \* the tables there are
    durable,  \* table jobs has the columns of durable delivery
    jobs,     \* table jobs: status, retry_count and attempt_count
    outbox,   \* table job_outbox: <<job_id, attempt>>
    applied,  \* how many migrations db-migrate has recorded
    run,      \* the statements that the running migration has not executed yet
    used,     \* history: the attempts each job has really used
    dropped,  \* history: what attempt_count was when it was dropped last
    work,     \* steps of the new release so far
    downs     \* rollbacks begun so far

vars == <<tables, durable, jobs, outbox, applied, run, used, dropped, work, downs>>

Idle == [direction |-> "none", todo |-> <<>>]

Row(status, retries, attempts) ==
    [status |-> status, retry_count |-> retries, attempt_count |-> attempts]

Absent == Row("ABSENT", 0, 0)

\* What the release before may have left.
Legacy ==
    { Absent } \cup [status: {"PENDING", "PROCESSING", "FAILED", "DEAD"},
                     retry_count: 0 .. Budget, attempt_count: {0}]

UsedBy(row) == row.retry_count + (IF row.status = "PROCESSING" THEN 1 ELSE 0)

Init ==
    /\ \/ applied = 0 /\ tables = {} /\ jobs = [j \in Job |-> Absent]
       \/ applied = 3 /\ tables = {"jobs", "audit", "clients"} /\ jobs \in [Job -> Legacy]
    /\ durable = FALSE
    /\ outbox = {}
    /\ run = Idle
    /\ used = [j \in Job |-> UsedBy(jobs[j])]
    /\ dropped = [j \in Job |-> 0]
    /\ work = 0 /\ downs = 0

Nonterminal(j) == jobs[j].status \in {"PENDING", "PROCESSING"}

-----------------------------------------------------------------------------
(***************************************************************************)
(* The statements of each migration.                                       *)
(***************************************************************************)
JobsTable(direction) == IF direction = "up" THEN <<"create_jobs">> ELSE <<"drop_jobs">>
AuditTable(direction) == IF direction = "up" THEN <<"create_audit">> ELSE <<"drop_audit">>
ClientsTable(direction) == IF direction = "up" THEN <<"create_clients">> ELSE <<"drop_clients">>

\* Bug variant: interrupted jobs become PENDING before their attempts are counted.
DurableDeliverySwapped(direction) ==
    IF direction = "up"
    THEN <<"add_columns", "create_outbox", "make_pending", "count_attempts", "add_intents">>
    ELSE <<"drop_outbox", "drop_columns">>

DurableDelivery(direction) ==
    IF direction = "up"
    THEN <<"add_columns", "create_outbox", "count_attempts", "add_intents", "make_pending">>
    ELSE <<"drop_outbox", "drop_columns">>

Statements(migration, direction) ==
    CASE migration = 1 -> JobsTable(direction)
      [] migration = 2 -> AuditTable(direction)
      [] migration = 3 -> ClientsTable(direction)
      [] migration = 4 -> DurableDelivery(direction)

-----------------------------------------------------------------------------
(***************************************************************************)
(* What the statements do, each a transaction of its own.                  *)
(***************************************************************************)
Create(table) ==
    /\ table \notin tables
    /\ table # "clients" /\ table # "jobs" => "jobs" \in tables
    /\ tables' = tables \cup { table }
    /\ UNCHANGED <<durable, jobs, outbox, dropped>>

\* DROP TABLE IF EXISTS, but for the outbox, which must be there.  A table that
\* another one references cannot be dropped.
Drop(table) ==
    /\ table = "outbox" => table \in tables
    /\ table = "jobs" => tables \cap {"audit", "outbox"} = {}
    /\ tables' = tables \ { table }
    /\ durable' = (durable /\ table # "jobs")
    /\ jobs' = IF table = "jobs" THEN [j \in Job |-> Absent] ELSE jobs
    /\ outbox' = IF table = "outbox" THEN {} ELSE outbox
    /\ UNCHANGED dropped

\* ALTER TABLE jobs ADD COLUMN ...: fails if they are there.
AddColumns ==
    /\ "jobs" \in tables /\ ~durable
    /\ durable' = TRUE
    /\ UNCHANGED <<tables, jobs, outbox, dropped>>

DropColumns ==
    /\ durable
    /\ durable' = FALSE
    /\ dropped' = [j \in Job |-> jobs[j].attempt_count]
    /\ jobs' = [j \in Job |-> [jobs[j] EXCEPT !.attempt_count = 0]]
    /\ UNCHANGED <<tables, outbox>>

\* UPDATE jobs SET attempt_count=retry_count+IF(status='PROCESSING',1,0).
CountAttempts ==
    /\ jobs' = [j \in Job |-> IF Nonterminal(j)
                              THEN [jobs[j] EXCEPT !.attempt_count = UsedBy(jobs[j])]
                              ELSE jobs[j]]
    /\ UNCHANGED <<tables, durable, outbox, dropped>>

\* Bug variant: terminal jobs become dispatchable, too.
AddIntentsOfAll ==
    /\ outbox' = outbox \cup { <<j, jobs[j].attempt_count + 1>> : j \in Job }
    /\ UNCHANGED <<tables, durable, jobs, dropped>>

\* INSERT INTO job_outbox ... SELECT.
AddIntents ==
    /\ outbox' = outbox \cup { <<j, jobs[j].attempt_count + 1>> : j \in { i \in Job : Nonterminal(i) } }
    /\ UNCHANGED <<tables, durable, jobs, dropped>>

\* UPDATE jobs SET status='PENDING' WHERE status='PROCESSING'.
MakePending ==
    /\ jobs' = [j \in Job |-> IF jobs[j].status = "PROCESSING"
                              THEN [jobs[j] EXCEPT !.status = "PENDING"] ELSE jobs[j]]
    /\ UNCHANGED <<tables, durable, outbox, dropped>>

Execute(statement) ==
    \/ statement = "create_jobs" /\ Create("jobs")
    \/ statement = "create_audit" /\ Create("audit")
    \/ statement = "create_clients" /\ Create("clients")
    \/ statement = "create_outbox" /\ Create("outbox")
    \/ statement = "drop_jobs" /\ Drop("jobs")
    \/ statement = "drop_audit" /\ Drop("audit")
    \/ statement = "drop_clients" /\ Drop("clients")
    \/ statement = "drop_outbox" /\ Drop("outbox")
    \/ statement = "add_columns" /\ AddColumns
    \/ statement = "drop_columns" /\ DropColumns
    \/ statement = "count_attempts" /\ CountAttempts
    \/ statement = "add_intents" /\ AddIntents
    \/ statement = "make_pending" /\ MakePending

-----------------------------------------------------------------------------
(***************************************************************************)
(* db-migrate.                                                             *)
(***************************************************************************)
\* up: the first migration that is not recorded, and after it the next.
Up ==
    /\ run = Idle /\ applied < 4
    /\ run' = [direction |-> "up", todo |-> Statements(applied + 1, "up")]
    /\ UNCHANGED <<tables, durable, jobs, outbox, applied, used, dropped, work, downs>>

\* down: the last migration that is recorded.
Down ==
    /\ run = Idle /\ applied > 0 /\ downs < MaxDowns
    /\ run' = [direction |-> "down", todo |-> Statements(applied, "down")]
    /\ downs' = downs + 1
    /\ UNCHANGED <<tables, durable, jobs, outbox, applied, used, dropped, work>>

RunStatement ==
    /\ run.todo # <<>>
    /\ Execute(Head(run.todo))
    /\ run' = [run EXCEPT !.todo = Tail(@)]
    /\ UNCHANGED <<applied, used, work, downs>>

\* The migration is recorded; the run goes on with the next, or is over.
Record ==
    /\ run # Idle /\ run.todo = <<>>
    /\ applied' = IF run.direction = "up" THEN applied + 1 ELSE applied - 1
    /\ run' = IF run.direction = "up" /\ applied' < 4
              THEN [run EXCEPT !.todo = Statements(applied' + 1, "up")] ELSE Idle
    /\ UNCHANGED <<tables, durable, jobs, outbox, used, dropped, work, downs>>

\* The file cannot be read, a statement fails, or the run breaks off.
Abort ==
    /\ run # Idle
    /\ run' = Idle
    /\ UNCHANGED <<tables, durable, jobs, outbox, applied, used, dropped, work, downs>>

-----------------------------------------------------------------------------
(***************************************************************************)
(* The new release between two runs (JobStore has the whole of it).        *)
(***************************************************************************)
Works(j) ==
    /\ run = Idle /\ applied = 4 /\ "outbox" \in tables
    /\ work < MaxWork /\ work' = work + 1
    /\ UNCHANGED <<tables, durable, applied, run, dropped, downs>>

\* Bug variant: only attempt_count is kept from here on.
ClaimKeepingRetries(j) ==
    /\ Works(j)
    /\ Nonterminal(j)
    /\ jobs[j].attempt_count <= Budget
    /\ jobs' = [jobs EXCEPT ![j] = Row("PROCESSING", @.retry_count, @.attempt_count + 1)]
    /\ used' = [used EXCEPT ![j] = @ + 1]
    /\ UNCHANGED outbox

\* Claim: retry_count is the zero-based index of the attempt.
Claim(j) ==
    /\ Works(j)
    /\ Nonterminal(j)
    /\ jobs[j].attempt_count <= Budget
    /\ jobs' = [jobs EXCEPT ![j] = Row("PROCESSING", @.attempt_count, @.attempt_count + 1)]
    /\ used' = [used EXCEPT ![j] = @ + 1]
    /\ UNCHANGED outbox

\* Finish: a retry with its intent, or the end.
Finish(j) ==
    /\ Works(j)
    /\ jobs[j].status = "PROCESSING"
    /\ \/ /\ jobs[j].attempt_count <= Budget
          /\ jobs' = [jobs EXCEPT ![j].status = "PENDING"]
          /\ outbox' = outbox \cup { <<j, jobs[j].attempt_count + 1>> }
       \/ jobs' = [jobs EXCEPT ![j].status = "DEAD"] /\ UNCHANGED outbox
    /\ UNCHANGED used

-----------------------------------------------------------------------------
Next ==
    \/ Up \/ Down \/ RunStatement \/ Record \/ Abort
    \/ \E j \in Job : Claim(j) \/ Finish(j)

Spec == Init /\ [][Next]_vars

-----------------------------------------------------------------------------
Upgraded == applied = 4 /\ run = Idle

\* "The migration preserves consumed retry budgets": once it is recorded, every job
\* that goes on has used what it had used, the interrupted attempt included, and
\* from then on as well.  Runs may break off before; one that breaks off within
\* this migration is never recorded, since its columns are there when it is
\* repeated.
UpgradeKeepsBudget ==
    Upgraded /\ downs = 0 =>
        \A j \in Job : Nonterminal(j) => jobs[j].attempt_count = used[j]

\* A rollback is "not a lossless" recovery, but bounded: down and up again gives a job
\* at most one attempt more than it had left before, and never takes one away.
RollbackCostsOneAttempt ==
    [][Record /\ applied' = 4 /\ downs > 0
         => \A j \in Job : Nonterminal(j) /\ dropped[j] > 0 =>
                jobs[j].attempt_count \in { dropped[j], dropped[j] - 1 }]_vars

(***************************************************************************)
(* The tables as JobStore sees them when the system starts.                *)
(***************************************************************************)
Number == CHOOSE f \in [Job -> 1 .. Cardinality(Job)] : \A i, j \in Job : i # j => f[i] # f[j]

StoreJobs ==
    [j \in Job |->
        [status |-> jobs[j].status,
         generation |-> IF jobs[j].status = "ABSENT" THEN 0 ELSE 1,
         attempt_count |-> jobs[j].attempt_count,
         max_retries |-> IF jobs[j].status = "ABSENT" THEN 0 ELSE Budget,
         next_attempt_at |-> 0, lease_owner |-> None, lease_until |-> 0]]

StoreOutbox ==
    { [id |-> Number[r[1]], job_id |-> r[1], generation |-> 1, attempt |-> r[2],
       available_at |-> 0, published_at |-> 0] : r \in outbox }

\* Redis may still have entries of jobs that an earlier period dispatched, at most
\* one content of each: replays between two runs are not modelled.
StoreSent == { j \in Job : jobs[j].status \in {"PENDING", "DEAD"} } \X {1}

StoreAudit == [j \in Job |-> [from_status |-> "ABSENT", to_status |-> jobs[j].status]]

Nothing == [n \in {} |-> None]

Store == INSTANCE JobStore WITH
    Worker <- {}, Dispatcher <- {}, Budgets <- { Budget }, Delays <- {},
    LeaseTime <- 1, RepublishAfter <- 1, MaxGeneration <- 1,
    jobs <- StoreJobs, outbox <- StoreOutbox, nextId <- Cardinality(Job) + 1,
    audit <- StoreAudit, disp <- Nothing, sent <- StoreSent, proc <- Nothing, beats <- {},
    starts <- [j \in Job |-> [g \in {1} |-> 0]], succeeded <- {}

\* What a completed upgrade leaves is a state JobStore starts in: interrupted jobs
\* are PENDING, every job that goes on has exactly one intent, of its next
\* attempt, and nothing is left of an earlier schema or an earlier run.
UpgradeStartsJobStore == [][Record /\ applied' = 4 => Store!Init']_vars

=============================================================================
