------------------------------ MODULE JobStore ------------------------------
(***************************************************************************)
(* The durable state machine of a job: the tables jobs, job_outbox and     *)
(* job_audit_logs, and everything that writes them, namely the API's       *)
(* createJob and requeueJob, the workers' Claim, Renew and Finish, and the *)
(* outbox dispatcher.                                                      *)
(*                                                                         *)
(* One action is one database transaction (each takes the row lock of its  *)
(* job before it reads what it decides on), except for Dispatch, whose     *)
(* transaction publishes to Redis between its read and its commit and is   *)
(* four actions.  Redis is a set of deliveries ever published: any worker  *)
(* may be handed any of them at any time, any number of times, which is    *)
(* what at-least-once delivery, duplication, reordering and recovery from  *)
(* the pending list amount to for the database.                            *)
(*                                                                         *)
(* Time is kept as countdowns.  A timestamp column holds the time left     *)
(* until it; 0 stands for a moment that has been reached and for NULL.     *)
(* lease_until>NOW(6) is therefore lease_until > 0.                        *)
(***************************************************************************)
EXTENDS Naturals, FiniteSets

CONSTANTS
    Job,            \* job ids
    Worker,         \* worker ids: lease owners and consumer names
    Dispatcher,     \* outbox dispatchers, one per worker process
    Budgets,        \* the values max_retries may have
    Delays,         \* the values retry.ExponentialDelay may return
    LeaseTime,      \* Store.Lease
    RepublishAfter, \* the 30 seconds of Dispatch
    MaxGeneration,  \* bound on replays: requeueJob stops at this generation
    None            \* SQL's NULL where a worker or a job id is expected

ASSUME ConstantsAssumption ==
    /\ IsFiniteSet(Job)
    /\ Budgets \subseteq Nat
    /\ Delays \subseteq Nat
    /\ LeaseTime \in Nat \ {0}
    /\ RepublishAfter \in Nat \ {0}
    /\ MaxGeneration \in Nat \ {0}
    /\ None \notin Worker
    /\ None \notin Job

VARIABLES
    jobs,      \* table jobs, by id; ABSENT where there is no row yet
    outbox,    \* table job_outbox, a set of rows
    nextId,    \* the AUTO_INCREMENT counter of job_outbox
    audit,     \* the latest row of job_audit_logs of each job
    disp,      \* what each dispatcher's open transaction has selected
    sent,      \* the <<job_id, generation>> pairs ever added to the stream
    proc,      \* the attempt each worker's ProcessJob is executing
    beats,     \* Renew statements sent and not yet executed
    starts,    \* history: executions begun, by job and generation
    succeeded  \* history: <<job_id, generation>> whose handler returned nil

vars == <<jobs, outbox, nextId, audit, disp, sent, proc, beats, starts, succeeded>>

Terminal == {"COMPLETED", "DEAD"}
Status == {"ABSENT", "PENDING", "PROCESSING", "FAILED"} \cup Terminal
Outcome == {"COMPLETED", "PENDING", "DEAD"}
Generations == 1 .. MaxGeneration

JobRow == [status: Status, generation: Nat, attempt_count: Nat,
           max_retries: Nat, next_attempt_at: Nat,
           lease_owner: Worker \cup {None}, lease_until: Nat]

OutboxRow == [id: Nat, job_id: Job, generation: Nat, attempt: Nat,
              available_at: Nat, published_at: Nat]

AuditRow == [from_status: Status, to_status: Status]

Transaction == [pc: {"read", "delete", "publish", "mark"},
                id: Nat, job_id: Job, generation: Nat]

Attempt(pcs, outcomes) ==
    [pc: pcs, job_id: Job, generation: Nat, attempt_count: Nat, outcome: outcomes]

Task == Attempt({"handling", "lost"}, {"none"}) \cup Attempt({"finishing"}, Outcome)

Beat == [owner: Worker, job_id: Job, generation: Nat, attempt_count: Nat]

NoTransaction == [pc |-> "idle", id |-> 0, job_id |-> None, generation |-> 0]
NoTask == [pc |-> "idle", job_id |-> None, generation |-> 0,
           attempt_count |-> 0, outcome |-> "none"]

\* Bug variant: a retry's intent is available at once, not when its wait ends.
IntentAtOnce(id, j, generation, attempt, available) ==
    [id |-> id, job_id |-> j, generation |-> generation, attempt |-> attempt,
     available_at |-> 0, published_at |-> 0]

Intent(id, j, generation, attempt, available) ==
    [id |-> id, job_id |-> j, generation |-> generation, attempt |-> attempt,
     available_at |-> available, published_at |-> 0]

(***************************************************************************)
(* Rows a transaction finds when the system starts: none, or those the     *)
(* durable-delivery migration leaves of jobs accepted before it.  A job    *)
(* that was PENDING or PROCESSING is PENDING with the attempts it has used *)
(* and one outbox row; a FAILED or DEAD one has no outbox row.  After a    *)
(* rollback Redis may still have entries of jobs that were dispatched      *)
(* before it; nothing was ever dispatched for a FAILED one.                *)
(***************************************************************************)
Fresh(status, generation, attempts, budget) ==
    [status |-> status, generation |-> generation, attempt_count |-> attempts,
     max_retries |-> budget, next_attempt_at |-> 0,
     lease_owner |-> None, lease_until |-> 0]

Migrated(status, b) ==
    CASE status = "ABSENT"  -> { Fresh("ABSENT", 0, 0, 0) }
      [] status = "PENDING" -> { Fresh("PENDING", 1, n, b) : n \in 0 .. b + 1 }
      [] OTHER              -> { Fresh(status, 1, 0, b) }

StartingRows ==
    UNION { Migrated(s, b) : s \in {"ABSENT", "PENDING", "FAILED", "DEAD"}, b \in Budgets }

Init ==
    /\ jobs \in [Job -> StartingRows]
    /\ nextId = Cardinality(Job) + 1
    /\ \E number \in [Job -> 1 .. Cardinality(Job)] :
          /\ \A i, j \in Job : i # j => number[i] # number[j]
          /\ outbox = { Intent(number[j], j, 1, jobs[j].attempt_count + 1, 0) :
                          j \in { i \in Job : jobs[i].status = "PENDING" } }
    /\ audit = [j \in Job |-> [from_status |-> "ABSENT", to_status |-> jobs[j].status]]
    /\ disp = [d \in Dispatcher |-> NoTransaction]
    /\ sent \in SUBSET ({ j \in Job : jobs[j].status \in {"PENDING", "DEAD"} } \X {1})
    /\ proc = [w \in Worker |-> NoTask]
    /\ beats = {}
    /\ starts = [j \in Job |-> [g \in Generations |-> 0]]
    /\ succeeded = {}

-----------------------------------------------------------------------------
(***************************************************************************)
(* Pieces the transactions share.                                          *)
(***************************************************************************)
\* The UNIQUE KEY dispatch_identity (job_id, generation, attempt).
KeyFree(j, generation, attempt) ==
    \A r \in outbox : <<r.job_id, r.generation, r.attempt>> # <<j, generation, attempt>>

\* INSERT INTO job_outbox; a taken key fails the whole transaction.
InsertIntent(j, generation, attempt, available) ==
    /\ KeyFree(j, generation, attempt)
    /\ outbox' = outbox \cup { Intent(nextId, j, generation, attempt, available) }
    /\ nextId' = nextId + 1

\* Bug variant: Claim logs PENDING -> PROCESSING for a takeover too.
LogClaimFromPending(j, from, to) ==
    audit' = [audit EXCEPT ![j] =
        [from_status |-> IF to = "PROCESSING" THEN "PENDING" ELSE from, to_status |-> to]]

\* INSERT INTO job_audit_logs.
Log(j, from, to) ==
    audit' = [audit EXCEPT ![j] = [from_status |-> from, to_status |-> to]]

UpdateJob(j, row) == jobs' = [jobs EXCEPT ![j] = row]

-----------------------------------------------------------------------------
(***************************************************************************)
(* The API.                                                                *)
(***************************************************************************)
\* createJob: the job, its audit row and its first dispatch intent.
Create(j, budget) ==
    /\ jobs[j].status = "ABSENT"
    /\ UpdateJob(j, Fresh("PENDING", 1, 0, budget))
    /\ Log(j, "ABSENT", "PENDING")
    /\ InsertIntent(j, 1, 1, 0)
    /\ UNCHANGED <<disp, sent, proc, beats, starts, succeeded>>

\* requeueJob: the next generation, with a fresh budget and its own intent.
Requeue(j) ==
    /\ jobs[j].status \in {"DEAD", "FAILED"}
    /\ jobs[j].generation < MaxGeneration
    /\ UpdateJob(j, Fresh("PENDING", jobs[j].generation + 1, 0, jobs[j].max_retries))
    /\ Log(j, jobs[j].status, "PENDING")
    /\ InsertIntent(j, jobs[j].generation + 1, 1, 0)
    /\ UNCHANGED <<disp, sent, proc, beats, starts, succeeded>>

-----------------------------------------------------------------------------
(***************************************************************************)
(* Dispatch.  The selected row stays locked from DispatchSelect until the  *)
(* transaction ends; SKIP LOCKED keeps other dispatchers off it.  The job  *)
(* row is read without a lock, so it may change before the commit.         *)
(***************************************************************************)
Locked(r) == \E d \in Dispatcher : disp[d].pc # "idle" /\ disp[d].id = r.id

Due(r) == r.available_at = 0 /\ r.published_at = 0 /\ ~Locked(r)

\* Bug variant: an intent is dropped as soon as its job is being executed.
ObsoleteOnceClaimed(j, generation) ==
    jobs[j].generation # generation \/ jobs[j].status \in Terminal \cup {"PROCESSING"}

\* Bug variant: DEAD is not taken for terminal.
ObsoleteUnlessDead(j, generation) ==
    jobs[j].generation # generation \/ jobs[j].status = "COMPLETED"

Obsolete(j, generation) ==
    jobs[j].generation # generation \/ jobs[j].status \in Terminal

DispatchSelect(d) ==
    /\ disp[d].pc = "idle"
    /\ \E r \in outbox :
          /\ Due(r)
          /\ \A q \in outbox : Due(q) => r.id <= q.id
          /\ disp' = [disp EXCEPT ![d] = [pc |-> "read", id |-> r.id,
                         job_id |-> r.job_id, generation |-> r.generation]]
    /\ UNCHANGED <<jobs, outbox, nextId, audit, sent, proc, beats, starts, succeeded>>

\* Bug variant: the row is marked before the XADD.
DispatchReadThenMark(d) ==
    /\ disp[d].pc = "read"
    /\ disp' = [disp EXCEPT ![d].pc =
                  IF Obsolete(disp[d].job_id, disp[d].generation)
                  THEN "delete" ELSE "mark"]
    /\ UNCHANGED <<jobs, outbox, nextId, audit, sent, proc, beats, starts, succeeded>>

DispatchRead(d) ==
    /\ disp[d].pc = "read"
    /\ disp' = [disp EXCEPT ![d].pc =
                  IF Obsolete(disp[d].job_id, disp[d].generation)
                  THEN "delete" ELSE "publish"]
    /\ UNCHANGED <<jobs, outbox, nextId, audit, sent, proc, beats, starts, succeeded>>

\* publish: the XADD, visible to consumers before the transaction commits.
DispatchPublish(d) ==
    /\ disp[d].pc = "publish"
    /\ sent' = sent \cup { <<disp[d].job_id, disp[d].generation>> }
    /\ disp' = [disp EXCEPT ![d].pc = "mark"]
    /\ UNCHANGED <<jobs, outbox, nextId, audit, proc, beats, starts, succeeded>>

DispatchMark(d) ==
    /\ disp[d].pc = "mark"
    /\ outbox' = { IF r.id = disp[d].id
                   THEN [r EXCEPT !.published_at = RepublishAfter]
                   ELSE r : r \in outbox }
    /\ disp' = [disp EXCEPT ![d] = NoTransaction]
    /\ UNCHANGED <<jobs, nextId, audit, sent, proc, beats, starts, succeeded>>

DispatchDelete(d) ==
    /\ disp[d].pc = "delete"
    /\ outbox' = { r \in outbox : r.id # disp[d].id }
    /\ disp' = [disp EXCEPT ![d] = NoTransaction]
    /\ UNCHANGED <<jobs, nextId, audit, sent, proc, beats, starts, succeeded>>

\* A database or Redis error, the 5 s timeout or a crash: rollback.
DispatchFail(d) ==
    /\ disp[d].pc # "idle"
    /\ disp' = [disp EXCEPT ![d] = NoTransaction]
    /\ UNCHANGED <<jobs, outbox, nextId, audit, sent, proc, beats, starts, succeeded>>

-----------------------------------------------------------------------------
(***************************************************************************)
(* Claim.  A delivery that is ignored (stale, finished or early) or busy   *)
(* changes no table, so only the two outcomes that do are actions.         *)
(***************************************************************************)
Ignored(j, generation) == Obsolete(j, generation) \/ jobs[j].status = "ABSENT"
\* Bug variant: a lease is taken over one unit before it expires.
BusyTooShort(j) == jobs[j].status = "PROCESSING" /\ jobs[j].lease_until > 1

Busy(j) == jobs[j].status = "PROCESSING" /\ jobs[j].lease_until > 0
Early(j) == jobs[j].next_attempt_at > 0
\* Bug variant: one attempt too many.
ExhaustedTooLate(j) == jobs[j].attempt_count > jobs[j].max_retries + 1

Exhausted(j) == jobs[j].attempt_count >= jobs[j].max_retries + 1

Claimable(j, generation) == ~Ignored(j, generation) /\ ~Busy(j) /\ ~Early(j)

\* Bug variant: the attempt is not counted when it is claimed.
LeasedUncounted(j, w) ==
    [jobs[j] EXCEPT !.status = "PROCESSING", !.lease_owner = w, !.lease_until = LeaseTime]

\* The row a committed claim leaves: one more attempt, leased to w.
Leased(j, w) ==
    [jobs[j] EXCEPT !.status = "PROCESSING",
                    !.attempt_count = jobs[j].attempt_count + 1,
                    !.lease_owner = w,
                    !.lease_until = LeaseTime]

ClaimCommits(w, j, generation) ==
    /\ proc[w].pc = "idle"
    /\ Claimable(j, generation)
    /\ ~Exhausted(j)
    /\ UpdateJob(j, Leased(j, w))
    /\ Log(j, jobs[j].status, "PROCESSING")

\* Claim returns the job and ProcessJob starts its heartbeat and handler.
Claim(w, j, generation) ==
    /\ ClaimCommits(w, j, generation)
    /\ proc' = [proc EXCEPT ![w] =
                  [pc |-> "handling", job_id |-> j, generation |-> generation,
                   attempt_count |-> jobs[j].attempt_count + 1, outcome |-> "none"]]
    /\ starts' = [starts EXCEPT ![j][generation] = @ + 1]
    /\ UNCHANGED <<outbox, nextId, disp, sent, beats, succeeded>>

\* The commit is applied but Claim returns an error, or the process dies.
ClaimReplyLost(w, j, generation) ==
    /\ ClaimCommits(w, j, generation)
    /\ UNCHANGED <<outbox, nextId, disp, sent, proc, beats, starts, succeeded>>

\* The budget is used up by interrupted executions: the job is buried.
ClaimExhausted(w, j, generation) ==
    /\ proc[w].pc = "idle"
    /\ Claimable(j, generation)
    /\ Exhausted(j)
    /\ UpdateJob(j, [jobs[j] EXCEPT !.status = "DEAD", !.lease_owner = None,
                                    !.lease_until = 0])
    /\ Log(j, jobs[j].status, "DEAD")
    /\ UNCHANGED <<outbox, nextId, disp, sent, proc, beats, starts, succeeded>>

-----------------------------------------------------------------------------
(***************************************************************************)
(* ProcessJob: heartbeat, handler, outcome.                                *)
(***************************************************************************)
\* The WHERE clause of Renew and Finish.
Fence(j, generation, owner) ==
    /\ jobs[j].generation = generation
    /\ jobs[j].status = "PROCESSING"
    /\ jobs[j].lease_owner = owner
    /\ jobs[j].lease_until > 0

Heartbeat(w) == [owner |-> w, job_id |-> proc[w].job_id,
                 generation |-> proc[w].generation,
                 attempt_count |-> proc[w].attempt_count]

\* The heartbeat goroutine's ticker fires and Renew is sent.
BeatSend(w) ==
    /\ proc[w].pc = "handling"
    /\ Heartbeat(w) \notin beats
    /\ beats' = beats \cup { Heartbeat(w) }
    /\ UNCHANGED <<jobs, outbox, nextId, audit, disp, sent, proc, starts, succeeded>>

\* Renew executes.  The statement of an attempt given up meanwhile may
\* execute late; the fence cannot tell two attempts of one owner apart.
RenewLands(b) ==
    /\ beats' = beats \ {b}
    /\ Fence(b.job_id, b.generation, b.owner)
    /\ UpdateJob(b.job_id, [jobs[b.job_id] EXCEPT !.lease_until = LeaseTime])
    /\ UNCHANGED <<outbox, nextId, audit, disp, sent, proc, starts, succeeded>>

\* No row matches, or Renew fails: cancel(), and the attempt has lost its lease.
RenewFails(b) ==
    /\ beats' = beats \ {b}
    /\ proc' = IF proc[b.owner].pc = "handling" /\ Heartbeat(b.owner) = b
               THEN [proc EXCEPT ![b.owner].pc = "lost"] ELSE proc
    /\ UNCHANGED <<jobs, outbox, nextId, audit, disp, sent, starts, succeeded>>

\* Bug variant: a transient failure of the last attempt is retried.
LastTooLate(w) == proc[w].attempt_count > jobs[proc[w].job_id].max_retries + 1

\* The budget is used up by this very attempt.
Last(w) == proc[w].attempt_count >= jobs[proc[w].job_id].max_retries + 1

\* The handler returns nil, a transient error or a PermanentError; the
\* heartbeat has stopped (<-done) and reported no failure.
HandlerReturns(w, result) ==
    /\ proc[w].pc = "handling"
    /\ Heartbeat(w) \notin beats
    /\ proc' = [proc EXCEPT ![w].pc = "finishing",
                  ![w].outcome = CASE result = "ok" -> "COMPLETED"
                                   [] result = "transient" /\ ~Last(w) -> "PENDING"
                                   [] OTHER -> "DEAD"]
    /\ succeeded' = IF result = "ok"
                    THEN succeeded \cup { <<proc[w].job_id, proc[w].generation>> }
                    ELSE succeeded
    /\ UNCHANGED <<jobs, outbox, nextId, audit, disp, sent, beats, starts>>

\* Finish: outcome, audit row and the retry's intent in one transaction.
Finish(w, delay) ==
    LET j == proc[w].job_id
        outcome == proc[w].outcome
        wait == IF outcome = "COMPLETED" THEN 0 ELSE delay
    IN  /\ proc[w].pc = "finishing"
        /\ Fence(j, proc[w].generation, w)
        /\ UpdateJob(j, [jobs[j] EXCEPT !.status = outcome, !.next_attempt_at = wait,
                                        !.lease_owner = None, !.lease_until = 0])
        /\ Log(j, "PROCESSING", outcome)
        /\ IF outcome = "PENDING"
           THEN InsertIntent(j, jobs[j].generation, jobs[j].attempt_count + 1, wait)
           ELSE UNCHANGED <<outbox, nextId>>
        /\ proc' = [proc EXCEPT ![w] = NoTask]
        /\ UNCHANGED <<disp, sent, beats, starts, succeeded>>

\* ProcessJob returns an error or the process dies: a lost lease, a panic, the
\* job timeout, a refused or failed Finish.  Nothing is written.
Abandon(w) ==
    /\ proc[w].pc # "idle"
    /\ proc' = [proc EXCEPT ![w] = NoTask]
    /\ UNCHANGED <<jobs, outbox, nextId, audit, disp, sent, beats, starts, succeeded>>

-----------------------------------------------------------------------------
Down(t) == IF t = 0 THEN 0 ELSE t - 1

\* A unit of time passes on the database's clock.
Tick ==
    /\ jobs' = [j \in Job |-> [jobs[j] EXCEPT
                  !.next_attempt_at = Down(jobs[j].next_attempt_at),
                  !.lease_until = Down(jobs[j].lease_until)]]
    /\ outbox' = { [r EXCEPT !.available_at = Down(r.available_at),
                             !.published_at = Down(r.published_at)] : r \in outbox }
    /\ UNCHANGED <<nextId, audit, disp, sent, proc, beats, starts, succeeded>>

Next ==
    \/ \E j \in Job : (\E b \in Budgets : Create(j, b)) \/ Requeue(j)
    \/ \E d \in Dispatcher :
          \/ DispatchSelect(d) \/ DispatchRead(d) \/ DispatchPublish(d)
          \/ DispatchMark(d) \/ DispatchDelete(d) \/ DispatchFail(d)
    \/ \E w \in Worker, j \in Job, g \in Generations :
          /\ <<j, g>> \in sent
          /\ Claim(w, j, g) \/ ClaimReplyLost(w, j, g) \/ ClaimExhausted(w, j, g)
    \/ \E b \in beats : RenewLands(b) \/ RenewFails(b)
    \/ \E w \in Worker :
          \/ BeatSend(w) \/ Abandon(w)
          \/ \E result \in {"ok", "transient", "permanent"} : HandlerReturns(w, result)
          \/ \E delay \in Delays : Finish(w, delay)
    \/ Tick

Spec == Init /\ [][Next]_vars

-----------------------------------------------------------------------------
(***************************************************************************)
(* What the tables promise.                                                *)
(***************************************************************************)
\* Every variable has its type: the columns, the transactions in progress and
\* the histories.
TypeOK ==
    /\ jobs \in [Job -> JobRow]
    /\ outbox \subseteq OutboxRow
    /\ nextId \in Nat
    /\ audit \in [Job -> AuditRow]
    /\ disp \in [Dispatcher -> Transaction \cup {NoTransaction}]
    /\ sent \subseteq Job \X Nat
    /\ proc \in [Worker -> Task \cup {NoTask}]
    /\ beats \subseteq Beat
    /\ starts \in [Job -> [Generations -> Nat]]
    /\ succeeded \subseteq Job \X Nat

Nonterminal(j) == jobs[j].status \in {"PENDING", "PROCESSING"}

\* Accepted work is never lost: a PENDING or PROCESSING job always has a
\* dispatch intent of its current generation, whatever a dispatcher deletes
\* from what it read before a replay, and wherever a process dies.
DurableIntent ==
    \A j \in Job : Nonterminal(j) =>
        \E r \in outbox : r.job_id = j /\ r.generation = jobs[j].generation

\* Claim acknowledges a delivery that comes before next_attempt_at "because the
\* durable retry outbox owns the next delivery": whenever it does so, the intent
\* of the next attempt is there, becomes available at that very time, and has
\* not been published yet.
RetryIntentOwnsDelivery ==
    \A j \in Job : Nonterminal(j) /\ Early(j) =>
        \E r \in outbox :
            /\ r.job_id = j
            /\ r.generation = jobs[j].generation
            /\ r.attempt = jobs[j].attempt_count + 1
            /\ r.available_at = jobs[j].next_attempt_at
            /\ r.published_at = 0

\* Neither Finish nor requeueJob can fail on the key (job_id, generation,
\* attempt) of the outbox, which would roll the whole outcome back, forever:
\* interrupted, repeated and replayed attempts never reuse a number.
IntentKeyAvailable ==
    \A j \in Job :
        /\ jobs[j].status = "PROCESSING" =>
              KeyFree(j, jobs[j].generation, jobs[j].attempt_count + 1)
        /\ jobs[j].status \in {"ABSENT", "DEAD", "FAILED"} =>
              KeyFree(j, jobs[j].generation + 1, 1)

\* No generation of a job is executed more than max_retries+1 times, counting
\* executions that crashed, lost their lease, or were begun by a takeover.
BudgetRespected ==
    \A j \in Job, g \in Generations : starts[j][g] <= jobs[j].max_retries + 1

\* A COMPLETED job had its handler return nil in that very generation: an
\* attempt superseded by a takeover or a replay completes nothing.
CompletedWasExecuted ==
    \A j \in Job : jobs[j].status = "COMPLETED" =>
        <<j, jobs[j].generation>> \in succeeded

\* The attempt of worker w is the one the job row records as executing.
Owns(w, j) ==
    /\ proc[w].pc = "finishing"
    /\ proc[w].job_id = j
    /\ proc[w].generation = jobs[j].generation
    /\ proc[w].attempt_count = jobs[j].attempt_count
    /\ jobs[j].lease_owner = w

\* While a lease is live only its holder's current attempt decides the job: no
\* takeover, no second claim of a duplicate delivery, no outcome of an older
\* attempt, even one of the same worker; and without a live lease nobody
\* completes it or schedules its retry.
LeaseHolderDecides ==
    [][\A j \in Job :
          LET live == jobs[j].lease_until > 0
              moved == jobs'[j].status # jobs[j].status
                       \/ jobs'[j].attempt_count # jobs[j].attempt_count
          IN  /\ jobs[j].status = "PROCESSING"
              /\ (moved /\ live) \/ jobs'[j].status \in {"COMPLETED", "PENDING", "FAILED"}
              => live /\ \E w \in Worker : Owns(w, j) /\ proc[w].outcome = jobs'[j].status]_vars

\* Late deliveries, renewals and outcomes never revive a finished job: a
\* COMPLETED row never changes again, and a DEAD or FAILED one leaves its state
\* only by a replay, which takes the next generation and starts from nothing.
TerminalUntilReplay ==
    [][\A j \in Job :
          /\ jobs[j].status \in {"COMPLETED", "DEAD", "FAILED"}
          /\ jobs'[j].status # jobs[j].status \/ jobs'[j].attempt_count # jobs[j].attempt_count
          => /\ jobs[j].status # "COMPLETED"
             /\ jobs'[j] = Fresh("PENDING", jobs[j].generation + 1, 0,
                                 jobs[j].max_retries)]_vars

\* A row leaves the outbox only when its generation is finished or replaced at
\* that moment, although Dispatch decided on what it read without a lock.
DeleteOnlyObsolete ==
    [][\A r \in outbox : (\A q \in outbox' : q.id # r.id)
          => Obsolete(r.job_id, r.generation)]_vars

\* "Marking before XADD could lose it": an intent is marked as published only
\* if it is in the stream, with rollbacks and crashes in between.
PublishedWasSent ==
    \A r \in outbox : r.published_at > 0 => <<r.job_id, r.generation>> \in sent

\* The audit log is a history without gaps: every change of a status and every
\* attempt begun is logged in its transaction, takeovers of an expired lease and
\* burials of PENDING jobs included, from the status the job really had, which is
\* where the row before ended; and nothing else is logged.
AuditTrail ==
    /\ [](\A j \in Job : audit[j].to_status = jobs[j].status)
    /\ [][\A j \in Job :
            \/ jobs'[j].status # jobs[j].status
            \/ jobs'[j].attempt_count # jobs[j].attempt_count
            \/ audit'[j] # audit[j]
            => audit'[j] = [from_status |-> jobs[j].status,
                            to_status |-> jobs'[j].status]]_vars

-----------------------------------------------------------------------------
(***************************************************************************)
(* Seen without leases, deadlines and workers, the rows of table jobs      *)
(* follow the documented life cycle: every transaction is one step of it   *)
(* or none.                                                                *)
(***************************************************************************)
Life == [j \in Job |-> [status |-> jobs[j].status, generation |-> jobs[j].generation,
                        attempts |-> jobs[j].attempt_count,
                        budget |-> jobs[j].max_retries]]

Lifecycle == INSTANCE JobLifecycle WITH life <- Life

\* JobStore implements JobLifecycle.
ImplementsLifecycle == Lifecycle!Spec

=============================================================================
