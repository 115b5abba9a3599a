------------------------------- MODULE ReadApi -------------------------------
(***************************************************************************)
(* GET /jobs, /jobs/dead, /jobs/:id and /jobs/:id/logs, read by a client   *)
(* while the jobs change underneath.  No read is a transaction: a page and *)
(* its total are two queries, and so are the pages of a walk through a     *)
(* list and a job and its audit log.                                       *)
(*                                                                         *)
(* The jobs change as JobLifecycle says, which JobStore implements, each   *)
(* change with its audit row in one transaction.  created_at and           *)
(* updated_at are kept to the second, and rows that are equal in the       *)
(* column a list is ordered by come in any order.                          *)
(***************************************************************************)
EXTENDS Integers, Sequences, SequencesExt

CONSTANTS
    Job, Budgets,  \* as in JobLifecycle
    Asked,         \* what clients put into the limit parameter
    NaN,           \* parseInt of a parameter that is missing or no number
    DefaultLimit,  \* 20: the limit of a request that names none
    MaxLimit,      \* 100: the longest page
    MaxTime,       \* bound on the seconds that pass
    MaxChanges     \* bound on the changes of jobs

ASSUME ReadApiAssumption ==
    /\ IsFiniteSet(Job) /\ Budgets \subseteq Nat
    /\ Asked \subseteq Int \cup {NaN}
    /\ MaxLimit \in Nat /\ DefaultLimit \in 1 .. MaxLimit
    /\ MaxTime \in Nat /\ MaxChanges \in Nat

VARIABLES
    life,     \* table jobs, as in JobLifecycle
    created,  \* created_at of each job
    updated,  \* updated_at of each job
    logged,   \* table job_audit_logs: the to_status entries of each job
    now,      \* the clock, in seconds
    changes,  \* the changes of jobs so far
    client,   \* the reading client's session
    left      \* history: a job has left the list the client is walking through

vars == <<life, created, updated, logged, now, changes, client, left>>

Lifecycle == INSTANCE JobLifecycle

(***************************************************************************)
(* The lists a client can ask for: all jobs, those of a status, and the    *)
(* dead-letter list.                                                       *)
(***************************************************************************)
List == {"all", "COMPLETED", "DEAD", "dead"}

\* The WHERE clause.
Matching(list) ==
    { j \in Job : /\ life[j].status # "ABSENT"
                  /\ CASE list = "all"  -> TRUE
                       [] list = "dead" -> life[j].status = "DEAD"
                       [] OTHER         -> life[j].status = list }

\* Bug variant: every list is ordered by the latest change.
SortKeyUpdated(list) == updated

\* The ORDER BY ... DESC column.
SortKey(list) == IF list = "dead" THEN updated ELSE created

\* The orders in which MySQL may return the matching rows.
Sorted(list) ==
    { s \in SetToSeqs(Matching(list)) :
        \A a, b \in DOMAIN s : a < b => SortKey(list)[s[a]] >= SortKey(list)[s[b]] }

\* LIMIT and OFFSET.
Cut(s, limit, offset) ==
    SubSeq(s, offset + 1, IF Len(s) < offset + limit THEN Len(s) ELSE offset + limit)

\* Math.max(1, Math.min(parseInt(limit, 10) || 20, 100)).
Clamp(asked) ==
    LET wanted == IF asked \in {NaN, 0} THEN DefaultLimit ELSE asked
    IN  CASE wanted < 1        -> 1
          [] wanted > MaxLimit -> MaxLimit
          [] OTHER             -> wanted

-----------------------------------------------------------------------------
Idle == [pc |-> "idle"]

Existing(stage) == stage # Lifecycle!Unknown

Init ==
    /\ Lifecycle!Init
    /\ now = 2 /\ changes = 0
    /\ created \in [Job -> 1 .. now]
    /\ updated \in [Job -> 1 .. now]
    /\ \A j \in Job : IF Existing(life[j]) THEN created[j] <= updated[j]
                                           ELSE created[j] = 1 /\ updated[j] = 1
    /\ logged = [j \in Job |-> IF Existing(life[j]) THEN { life[j].status } ELSE {}]
    /\ client = Idle
    /\ left = FALSE

-----------------------------------------------------------------------------
(***************************************************************************)
(* The jobs change.                                                        *)
(***************************************************************************)
Changes(j) ==
    \/ \E b \in Budgets : Lifecycle!Accept(j, b)
    \/ Lifecycle!Begin(j) \/ Lifecycle!Complete(j) \/ Lifecycle!Reschedule(j)
    \/ Lifecycle!Bury(j) \/ Lifecycle!Replay(j)

\* Bug variant: only the workers write audit rows.
LogUnlessCreated(j) ==
    logged' = IF life[j].status = "ABSENT" THEN logged
              ELSE [logged EXCEPT ![j] = @ \cup { life'[j].status }]

\* The audit row of the transaction.
Log(j) == logged' = [logged EXCEPT ![j] = @ \cup { life'[j].status }]

\* Bound: once the client has read what it wanted, nothing else is looked at.
Over == client.pc \in {"done", "not_found", "logs", "no_logs"}

\* A transaction changes job j.
Change(j) ==
    /\ changes < MaxChanges /\ ~Over
    /\ Changes(j)
    /\ Log(j)
    /\ created' = IF life[j].status = "ABSENT" THEN [created EXCEPT ![j] = now] ELSE created
    /\ updated' = [updated EXCEPT ![j] = now]
    /\ changes' = changes + 1
    /\ UNCHANGED <<now, client>>
    /\ left' = (left \/ (client.pc \in {"rows", "count"}
                           /\ j \in Matching(client.list) \ Matching(client.list)'))

Tick ==
    /\ now < MaxTime /\ ~Over
    /\ now' = now + 1
    /\ UNCHANGED <<life, created, updated, logged, changes, client, left>>

-----------------------------------------------------------------------------
(***************************************************************************)
(* listJobs and listDeadJobs, asked for page after page until one is       *)
(* shorter than its limit.                                                 *)
(***************************************************************************)
StartWalk(list, asked) ==
    /\ client = Idle
    /\ client' = [pc |-> "rows", list |-> list, limit |-> Clamp(asked), offset |-> 0,
                  rows |-> <<>>, total |-> 0, seen |-> {}, there |-> Matching(list)]
    /\ UNCHANGED <<life, created, updated, logged, now, changes, left>>

\* The rows of the page.
ReadRows ==
    /\ client.pc = "rows"
    /\ \E s \in Sorted(client.list) :
          client' = [client EXCEPT !.pc = "count",
                                   !.rows = Cut(s, client.limit, client.offset)]
    /\ UNCHANGED <<life, created, updated, logged, now, changes, left>>

\* Bug variant: the total is read once, for the first page.
TotalOfFirstPage == Len(SetToSeq(client.there))

Total == Len(SetToSeq(Matching(client.list)))

Short == Len(client.rows) < client.limit

\* The count; the client has its page and asks for the next, or is done.
ReadTotal ==
    /\ client.pc = "count"
    /\ client' = [client EXCEPT !.pc = IF Short THEN "done" ELSE "rows",
                                !.total = Total,
                                !.seen = @ \cup ToSet(client.rows),
                                !.offset = IF Short THEN @ ELSE @ + client.limit]
    /\ UNCHANGED <<life, created, updated, logged, now, changes, left>>

-----------------------------------------------------------------------------
(***************************************************************************)
(* getJobById, and then getJobLogs of the same job.                        *)
(***************************************************************************)
GetJobById(j) ==
    /\ client = Idle
    /\ client' = IF life[j].status = "ABSENT" THEN [pc |-> "not_found"]
                 ELSE [pc |-> "found", job |-> j, status |-> life[j].status]
    /\ UNCHANGED <<life, created, updated, logged, now, changes, left>>

\* The entries of the job, in any order within one second.
Logs(j) == logged[j]

GetJobLogs ==
    /\ client.pc = "found"
    /\ client' = IF Logs(client.job) = {} THEN [pc |-> "no_logs"]
                 ELSE [pc |-> "logs", job |-> client.job, status |-> client.status,
                       logs |-> Logs(client.job)]
    /\ UNCHANGED <<life, created, updated, logged, now, changes, left>>

-----------------------------------------------------------------------------
Next ==
    \/ Tick
    \/ \E j \in Job : Change(j) \/ GetJobById(j)
    \/ \E list \in List, asked \in Asked : StartWalk(list, asked)
    \/ ReadRows \/ ReadTotal \/ GetJobLogs

Spec == Init /\ [][Next]_vars

-----------------------------------------------------------------------------
\* No other job shares the second that j is ordered by.
Untied(j) ==
    \A i \in Job : i # j /\ life[i].status # "ABSENT" =>
        SortKey(client.list)[i] # SortKey(client.list)[j]

\* A walk through a list, page by page while jobs are added and changed, gets
\* further with every page whatever limit was asked for, and skips no job that was
\* in the list when it began: new entries only push older ones to later pages.  Two
\* things take that away, and both are conditions here: a job that leaves the list
\* meanwhile (a replay from the dead-letter list; nothing leaves the lists of all
\* or of COMPLETED jobs), and two jobs of one second.
WalkSkipsNothing ==
    [][ReadTotal =>
          \/ client'.pc = "rows" /\ client'.offset > client.offset
          \/ client'.pc = "done"
             /\ (left \/ \A j \in client.there : Untied(j) => j \in client'.seen)]_vars

\* The total that comes with a page covers it, although it is counted later: a
\* client never has more rows than it is told there are, unless one has left.
TotalCoversPage ==
    [][ReadTotal /\ client.rows # <<>> /\ ~left
         => client'.total >= client.offset + Len(client.rows)]_vars

\* The history explains what was seen before it: the logs a client reads after a
\* job are there, and tell how it came into the status the client has seen,
\* whatever has happened to it between the two reads.
LogsExplainJob ==
    /\ client.pc # "no_logs"
    /\ client.pc = "logs" => client.status \in client.logs

=============================================================================
