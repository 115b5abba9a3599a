----------------------------- MODULE ScaleQueue -----------------------------
(***************************************************************************)
(* The whole pipeline: the tables and their transactions (JobStore), the   *)
(* Redis stream with its pending list, and the worker loops between them.  *)
(* A transaction of a worker happens on behalf of the entry its loop holds *)
(* and decides whether that entry is acknowledged or retained.             *)
(*                                                                         *)
(* Of the stream only the entries that are not acknowledged are            *)
(* kept, and of the many copies of a delivery that republication adds, as  *)
(* many as MaxCopies.  ConsumerGroup has the order of the stream, replies, *)
(* the scan's cursor and the group; a worker process that is started again *)
(* appears under its old names.                                            *)
(***************************************************************************)
EXTENDS JobStore

CONSTANTS
    MaxCopies,  \* bound on entries with the same content
    MaxFaults   \* bound on failures outside an attempt: see Fault

ASSUME ScaleQueueAssumption == MaxCopies \in Nat \ {0} /\ MaxFaults \in Nat

VARIABLES
    entries,  \* deliveries in the stream that nobody has acknowledged
    loop,     \* the entry each worker's loop is handling
    faults

store == <<jobs, outbox, nextId, audit, disp, sent, proc, beats, starts, succeeded>>
queueVars == <<store, entries, loop, faults>>

\* owner is the consumer an entry is pending for, or None: never delivered.
\* The first three fields stand for the entry's id.
Entry == [job_id: Job, generation: Generations, copy: 1 .. MaxCopies,
          owner: Worker \cup {None}]

NoEntry == [job_id |-> None, generation |-> 0, copy |-> 0, owner |-> None]

SameId(e, f) == [e EXCEPT !.owner = None] = [f EXCEPT !.owner = None]

\* The system starts with empty tables; migrated rows are JobStore's matter.
QueueInit ==
    /\ Init
    /\ \A j \in Job : jobs[j].status = "ABSENT"
    /\ entries = {}
    /\ loop = [w \in Worker |-> NoEntry]
    /\ faults = 0

Fault == faults < MaxFaults /\ faults' = faults + 1

-----------------------------------------------------------------------------
(***************************************************************************)
(* The API and the dispatcher.                                             *)
(***************************************************************************)
Submit(j) ==
    /\ (\E b \in Budgets : Create(j, b)) \/ Requeue(j)
    /\ UNCHANGED <<entries, loop, faults>>

\* Ids of entries for this content that no entry and no loop has.
FreeIds(j, g) ==
    { e \in Entry : /\ e.job_id = j /\ e.generation = g /\ e.owner = None
                    /\ \A f \in entries \cup { loop[w] : w \in Worker } : ~SameId(e, f) }

\* XADD; beyond MaxCopies, the new entry is taken for one that is there.
Publish(d) ==
    LET free == FreeIds(disp[d].job_id, disp[d].generation)
    IN  /\ DispatchPublish(d)
        /\ \/ free = {} /\ UNCHANGED entries
           \/ \E e \in free : /\ \A f \in free : e.copy <= f.copy
                             /\ entries' = entries \cup {e}
        /\ UNCHANGED <<loop, faults>>

\* The dispatcher's loop calls Dispatch again and again.
Dispatch(d) ==
    \/ Publish(d)
    \/ /\ DispatchSelect(d) \/ DispatchRead(d) \/ DispatchMark(d) \/ DispatchDelete(d)
       /\ UNCHANGED <<entries, loop, faults>>

-----------------------------------------------------------------------------
(***************************************************************************)
(* The worker's loop.                                                      *)
(***************************************************************************)
\* The entry e becomes w's, and w handles it next.
Take(w, e) ==
    /\ loop[w] = NoEntry
    /\ loop' = [loop EXCEPT ![w] = [e EXCEPT !.owner = w]]
    /\ entries' = (entries \ {e}) \cup { [e EXCEPT !.owner = w] }
    /\ UNCHANGED <<store, faults>>

\* XREADGROUP >.
Read(w, e) == e \in entries /\ e.owner = None /\ Take(w, e)

\* XAUTOCLAIM: an entry pending for anyone, also one still being handled, as
\* RECOVERY_IDLE is shorter than JOB_TIMEOUT.
Recover(w, e) == e \in entries /\ e.owner # None /\ Take(w, e)

\* ProcessJob returned nil: XACK, whoever the entry is pending for by now.
Ack(w) ==
    /\ loop' = [loop EXCEPT ![w] = NoEntry]
    /\ entries' = { e \in entries : ~SameId(e, loop[w]) }

\* ProcessJob returned an error: the entry stays on the pending list.
Retain(w) == loop' = [loop EXCEPT ![w] = NoEntry] /\ UNCHANGED entries

Holds(w) == loop[w] # NoEntry /\ proc[w].pc = "idle"

\* Claim returns nil, nil: stale, finished or early.
Ignore(w) ==
    /\ Holds(w)
    /\ \/ Ignored(loop[w].job_id, loop[w].generation)
       \/ ~Busy(loop[w].job_id) /\ Early(loop[w].job_id)
    /\ Ack(w)
    /\ UNCHANGED <<store, faults>>

\* Bug variant: what another attempt is executing is acknowledged like stale work.
PostponeForever(w) ==
    /\ Holds(w)
    /\ ~Ignored(loop[w].job_id, loop[w].generation)
    /\ Busy(loop[w].job_id)
    /\ Ack(w)
    /\ UNCHANGED <<store, faults>>

\* ErrBusy: another attempt has a live lease.
Postpone(w) ==
    /\ Holds(w)
    /\ ~Ignored(loop[w].job_id, loop[w].generation)
    /\ Busy(loop[w].job_id)
    /\ Retain(w)
    /\ UNCHANGED <<store, faults>>

Begin(w) ==
    /\ Holds(w)
    /\ Claim(w, loop[w].job_id, loop[w].generation)
    /\ UNCHANGED <<entries, loop, faults>>

\* Bug variant: a job whose budget interrupted attempts used up is left alone.
BuryNever(w) ==
    /\ Holds(w)
    /\ Claimable(loop[w].job_id, loop[w].generation) /\ Exhausted(loop[w].job_id)
    /\ Ack(w)
    /\ UNCHANGED <<store, faults>>

Bury(w) ==
    /\ Holds(w)
    /\ ClaimExhausted(w, loop[w].job_id, loop[w].generation)
    /\ Ack(w)
    /\ UNCHANGED faults

\* The claim is committed, and its error retains the entry.
LoseClaim(w) ==
    /\ Holds(w)
    /\ ClaimReplyLost(w, loop[w].job_id, loop[w].generation)
    /\ Retain(w)
    /\ UNCHANGED faults

Return(w) ==
    /\ \E result \in {"ok", "transient", "permanent"} : HandlerReturns(w, result)
    /\ UNCHANGED <<entries, loop, faults>>

\* Finish commits and ProcessJob returns nil.
Settle(w) ==
    /\ \E delay \in Delays : Finish(w, delay)
    /\ Ack(w)
    /\ UNCHANGED faults

\* A lost lease, a panic, the job timeout, a refused Finish.
GiveUp(w) ==
    /\ Abandon(w)
    /\ Retain(w)
    /\ UNCHANGED faults

\* The heartbeat, one statement at a time.
Heart ==
    /\ \/ \E w \in Worker : BeatSend(w)
       \/ \E b \in beats : RenewLands(b) \/ RenewFails(b)
    /\ UNCHANGED <<entries, loop, faults>>

-----------------------------------------------------------------------------
(***************************************************************************)
(* Failures outside an attempt; those inside use the attempt up.           *)
(***************************************************************************)
\* Dispatch is rolled back, at whatever point.
DispatchBreaks(d) == DispatchFail(d) /\ Fault /\ UNCHANGED <<entries, loop>>

\* Claim fails and writes nothing, or the process dies before it calls it.
ClaimBreaks(w) == Holds(w) /\ Fault /\ Retain(w) /\ UNCHANGED store

\* The outcome is persisted, or there was nothing to do, and XACK fails.
AckBreaks(w) ==
    /\ Fault
    /\ Retain(w)
    /\ \/ \E delay \in Delays : Finish(w, delay)
       \/ Holds(w) /\ ClaimExhausted(w, loop[w].job_id, loop[w].generation)

\* Redis forgets an entry, for instance what it has not yet written to its log;
\* the group survives.
Forget ==
    /\ Fault
    /\ \E e \in entries : entries' = entries \ {e}
    /\ UNCHANGED <<store, loop>>

Time == Tick /\ UNCHANGED <<entries, loop, faults>>

-----------------------------------------------------------------------------
QueueNext ==
    \/ \E j \in Job : Submit(j)
    \/ \E d \in Dispatcher : Dispatch(d) \/ DispatchBreaks(d)
    \/ \E w \in Worker :
          \/ \E e \in entries : Read(w, e) \/ Recover(w, e)
          \/ Ignore(w) \/ Postpone(w) \/ Begin(w) \/ Bury(w) \/ LoseClaim(w)
          \/ Return(w) \/ Settle(w) \/ GiveUp(w) \/ ClaimBreaks(w) \/ AckBreaks(w)
    \/ Heart \/ Forget \/ Time

(***************************************************************************)
(* Loops go on.  Entries are read in order and scanned in turn, so each is *)
(* taken if it can be taken again and again.  A handler returns, or is     *)
(* given up, although heartbeats come and go meanwhile.                    *)
(***************************************************************************)
Fairness ==
    /\ WF_queueVars(Time)
    /\ \A d \in Dispatcher : WF_queueVars(Dispatch(d))
    /\ \A e \in Entry : SF_queueVars(\E w \in Worker : Read(w, e) \/ Recover(w, e))
    /\ \A w \in Worker :
          /\ WF_queueVars(Ignore(w) \/ Postpone(w) \/ Begin(w) \/ Bury(w))
          /\ SF_queueVars(Return(w))
          /\ WF_queueVars(Settle(w) \/ (proc[w].pc \in {"lost", "finishing"} /\ GiveUp(w)))
    /\ WF_queueVars(\E b \in beats : (RenewLands(b) \/ RenewFails(b))
                                     /\ UNCHANGED <<entries, loop, faults>>)

QueueSpec == QueueInit /\ [][QueueNext]_queueVars /\ Fairness

-----------------------------------------------------------------------------
\* Every variable has its type, and a worker executes only what its loop holds.
QueueTypeOK ==
    /\ entries \subseteq Entry
    /\ loop \in [Worker -> Entry \cup { NoEntry }]
    /\ \A w \in Worker :
          /\ loop[w] # NoEntry => loop[w].owner = w
          /\ proc[w].pc # "idle" =>
                /\ loop[w] # NoEntry
                /\ loop[w].job_id = proc[w].job_id
                /\ loop[w].generation = proc[w].generation
    /\ faults \in 0 .. MaxFaults

\* The work of the entry e is over, or goes on without e: its generation is finished
\* or replaced, or the outbox has the intent of the next attempt, not published yet.
Settled(e) ==
    \/ Obsolete(e.job_id, e.generation)
    \/ \E r \in outbox :
          /\ r.job_id = e.job_id /\ r.generation = e.generation
          /\ r.attempt = jobs[e.job_id].attempt_count + 1
          /\ r.published_at = 0

\* XACK needs no lease and takes the entry away from whoever claimed it meanwhile:
\* an entry is acknowledged only when its work is settled, also if another loop
\* holds it, if it is a late copy, or if it is read before the retry is due (nil,
\* nil from Claim).  Entries Redis forgets leave without an acknowledgement.
AcknowledgedIsSettled ==
    [][\A e \in entries :
          loop' # loop /\ (\A f \in entries' : ~SameId(e, f)) => Settled(e)']_queueVars

\* Every accepted or replayed job ends COMPLETED or DEAD: its first delivery, those
\* of its retries and takeovers, and the dispatcher's republication get it there
\* through lost claims, failed acknowledgements and forgotten entries, although
\* the dispatcher serves lower ids first, again and again.  And it leaves nothing
\* behind: every intent is deleted and every delivery, duplicate and late ones
\* included, is acknowledged.
QueueDrains ==
    <>[](/\ \A j \in Job : ~Nonterminal(j)
         /\ outbox = {} /\ entries = {})

=============================================================================
