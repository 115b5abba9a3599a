-------------------------------- MODULE Worker --------------------------------
(***************************************************************************)
(* WorkerProcess and Heartbeat together: the process, and in its first     *)
(* read loop the two goroutines of each call of ProcessJob.  The end of    *)
(* context execution, after the drain period or when Run returns, is the   *)
(* end of the context of the call that is under way; handle returns when   *)
(* the call has; and the heartbeat of a call that panicked may still be    *)
(* there during the next.                                                  *)
(***************************************************************************)
EXTENDS WorkerProcess

CONSTANT Calls   \* bound on the jobs the first loop claims

VARIABLES main, beat, expired, taskCancelled, stopRenew, renewed, refused

heartbeat == <<main, beat, expired, taskCancelled, stopRenew, renewed, refused>>

Job == INSTANCE Heartbeat WITH cancelled <- taskCancelled

Detailed == 1

WorkerInit == Init /\ Job!Init

Executing == { k \in Job!Call : main[k] \notin {"none", "returned"} }

-----------------------------------------------------------------------------
\* Bug variant: ProcessJob gets a context of its own.
ContextIgnored == UNCHANGED heartbeat

\* cancel() of execution ends the context of a call under way.
ContextFollows ==
    IF cancelled' # cancelled
    THEN /\ expired' = [k \in Job!Call |-> expired[k] \/ k \in Executing]
         /\ UNCHANGED <<main, beat, taskCancelled, stopRenew, renewed, refused>>
    ELSE UNCHANGED heartbeat

\* A step of the process that neither calls handle nor returns from it.
ProcessStep ==
    /\ Stop \/ RunStep \/ WatcherStep \/ DispStep
    /\ ContextFollows

\* A step of a read loop, and for the first one no job: its entry cannot be
\* parsed, Claim fails or has none to give, and no call is left for others.
LoopsGo ==
    /\ \E c \in Loops : LoopStep(c) \/ (c # Detailed /\ HandleEnds(c))
    /\ UNCHANGED heartbeat

\* handle is called and Claim returns a job.
HandleJob ==
    /\ Begin(Detailed)
    /\ ~cancelled
    /\ \E k \in Job!Call : Job!Start(k)

\* handle returns after the call, if there was one, and acknowledges or not.
HandleReturns ==
    /\ HandleEnds(Detailed)
    /\ Executing = {}
    /\ UNCHANGED heartbeat

JobStep ==
    /\ \E k \in Job!Call : Job!Goes(k)
    /\ UNCHANGED vars

WorkerNext == ProcessStep \/ LoopsGo \/ HandleJob \/ HandleReturns \/ JobStep

WorkerSpec == WorkerInit /\ [][WorkerNext]_<<vars, heartbeat>>

(***************************************************************************)
(* Fairness as in the two modules, except that of the first loop's handle  *)
(* nothing is assumed but that it returns once its call has.               *)
(***************************************************************************)
WorkerFairSpec ==
    /\ WorkerSpec
    /\ GoroutinesRun
    /\ \A c \in Loops \ {Detailed} : Cooperates(c)
    /\ WF_<<vars, heartbeat>>(HandleReturns)
    /\ Job!Fairness

-----------------------------------------------------------------------------
\* Each variable has its type.
WorkerTypeOK == TypeOK /\ Job!TypeOK

\* Finish is called only when every renewal of the call has succeeded and none
\* is in progress or still to come, also when the drain period ends meanwhile.
FinishUnrefused == Job!FinishUnrefused

\* A refused renewal ends the call, without waiting for the job's timeout or a
\* stop of the process.
LostLeaseEndsCall == Job!LostLeaseEndsCall

\* No goroutine is leaked, not even by a panic or while Renew is under way.
HeartbeatEnds == Job!HeartbeatEnds

\* The job's timeout, or the end of the drain, ends the call.
TimeoutEndsCall == Job!TimeoutEndsCall

=============================================================================
