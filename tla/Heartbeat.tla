------------------------------ MODULE Heartbeat ------------------------------
(***************************************************************************)
(* The two goroutines of ProcessJob: the one that runs the handler and     *)
(* persists its outcome, and the heartbeat that renews the lease until it  *)
(* is stopped, cancelled, or refused.  They share two contexts (ctx, with  *)
(* the job's timeout, and task, derived from it), the channel stopRenew,   *)
(* which is closed, the channel done, which the heartbeat closes, and the  *)
(* channel renewed, with room for one error.                               *)
(*                                                                         *)
(* One worker's calls of ProcessJob follow each other; a call that panics  *)
(* does not wait for its heartbeat, which may then live on for a while,    *)
(* beside the next call.  What Claim, Renew and Finish do to the tables is *)
(* in module JobStore; here they succeed or fail.                          *)
(***************************************************************************)
EXTENDS Naturals

CONSTANT Calls   \* bound on the calls of ProcessJob

VARIABLES
    main,       \* where each call is
    beat,       \* where its heartbeat is
    expired,    \* its ctx is done: timeout, or the end of the drain
    cancelled,  \* its task context is cancelled by cancel()
    stopRenew,  \* the channel is closed
    renewed,    \* errors waiting in the channel
    refused     \* history: a renewal of this call has failed

vars == <<main, beat, expired, cancelled, stopRenew, renewed, refused>>

Call == 1 .. Calls

Init ==
    /\ main = [k \in Call |-> "none"]
    /\ beat = [k \in Call |-> "none"]
    /\ expired = [k \in Call |-> FALSE]
    /\ cancelled = [k \in Call |-> FALSE]
    /\ stopRenew = [k \in Call |-> FALSE]
    /\ renewed = [k \in Call |-> 0]
    /\ refused = [k \in Call |-> FALSE]

\* <-task.Done() is ready.
TaskDone(k) == cancelled[k] \/ expired[k]

\* Claim has returned a job; the heartbeat is started.
Start(k) ==
    /\ main[k] = "none"
    /\ \A i \in Call : i < k => main[i] = "returned"
    /\ main' = [main EXCEPT ![k] = "handling"]
    /\ beat' = [beat EXCEPT ![k] = "waiting"]
    /\ UNCHANGED <<expired, cancelled, stopRenew, renewed, refused>>

\* JobTimeout passes, or Run cancels execution.
Expire(k) ==
    /\ main[k] \notin {"none", "returned"}
    /\ ~expired[k]
    /\ expired' = [expired EXCEPT ![k] = TRUE]
    /\ UNCHANGED <<main, beat, cancelled, stopRenew, renewed, refused>>

-----------------------------------------------------------------------------
(***************************************************************************)
(* The heartbeat.  Where several cases of its select are ready, any of     *)
(* them may be taken, so a last Renew may follow close(stopRenew).         *)
(***************************************************************************)
\* The ticker fires: Renew is called.
BeatTick(k) ==
    /\ beat[k] = "waiting"
    /\ beat' = [beat EXCEPT ![k] = "renewing"]
    /\ UNCHANGED <<main, expired, cancelled, stopRenew, renewed, refused>>

BeatStops(k) ==
    /\ beat[k] = "waiting"
    /\ TaskDone(k) \/ stopRenew[k]
    /\ beat' = [beat EXCEPT ![k] = "exited"]
    /\ UNCHANGED <<main, expired, cancelled, stopRenew, renewed, refused>>

RenewOk(k) ==
    /\ beat[k] = "renewing"
    /\ beat' = [beat EXCEPT ![k] = "waiting"]
    /\ UNCHANGED <<main, expired, cancelled, stopRenew, renewed, refused>>

\* The lease is lost, MySQL fails, or the context ends under the statement.
RenewFails(k) ==
    /\ beat[k] = "renewing"
    /\ beat' = [beat EXCEPT ![k] = "failed"]
    /\ refused' = [refused EXCEPT ![k] = TRUE]
    /\ UNCHANGED <<main, expired, cancelled, stopRenew, renewed>>

\* Bug variant: a channel without a buffer, and nobody receiving.
RoomNever(k) == FALSE

Room(k) == renewed[k] < 1

\* Bug variant: the error is reported and the handler goes on.
BeatGivesUpQuietly(k) ==
    /\ beat[k] = "failed"
    /\ Room(k)
    /\ renewed' = [renewed EXCEPT ![k] = @ + 1]
    /\ beat' = [beat EXCEPT ![k] = "exited"]
    /\ UNCHANGED <<main, expired, cancelled, stopRenew, refused>>

\* renewed <- e, cancel(), return.
BeatGivesUp(k) ==
    /\ beat[k] = "failed"
    /\ Room(k)
    /\ renewed' = [renewed EXCEPT ![k] = @ + 1]
    /\ cancelled' = [cancelled EXCEPT ![k] = TRUE]
    /\ beat' = [beat EXCEPT ![k] = "exited"]
    /\ UNCHANGED <<main, expired, stopRenew, refused>>

-----------------------------------------------------------------------------
(***************************************************************************)
(* ProcessJob itself.                                                      *)
(***************************************************************************)
\* The handler returns; close(stopRenew).
HandlerReturns(k) ==
    /\ main[k] = "handling"
    /\ main' = [main EXCEPT ![k] = "stopping"]
    /\ stopRenew' = [stopRenew EXCEPT ![k] = TRUE]
    /\ UNCHANGED <<beat, expired, cancelled, renewed, refused>>

\* Bug variant: a panic leaves the task context alone.
HandlerPanicsOnly(k) ==
    /\ main[k] = "handling"
    /\ main' = [main EXCEPT ![k] = "returned"]
    /\ UNCHANGED <<beat, expired, cancelled, stopRenew, renewed, refused>>

\* The handler panics: the deferred cancel runs, recover() makes it an error.
HandlerPanics(k) ==
    /\ main[k] = "handling"
    /\ main' = [main EXCEPT ![k] = "returned"]
    /\ cancelled' = [cancelled EXCEPT ![k] = TRUE]
    /\ UNCHANGED <<beat, expired, stopRenew, renewed, refused>>

\* Bug variant: ProcessJob does not wait for the heartbeat.
BeatDoneAlways(k) == TRUE

\* <-done is ready.
BeatDone(k) == beat[k] = "exited"

\* Nothing stands in the way of an outcome: no error in renewed, ctx not done.
Proceed(k) == renewed[k] = 0 /\ ~expired[k]

\* <-done; cancel(); the outcome is persisted, or the call returns an error.
BeatAwaited(k) ==
    /\ main[k] = "stopping"
    /\ BeatDone(k)
    /\ cancelled' = [cancelled EXCEPT ![k] = TRUE]
    /\ renewed' = [renewed EXCEPT ![k] = 0]
    /\ main' = [main EXCEPT ![k] = IF Proceed(k) THEN "finishing" ELSE "returned"]
    /\ UNCHANGED <<beat, expired, stopRenew, refused>>

\* Finish commits, or fails: the fence refuses it, MySQL or ctx fails.
FinishReturns(k) ==
    /\ main[k] = "finishing"
    /\ main' = [main EXCEPT ![k] = "returned"]
    /\ UNCHANGED <<beat, expired, cancelled, stopRenew, renewed, refused>>

-----------------------------------------------------------------------------
\* A step of a call that has been started.
Goes(k) ==
    \/ Expire(k)
    \/ BeatTick(k) \/ BeatStops(k) \/ RenewOk(k) \/ RenewFails(k) \/ BeatGivesUp(k)
    \/ HandlerReturns(k) \/ HandlerPanics(k) \/ BeatAwaited(k) \/ FinishReturns(k)

Next == \E k \in Call : Start(k) \/ Goes(k)

Spec == Init /\ [][Next]_vars

(***************************************************************************)
(* Go runs goroutines that can run, and database calls return.  A handler  *)
(* returns when its context is done ("handlers must respect context        *)
(* cancellation"), and is not assumed to return before.  A select with     *)
(* stopRenew or Done ready does not take the ticker's case every time.     *)
(***************************************************************************)
Fairness ==
    \A k \in Call :
        /\ SF_vars(BeatStops(k))
        /\ WF_vars(RenewOk(k) \/ RenewFails(k))
        /\ WF_vars(BeatGivesUp(k))
        /\ WF_vars(TaskDone(k) /\ HandlerReturns(k))
        /\ WF_vars(BeatAwaited(k))
        /\ WF_vars(FinishReturns(k))

-----------------------------------------------------------------------------
\* Every variable has its type.
TypeOK ==
    /\ main \in [Call -> {"none", "handling", "stopping", "finishing", "returned"}]
    /\ beat \in [Call -> {"none", "waiting", "renewing", "failed", "exited"}]
    /\ expired \in [Call -> BOOLEAN]
    /\ cancelled \in [Call -> BOOLEAN]
    /\ stopRenew \in [Call -> BOOLEAN]
    /\ renewed \in [Call -> 0 .. 1]
    /\ refused \in [Call -> BOOLEAN]

\* Finish is called only when every renewal of the call has succeeded and none
\* is in progress or still to come: the handler's result is never persisted
\* after its lease is known to be lost, however late the refusal arrives.
FinishUnrefused ==
    \A k \in Call : main[k] = "finishing" => ~refused[k] /\ beat[k] = "exited"

\* A refused renewal ends the call, without waiting for the job's timeout: the
\* heartbeat gets rid of its error and cancels the handler, and neither of the
\* goroutines waits for the other forever.
LostLeaseEndsCall ==
    \A k \in Call : (refused[k] /\ main[k] # "none") ~> main[k] = "returned"

\* No goroutine is leaked, not even by a panic or while Renew is under way.
HeartbeatEnds ==
    \A k \in Call : main[k] = "returned" ~> beat[k] = "exited"

\* The timeout, or the end of the drain, ends the call, whatever it was doing.
TimeoutEndsCall ==
    \A k \in Call : expired[k] ~> main[k] = "returned"

=============================================================================
