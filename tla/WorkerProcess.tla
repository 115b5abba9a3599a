---------------------------- MODULE WorkerProcess ----------------------------
(***************************************************************************)
(* The life of a worker process: Run starts the read loops one after the   *)
(* other and then the dispatcher, waits for all of them, and a watcher     *)
(* cancels what is still executing when ShutdownTimeout has passed after a *)
(* stop.  The goroutines share two contexts, stop (a signal, or the health *)
(* server failing) and execution, and the channel drained.                 *)
(*                                                                         *)
(* A test of stop.Err() and what follows it are two steps: the signal may  *)
(* arrive in between.  What the calls do to Redis and MySQL is in modules  *)
(* ConsumerGroup and JobStore; here they return, in one way or another.    *)
(* When Run has returned the process soon ends; what still runs then may   *)
(* stop at any point, so the end of the process needs no action.           *)
(***************************************************************************)
EXTENDS Naturals

CONSTANTS
    WorkerCount, \* cfg.WorkerCount
    BatchSize    \* bound on the entries one recovery scan returns

ASSUME ProcessAssumption == WorkerCount \in Nat \ {0} /\ BatchSize \in Nat

VARIABLES
    run,        \* where Run is
    started,    \* the read loops it has started
    stop,       \* context stop is done
    cancelled,  \* context execution is done
    drained,    \* the channel is closed
    watcher,    \* the goroutine that bounds the drain
    loop,       \* the read loops
    disp,       \* the dispatcher's loop
    timedOut,   \* history: ShutdownTimeout has passed after the stop
    begun       \* history: deliveries each loop began to handle after the stop

vars == <<run, started, stop, cancelled, drained, watcher, loop, disp, timedOut, begun>>

Loops == 1 .. WorkerCount

\* pc "begin" is after the last test of stop, before the call of handle; left
\* counts the entries of a recovery scan that are still to be handled.
Loop == [pc: {"none", "top", "claiming", "batch", "recovered", "reading", "got",
              "begin", "handling", "pausing", "exited"},
         recovering: BOOLEAN, left: 0 .. BatchSize]

At(pc) == [pc |-> pc, recovering |-> FALSE, left |-> 0]

Init ==
    /\ run = "starting"
    /\ started = 0
    /\ stop = FALSE
    /\ cancelled = FALSE
    /\ drained = FALSE
    /\ watcher = "watching"
    /\ loop = [c \in Loops |-> At("none")]
    /\ disp = "none"
    /\ timedOut = FALSE
    /\ begun = [c \in Loops |-> 0]

\* SIGINT, SIGTERM, or the health server cannot listen.
Stop ==
    /\ ~stop
    /\ stop' = TRUE
    /\ UNCHANGED <<run, started, cancelled, drained, watcher, loop, disp, timedOut, begun>>

-----------------------------------------------------------------------------
(***************************************************************************)
(* Run.                                                                    *)
(***************************************************************************)
\* EnsureConsumerGroup succeeds and the next loop is started.
StartLoop ==
    /\ run = "starting" /\ started < WorkerCount
    /\ started' = started + 1
    /\ loop' = [loop EXCEPT ![started + 1] = At("top")]
    /\ UNCHANGED <<run, stop, cancelled, drained, watcher, disp, timedOut, begun>>

\* The deferred close(drained) and cancel().
Return(how) ==
    /\ run' = how
    /\ drained' = TRUE
    /\ cancelled' = TRUE

\* EnsureConsumerGroup fails, for instance because stop is done: Run returns
\* without waiting for the loops it has started.
StartFails ==
    /\ run = "starting" /\ started < WorkerCount
    /\ Return("failed")
    /\ UNCHANGED <<started, stop, watcher, loop, disp, timedOut, begun>>

StartDispatcher ==
    /\ run = "starting" /\ started = WorkerCount
    /\ run' = "waiting"
    /\ disp' = "top"
    /\ UNCHANGED <<started, stop, cancelled, drained, watcher, loop, timedOut, begun>>

\* Bug variant: the loops are not in the WaitGroup.
AllDoneDispatcherOnly == disp = "exited"

AllDone == disp = "exited" /\ \A c \in Loops : loop[c].pc = "exited"

\* wg.Wait() returns.
WaitReturns ==
    /\ run = "waiting"
    /\ AllDone
    /\ Return("returned")
    /\ UNCHANGED <<started, stop, watcher, loop, disp, timedOut, begun>>

-----------------------------------------------------------------------------
(***************************************************************************)
(* The watcher; where both of its cases are ready it may take either.      *)
(***************************************************************************)
WatcherArms ==
    /\ watcher = "watching"
    /\ stop
    /\ watcher' = "timing"
    /\ UNCHANGED <<run, started, stop, cancelled, drained, loop, disp, timedOut, begun>>

WatcherDrained ==
    /\ watcher \in {"watching", "timing"}
    /\ drained
    /\ watcher' = "exited"
    /\ UNCHANGED <<run, started, stop, cancelled, drained, loop, disp, timedOut, begun>>

\* ShutdownTimeout has passed: execution is cancelled.
TimerFires ==
    /\ watcher = "timing"
    /\ watcher' = "exited"
    /\ timedOut' = TRUE
    /\ cancelled' = TRUE
    /\ UNCHANGED <<run, started, stop, drained, loop, disp, begun>>

-----------------------------------------------------------------------------
(***************************************************************************)
(* The read loops: Start, recover and handle.                              *)
(***************************************************************************)
Goes(c, l) ==
    /\ loop' = [loop EXCEPT ![c] = l]
    /\ UNCHANGED <<run, started, stop, cancelled, drained, watcher, disp, timedOut, begun>>

\* for stop.Err() == nil; a recovery is due or not.
Head(c) ==
    /\ loop[c].pc = "top"
    /\ IF stop THEN Goes(c, At("exited")) ELSE Goes(c, At("claiming")) \/ Goes(c, At("reading"))

\* XAUTOCLAIM returns so many entries, or fails.
ClaimReturns(c) ==
    /\ loop[c].pc = "claiming"
    /\ \E n \in 0 .. BatchSize :
          Goes(c, [pc |-> "batch", recovering |-> TRUE, left |-> n])

\* Bug variant: only execution is tested between the entries of a scan.
GoesOnUntilCancelled(c) == loop[c].left > 0 /\ ~cancelled

\* recover goes on with the next entry of the scan.
GoesOn(c) == loop[c].left > 0 /\ ~cancelled /\ ~stop

NextClaimed(c) ==
    /\ loop[c].pc = "batch"
    /\ IF GoesOn(c)
       THEN Goes(c, [pc |-> "begin", recovering |-> TRUE, left |-> loop[c].left - 1])
       ELSE Goes(c, At("recovered"))

Recovered(c) ==
    /\ loop[c].pc = "recovered"
    /\ Goes(c, At(IF stop THEN "exited" ELSE "reading"))

\* XREADGROUP returns an entry, nothing within its second, or an error.
ReadReturns(c) ==
    /\ loop[c].pc = "reading"
    /\ \/ Goes(c, At("got"))
       \/ Goes(c, At(IF stop THEN "exited" ELSE "top"))
       \/ Goes(c, At(IF stop THEN "exited" ELSE "pausing"))

\* The second after an error, or stop, whichever is first.
PauseEnds(c) ==
    /\ loop[c].pc = "pausing"
    /\ Goes(c, At("top")) \/ (stop /\ Goes(c, At("exited")))

\* The entry read is dropped on a stop; it stays pending.
Got(c) ==
    /\ loop[c].pc = "got"
    /\ Goes(c, At(IF stop THEN "exited" ELSE "begin"))

\* handle is called.
Begin(c) ==
    /\ loop[c].pc = "begin"
    /\ loop' = [loop EXCEPT ![c].pc = "handling"]
    /\ begun' = [begun EXCEPT ![c] = IF stop THEN @ + 1 ELSE @]
    /\ UNCHANGED <<run, started, stop, cancelled, drained, watcher, disp, timedOut>>

\* handle returns.
HandleEnds(c) ==
    /\ loop[c].pc = "handling"
    /\ Goes(c, [loop[c] EXCEPT !.pc = IF loop[c].recovering THEN "batch" ELSE "top"])

LoopStep(c) ==
    \/ Head(c) \/ ClaimReturns(c) \/ NextClaimed(c) \/ Recovered(c)
    \/ ReadReturns(c) \/ PauseEnds(c) \/ Got(c) \/ Begin(c)

-----------------------------------------------------------------------------
(***************************************************************************)
(* The dispatcher's loop: again at once while there is more, otherwise, or *)
(* after an error, in 250 ms.                                              *)
(***************************************************************************)
DispGoes(to) ==
    /\ disp' = to
    /\ UNCHANGED <<run, started, stop, cancelled, drained, watcher, loop, timedOut, begun>>

DispStep ==
    \/ disp = "top" /\ DispGoes(IF stop THEN "exited" ELSE "dispatching")
    \/ disp = "dispatching" /\ (DispGoes("top") \/ DispGoes("sleeping"))
    \/ disp = "sleeping" /\ (DispGoes("top") \/ (stop /\ DispGoes("exited")))

-----------------------------------------------------------------------------
RunStep == StartLoop \/ StartFails \/ StartDispatcher \/ WaitReturns

WatcherStep == WatcherArms \/ WatcherDrained \/ TimerFires

Next ==
    \/ Stop \/ RunStep \/ WatcherStep \/ DispStep
    \/ \E c \in Loops : LoopStep(c) \/ HandleEnds(c)

Spec == Init /\ [][Next]_vars

(***************************************************************************)
(* Fairness.  Goroutines that can run do, calls of Redis and MySQL return  *)
(* (all have deadlines), the timer fires.  handle is only assumed to       *)
(* return when its context is done: "cancellation is cooperative".         *)
(***************************************************************************)
GoroutinesRun ==
    /\ WF_vars(RunStep) /\ WF_vars(WatcherStep) /\ WF_vars(DispStep)
    /\ \A c \in Loops : WF_vars(LoopStep(c))

Cooperates(c) == WF_vars(cancelled /\ HandleEnds(c))

FairSpec == Spec /\ GoroutinesRun /\ \A c \in Loops : Cooperates(c)

-----------------------------------------------------------------------------
\* Every variable has its type.
TypeOK ==
    /\ run \in {"starting", "waiting", "returned", "failed"}
    /\ started \in 0 .. WorkerCount
    /\ stop \in BOOLEAN
    /\ cancelled \in BOOLEAN
    /\ drained \in BOOLEAN
    /\ watcher \in {"watching", "timing", "exited"}
    /\ loop \in [Loops -> Loop]
    /\ disp \in {"none", "top", "dispatching", "sleeping", "exited"}
    /\ timedOut \in BOOLEAN
    /\ begun \in [Loops -> Nat]

\* "Shutdown stops acquisition": after the stop a loop begins to handle at most
\* the one delivery it was about to, however many a recovery scan has taken.
OneMoreAfterStop == \A c \in Loops : begun[c] <= 1

Handling == \E c \in Loops : loop[c].pc \in {"begin", "handling"}

\* A process that has started up cancels nobody's execution before the drain
\* period is over: neither the stop nor the end of Run gets there first.
DrainGiven == run # "failed" /\ cancelled => timedOut \/ ~Handling

\* The stop ends Run, whatever the loops are doing and however long handlers
\* would like to go on: nothing waits for anything forever.
StopEndsRun == stop ~> run \in {"returned", "failed"}

\* "Shutdown ... gives cooperative handlers a bounded drain period" (README.md):
\* after a stop, what is executing is cancelled only when that period is over.
\* A stop that meets Run while it still starts loops makes EnsureConsumerGroup
\* fail, and the loops started before are cancelled at once.
DrainAlwaysGiven ==
    [][stop /\ (\E c \in Loops : loop[c].pc = "handling") /\ cancelled' # cancelled
          => timedOut']_vars

=============================================================================
