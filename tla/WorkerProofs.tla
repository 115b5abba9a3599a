----------------------------- MODULE WorkerProofs -----------------------------
(***************************************************************************)
(* A worker process, for any number of read loops, any size of a recovery  *)
(* scan and any number of jobs: what a stop does to the work in progress,  *)
(* that no outcome is persisted after a refused renewal, and that putting  *)
(* the two together takes nothing away from either.  The steps of Worker   *)
(* are steps of WorkerProcess and of Heartbeat; the end of the drain is    *)
(* one of both.                                                            *)
(***************************************************************************)
EXTENDS Worker, TLAPS

(***************************************************************************)
(* WorkerProcess.                                                          *)
(***************************************************************************)
\* Nothing is counted before the stop, and a loop that has begun a delivery
\* after it is past the last call of handle.
BegunInv ==
    \A c \in Loops :
        /\ begun[c] <= 1
        /\ ~stop => begun[c] = 0
        /\ begun[c] = 1 => loop[c].pc # "begin"

\* Only the timer and the end of Run cancel, and Run ends orderly when all
\* loops have ended.
DrainInv ==
    /\ cancelled => timedOut \/ run \in {"returned", "failed"}
    /\ run = "returned" => \A c \in Loops : loop[c].pc = "exited"

IInv == TypeOK /\ BegunInv /\ DrainInv

-----------------------------------------------------------------------------
LEMMA AtType ==
    ASSUME NEW pc \in {"none", "top", "claiming", "batch", "recovered", "reading",
                       "got", "begin", "handling", "pausing", "exited"}
    PROVE  At(pc) \in Loop /\ At(pc).pc = pc
BY ProcessAssumption DEF At, Loop, ProcessAssumption

\* A loop that goes on keeps the invariant, unless it has ended, or goes to the
\* call of handle although stop is done.
LEMMA GoesStep ==
    ASSUME IInv, NEW c \in Loops, NEW l \in Loop, Goes(c, l),
           loop[c].pc # "exited",
           l.pc = "begin" => ~stop
    PROVE  IInv'
<1>1. loop' \in [Loops -> Loop] /\ loop'[c] = l
      /\ \A d \in Loops : d # c => loop'[d] = loop[d]
  BY DEF IInv, TypeOK, Goes
<1>2. TypeOK'
  BY <1>1 DEF IInv, TypeOK, Goes
<1>3. BegunInv'
  <2>. SUFFICES ASSUME NEW d \in Loops
                PROVE  /\ begun[d] <= 1
                       /\ ~stop => begun[d] = 0
                       /\ begun[d] = 1 => loop'[d].pc # "begin"
    BY DEF BegunInv, Goes
  <2>1. begun[d] <= 1 /\ (~stop => begun[d] = 0)
    BY DEF IInv, BegunInv
  <2>2. CASE d = c
    BY <1>1, <2>1, <2>2
  <2>3. CASE d # c
    BY <1>1, <2>1, <2>3 DEF IInv, BegunInv
  <2>. QED  BY <2>2, <2>3
<1>4. DrainInv'
  <2>1. run # "returned"
    BY DEF IInv, DrainInv
  <2>. QED  BY <2>1 DEF IInv, DrainInv, Goes
<1>. QED  BY <1>2, <1>3, <1>4 DEF IInv

\* Run, the watcher, the dispatcher and the signal: loops do not move, and what
\* has begun after the stop is not counted here.
LEMMA OtherStep ==
    ASSUME IInv, TypeOK', UNCHANGED <<loop, begun>>, stop => stop',
           cancelled' => timedOut' \/ run' \in {"returned", "failed"},
           run' = "returned" => run = "returned" \/ AllDone
    PROVE  IInv'
<1>1. BegunInv'
  BY DEF IInv, BegunInv
<1>2. DrainInv'
  BY DEF IInv, DrainInv, AllDone
<1>. QED  BY <1>1, <1>2 DEF IInv

LEMMA RunSteps == ASSUME IInv, RunStep PROVE IInv'
<1>1. CASE StartLoop
  <2>1. started + 1 \in Loops /\ started + 1 \in 0 .. WorkerCount
    BY <1>1, ProcessAssumption DEF StartLoop, IInv, TypeOK, Loops, ProcessAssumption
  <2>2. PICK c \in Loops : c = started + 1
    BY <2>1
  <2>3. At("top") \in Loop /\ At("top").pc = "top"
    BY AtType
  <2>4. loop' \in [Loops -> Loop]
        /\ \A d \in Loops : loop'[d].pc = "top" \/ loop'[d] = loop[d]
    BY <1>1, <2>2, <2>3 DEF StartLoop, IInv, TypeOK
  <2>5. TypeOK'
    BY <1>1, <2>1, <2>4 DEF StartLoop, IInv, TypeOK
  <2>6. BegunInv'
    BY <1>1, <2>4 DEF StartLoop, IInv, BegunInv
  <2>7. DrainInv'
    BY <1>1 DEF StartLoop, IInv, DrainInv
  <2>. QED  BY <2>5, <2>6, <2>7 DEF IInv
<1>2. CASE StartFails
  <2>1. TypeOK'
    BY <1>2 DEF StartFails, Return, IInv, TypeOK
  <2>. QED  BY <1>2, <2>1, OtherStep DEF StartFails, Return
<1>3. CASE StartDispatcher
  <2>1. TypeOK'
    BY <1>3 DEF StartDispatcher, IInv, TypeOK
  <2>. QED  BY <1>3, <2>1, OtherStep DEF StartDispatcher, IInv, DrainInv
<1>4. CASE WaitReturns
  <2>1. TypeOK'
    BY <1>4 DEF WaitReturns, Return, IInv, TypeOK
  <2>. QED  BY <1>4, <2>1, OtherStep DEF WaitReturns, Return
<1>. QED  BY <1>1, <1>2, <1>3, <1>4 DEF RunStep

LEMMA WatcherSteps == ASSUME IInv, WatcherStep PROVE IInv'
<1>1. CASE WatcherArms \/ WatcherDrained
  <2>1. TypeOK'
    BY <1>1 DEF WatcherArms, WatcherDrained, IInv, TypeOK
  <2>. QED  BY <1>1, <2>1, OtherStep DEF WatcherArms, WatcherDrained, IInv, DrainInv
<1>2. CASE TimerFires
  <2>1. TypeOK'
    BY <1>2 DEF TimerFires, IInv, TypeOK
  <2>. QED  BY <1>2, <2>1, OtherStep DEF TimerFires
<1>. QED  BY <1>1, <1>2 DEF WatcherStep

LEMMA DispSteps == ASSUME IInv, DispStep PROVE IInv'
<1>1. PICK to \in {"top", "dispatching", "sleeping", "exited"} : DispGoes(to)
  BY DEF DispStep, DispGoes
<1>2. TypeOK'
  BY <1>1 DEF DispGoes, IInv, TypeOK
<1>. QED  BY <1>1, <1>2, OtherStep DEF DispGoes, IInv, DrainInv

LEMMA LoopSteps ==
    ASSUME IInv, NEW c \in Loops, LoopStep(c) \/ HandleEnds(c)
    PROVE  IInv'
<1>1. loop[c] \in Loop
  BY DEF IInv, TypeOK
<1>2. CASE Head(c)
  <2>1. PICK pc \in {"exited", "claiming", "reading"} : Goes(c, At(pc))
    BY <1>2 DEF Head
  <2>. QED  BY <1>2, <2>1, GoesStep, AtType DEF Head
<1>3. CASE ClaimReturns(c)
  <2>1. PICK n \in 0 .. BatchSize :
           Goes(c, [pc |-> "batch", recovering |-> TRUE, left |-> n])
    BY <1>3 DEF ClaimReturns
  <2>2. [pc |-> "batch", recovering |-> TRUE, left |-> n] \in Loop
    BY DEF Loop
  <2>. QED  BY <1>3, <2>1, <2>2, GoesStep DEF ClaimReturns
<1>4. CASE NextClaimed(c)
  <2>1. CASE GoesOn(c)
    <3>1. loop[c].left - 1 \in 0 .. BatchSize
      BY <1>1, <2>1, ProcessAssumption DEF GoesOn, Loop, ProcessAssumption
    <3>2. PICK n \in 0 .. BatchSize : n = loop[c].left - 1
      BY <3>1
    <3>3. [pc |-> "begin", recovering |-> TRUE, left |-> n] \in Loop
      BY DEF Loop
    <3>. QED  BY <1>4, <2>1, <3>2, <3>3, GoesStep DEF NextClaimed, GoesOn
  <2>2. CASE ~GoesOn(c)
    BY <1>4, <2>2, GoesStep, AtType DEF NextClaimed
  <2>. QED  BY <2>1, <2>2
<1>5. CASE Recovered(c)
  <2>1. PICK pc \in {"exited", "reading"} : Goes(c, At(pc))
    BY <1>5 DEF Recovered
  <2>. QED  BY <1>5, <2>1, GoesStep, AtType DEF Recovered
<1>6. CASE ReadReturns(c)
  <2>1. PICK pc \in {"got", "exited", "top", "pausing"} : Goes(c, At(pc))
    BY <1>6 DEF ReadReturns
  <2>. QED  BY <1>6, <2>1, GoesStep, AtType DEF ReadReturns
<1>7. CASE PauseEnds(c)
  <2>1. PICK pc \in {"exited", "top"} : Goes(c, At(pc))
    BY <1>7 DEF PauseEnds
  <2>. QED  BY <1>7, <2>1, GoesStep, AtType DEF PauseEnds
<1>8. CASE Got(c)
  <2>1. CASE stop
    BY <1>8, <2>1, GoesStep, AtType DEF Got
  <2>2. CASE ~stop
    BY <1>8, <2>2, GoesStep, AtType DEF Got
  <2>. QED  BY <2>1, <2>2
<1>9. CASE Begin(c)
  <2>1. loop' \in [Loops -> Loop] /\ loop'[c].pc = "handling"
        /\ \A d \in Loops : d # c => loop'[d] = loop[d]
    <3>1. [loop[c] EXCEPT !.pc = "handling"] \in Loop
      BY <1>1 DEF Loop
    <3>. QED  BY <1>9, <3>1 DEF Begin, IInv, TypeOK, Loop
  <2>2. begun[c] = 0
    BY <1>9 DEF Begin, IInv, BegunInv, TypeOK
  <2>3. begun' \in [Loops -> Nat] /\ (begun'[c] = IF stop THEN 1 ELSE 0)
        /\ \A d \in Loops : d # c => begun'[d] = begun[d]
    BY <1>9, <2>2 DEF Begin, IInv, TypeOK
  <2>4. TypeOK'
    BY <1>9, <2>1, <2>3 DEF Begin, IInv, TypeOK
  <2>5. BegunInv'
    BY <1>9, <2>1, <2>3 DEF Begin, IInv, BegunInv
  <2>6. DrainInv'
    <3>1. run # "returned"
      BY <1>9 DEF Begin, IInv, DrainInv
    <3>. QED  BY <1>9, <3>1 DEF Begin, IInv, DrainInv
  <2>. QED  BY <2>4, <2>5, <2>6 DEF IInv
<1>10. CASE HandleEnds(c)
  <2>1. PICK pc \in {"batch", "top"} :
           Goes(c, [pc |-> pc, recovering |-> loop[c].recovering, left |-> loop[c].left])
    BY <1>1, <1>10 DEF HandleEnds, Loop
  <2>2. [pc |-> pc, recovering |-> loop[c].recovering, left |-> loop[c].left] \in Loop
    BY <1>1 DEF Loop
  <2>. QED  BY <1>10, <2>1, <2>2, GoesStep DEF HandleEnds
<1>. QED  BY <1>2, <1>3, <1>4, <1>5, <1>6, <1>7, <1>8, <1>9, <1>10 DEF LoopStep

-----------------------------------------------------------------------------
\* The inductive invariant holds in every reachable state of a worker process.
THEOREM Invariance == Spec => []IInv
<1>1. Init => IInv
  <2>. SUFFICES ASSUME Init PROVE IInv
    OBVIOUS
  <2>1. At("none") \in Loop /\ At("none").pc = "none"
    BY AtType
  <2>2. TypeOK
    <3>1. started \in 0 .. WorkerCount
      BY ProcessAssumption DEF Init, ProcessAssumption
    <3>2. loop \in [Loops -> Loop]
      BY <2>1 DEF Init
    <3>3. begun \in [Loops -> Nat]
      BY DEF Init
    <3>. QED  BY <3>1, <3>2, <3>3 DEF Init, TypeOK
  <2>3. BegunInv
    BY <2>1 DEF Init, BegunInv
  <2>4. DrainInv
    BY DEF Init, DrainInv
  <2>. QED  BY <2>2, <2>3, <2>4 DEF IInv
<1>2. IInv /\ [Next]_vars => IInv'
  <2>. SUFFICES ASSUME IInv, [Next]_vars PROVE IInv'
    OBVIOUS
  <2>1. CASE Stop
    <3>1. TypeOK'
      BY <2>1 DEF Stop, IInv, TypeOK
    <3>. QED  BY <2>1, <3>1, OtherStep DEF Stop, IInv, DrainInv
  <2>2. CASE RunStep
    BY <2>2, RunSteps
  <2>3. CASE WatcherStep
    BY <2>3, WatcherSteps
  <2>4. CASE DispStep
    BY <2>4, DispSteps
  <2>5. ASSUME NEW c \in Loops, LoopStep(c) \/ HandleEnds(c) PROVE IInv'
    BY <2>5, LoopSteps
  <2>6. CASE UNCHANGED vars
    BY <2>6 DEF vars, IInv, TypeOK, BegunInv, DrainInv
  <2>. QED  BY <2>1, <2>2, <2>3, <2>4, <2>5, <2>6 DEF Next
<1>. QED  BY <1>1, <1>2, PTL DEF Spec

\* Every variable of the worker process keeps its type.
THEOREM TypeCorrect == Spec => []TypeOK
BY Invariance, PTL DEF IInv

\* After a stop no loop begins more than the one delivery it was about to begin.
THEOREM AcquisitionStops == Spec => []OneMoreAfterStop
<1>1. IInv => OneMoreAfterStop
  BY DEF IInv, BegunInv, OneMoreAfterStop
<1>. QED  BY <1>1, Invariance, PTL

\* A process that has started up cancels no execution before ShutdownTimeout.
THEOREM DrainIsGiven == Spec => []DrainGiven
<1>1. IInv => DrainGiven
  BY DEF IInv, DrainInv, DrainGiven, Handling
<1>. QED  BY <1>1, Invariance, PTL

-----------------------------------------------------------------------------
(***************************************************************************)
(* Heartbeat.                                                              *)
(***************************************************************************)
\* A call that has not begun has no heartbeat.
NoneInv(k) == main[k] = "none" => beat[k] = "none" /\ ~refused[k]

\* A refusal is on its way to ProcessJob until the call has returned.
RefusedInv(k) ==
    refused[k] => \/ beat[k] = "failed"
                  \/ beat[k] = "exited" /\ renewed[k] = 1
                  \/ main[k] = "returned"

FinishInv(k) == main[k] = "finishing" => ~refused[k] /\ beat[k] = "exited"

CallInv(k) == NoneInv(k) /\ RefusedInv(k) /\ FinishInv(k)

CallsInv == Job!TypeOK /\ \A k \in Job!Call : CallInv(k)

-----------------------------------------------------------------------------
\* The steps of one call leave every other call as it is.
Others(k) ==
    \A i \in Job!Call : i # k =>
        /\ main'[i] = main[i] /\ beat'[i] = beat[i]
        /\ renewed'[i] = renewed[i] /\ refused'[i] = refused[i]

LEMMA OneCall ==
    ASSUME CallsInv, Job!TypeOK', NEW k \in Job!Call, Others(k), CallInv(k)'
    PROVE  CallsInv'
<1> SUFFICES ASSUME NEW i \in Job!Call PROVE CallInv(i)'
  BY DEF CallsInv
<1>1. CASE i = k
  BY <1>1
<1>2. CASE i # k
  BY <1>2 DEF Others, CallsInv, CallInv, NoneInv, RefusedInv, FinishInv
<1> QED
  BY <1>1, <1>2

\* The steps of the heartbeat.
LEMMA BeatSteps ==
    ASSUME CallsInv, NEW k \in Job!Call,
           Job!BeatTick(k) \/ Job!BeatStops(k) \/ Job!RenewOk(k) \/ Job!RenewFails(k) \/ Job!BeatGivesUp(k)
    PROVE  CallsInv'
<1>1. CASE Job!BeatTick(k) \/ Job!BeatStops(k) \/ Job!RenewOk(k)
  <2>1. Job!TypeOK' /\ Others(k)
    BY <1>1 DEF Job!BeatTick, Job!BeatStops, Job!RenewOk, CallsInv, Job!TypeOK, Others
  <2>2. CallInv(k)'
    BY <1>1 DEF Job!BeatTick, Job!BeatStops, Job!RenewOk, CallsInv, Job!TypeOK, CallInv, NoneInv,
                RefusedInv, FinishInv
  <2> QED
    BY <2>1, <2>2, OneCall
<1>2. CASE Job!RenewFails(k)
  <2>1. Job!TypeOK' /\ Others(k)
    BY <1>2 DEF Job!RenewFails, CallsInv, Job!TypeOK, Others
  <2>2. CallInv(k)'
    BY <1>2 DEF Job!RenewFails, CallsInv, Job!TypeOK, CallInv, NoneInv, RefusedInv, FinishInv
  <2> QED
    BY <2>1, <2>2, OneCall
<1>3. CASE Job!BeatGivesUp(k)
  <2>1. renewed[k] = 0
    BY <1>3 DEF Job!BeatGivesUp, Job!Room, CallsInv, Job!TypeOK
  <2>2. renewed' = [renewed EXCEPT ![k] = 1]
    BY <1>3, <2>1 DEF Job!BeatGivesUp
  <2>3. renewed' \in [Job!Call -> 0 .. 1]
    BY <2>2 DEF CallsInv, Job!TypeOK
  <2>4. Job!TypeOK' /\ Others(k)
    BY <1>3, <2>2, <2>3 DEF Job!BeatGivesUp, CallsInv, Job!TypeOK, Others
  <2>5. CallInv(k)'
    BY <1>3, <2>2 DEF Job!BeatGivesUp, CallsInv, Job!TypeOK, CallInv, NoneInv, RefusedInv, FinishInv
  <2> QED
    BY <2>4, <2>5, OneCall
<1> QED
  BY <1>1, <1>2, <1>3

\* The steps of ProcessJob itself, and the end of its context.
LEMMA MainSteps ==
    ASSUME CallsInv, NEW k \in Job!Call,
           \/ Job!Start(k) \/ Job!Expire(k) \/ Job!HandlerReturns(k) \/ Job!HandlerPanics(k)
           \/ Job!BeatAwaited(k) \/ Job!FinishReturns(k)
    PROVE  CallsInv'
<1>1. CASE Job!Start(k)
  <2>1. Job!TypeOK' /\ Others(k)
    BY <1>1 DEF Job!Start, CallsInv, Job!TypeOK, Others
  <2>2. CallInv(k)'
    BY <1>1 DEF Job!Start, CallsInv, Job!TypeOK, CallInv, NoneInv, RefusedInv, FinishInv
  <2> QED
    BY <2>1, <2>2, OneCall
<1>2. CASE Job!Expire(k)
  <2>1. Job!TypeOK' /\ Others(k)
    BY <1>2 DEF Job!Expire, CallsInv, Job!TypeOK, Others
  <2>2. CallInv(k)'
    BY <1>2 DEF Job!Expire, CallsInv, CallInv, NoneInv, RefusedInv, FinishInv
  <2> QED
    BY <2>1, <2>2, OneCall
<1>3. CASE Job!HandlerReturns(k) \/ Job!HandlerPanics(k) \/ Job!FinishReturns(k)
  <2>1. Job!TypeOK' /\ Others(k)
    BY <1>3 DEF Job!HandlerReturns, Job!HandlerPanics, Job!FinishReturns, CallsInv, Job!TypeOK, Others
  <2>2. CallInv(k)'
    BY <1>3 DEF Job!HandlerReturns, Job!HandlerPanics, Job!FinishReturns, CallsInv, Job!TypeOK, CallInv,
                NoneInv, RefusedInv, FinishInv
  <2> QED
    BY <2>1, <2>2, OneCall
<1>4. CASE Job!BeatAwaited(k)
  <2>1. PICK pc \in {"finishing", "returned"} :
           pc = IF Job!Proceed(k) THEN "finishing" ELSE "returned"
    OBVIOUS
  <2>2. main' = [main EXCEPT ![k] = pc]
    BY <1>4, <2>1 DEF Job!BeatAwaited
  <2>3. Job!TypeOK' /\ Others(k)
    BY <1>4, <2>2 DEF Job!BeatAwaited, CallsInv, Job!TypeOK, Others
  <2>4. beat[k] = "exited" /\ main[k] = "stopping"
    BY <1>4 DEF Job!BeatAwaited, Job!BeatDone
  <2>5. pc = "finishing" => renewed[k] = 0
    BY <2>1 DEF Job!Proceed
  <2>6. pc = "finishing" => ~refused[k]
    BY <2>4, <2>5 DEF CallsInv, CallInv, RefusedInv
  <2>7. main'[k] = pc /\ beat'[k] = "exited" /\ refused'[k] = refused[k]
    BY <1>4, <2>2, <2>4 DEF Job!BeatAwaited, CallsInv, Job!TypeOK
  <2>8. CallInv(k)'
    BY <2>6, <2>7 DEF CallInv, NoneInv, RefusedInv, FinishInv
  <2> QED
    BY <2>3, <2>8, OneCall
<1> QED
  BY <1>1, <1>2, <1>3, <1>4

\* The calls of ProcessJob follow each other, so at most one is under way and the
\* end of execution is the end of no more than one context.
Serial ==
    \A i, k \in Job!Call : i < k /\ main[k] # "none" => main[i] = "returned"

WInv == CallsInv /\ Serial

LEMMA SerialStep ==
    ASSUME WInv, [Job!Next]_(Job!vars)
    PROVE  Serial'
<1>0. main \in [Job!Call -> {"none", "handling", "stopping", "finishing", "returned"}]
  BY DEF WInv, CallsInv, Job!TypeOK, Job!Call
<1>1. CASE UNCHANGED main  BY <1>1 DEF WInv, Serial
<1>2. ASSUME NEW k \in Job!Call, Job!Start(k)  PROVE Serial'
  BY <1>0, <1>2 DEF WInv, Serial, Job!Start, Job!Call
<1>3. ASSUME NEW k \in Job!Call, Job!Goes(k), ~UNCHANGED main  PROVE Serial'
  <2>1. main[k] \in {"handling", "stopping", "finishing"}
    BY <1>3 DEF Job!Goes, Job!Expire, Job!BeatTick, Job!BeatStops, Job!RenewOk,
                Job!RenewFails, Job!BeatGivesUp, Job!HandlerReturns, Job!HandlerPanics,
                Job!BeatAwaited, Job!FinishReturns
  <2>2. PICK pc \in {"stopping", "finishing", "returned"} : main' = [main EXCEPT ![k] = pc]
    BY <1>3 DEF Job!Goes, Job!Expire, Job!BeatTick, Job!BeatStops, Job!RenewOk,
                Job!RenewFails, Job!BeatGivesUp, Job!HandlerReturns, Job!HandlerPanics,
                Job!BeatAwaited, Job!FinishReturns
  <2>. QED  BY <1>0, <2>1, <2>2 DEF WInv, Serial, Job!Call
<1>4. CASE UNCHANGED Job!vars  BY <1>1, <1>4 DEF Job!vars
<1>. QED  BY <1>1, <1>2, <1>3, <1>4 DEF Job!Next

LEMMA CallsInit == Job!Init => WInv
<1>. SUFFICES ASSUME Job!Init PROVE WInv  OBVIOUS
<1>1. CallsInv
  BY DEF Job!Init, CallsInv, Job!TypeOK, CallInv, NoneInv, RefusedInv, FinishInv
<1>2. Serial  BY DEF Job!Init, Serial
<1>. QED  BY <1>1, <1>2 DEF WInv

LEMMA CallsNext ==
    ASSUME WInv, [Job!Next]_(Job!vars)
    PROVE  WInv'
<1>1. CASE Job!Next
  <2>. QED  BY <1>1, BeatSteps, MainSteps, SerialStep DEF WInv, Job!Next, Job!Goes
<1>2. CASE UNCHANGED Job!vars
  <2>1. CallsInv'
    BY <1>2 DEF WInv, Job!vars, CallsInv, Job!TypeOK, CallInv, NoneInv, RefusedInv, FinishInv
  <2>. QED  BY <2>1, SerialStep DEF WInv
<1>. QED  BY <1>1, <1>2

LEMMA CallsUnrefused == WInv => Job!FinishUnrefused
BY DEF WInv, CallsInv, CallInv, FinishInv, Job!FinishUnrefused

\* In any number of calls of ProcessJob, one after the other, with heartbeats that
\* outlive their calls, an outcome is persisted only if no renewal of the call has
\* been refused and none is under way: a refusal reaches ProcessJob first.
THEOREM OutcomesAreUnrefused == Job!Spec => []Job!FinishUnrefused
BY CallsInit, CallsNext, CallsUnrefused, PTL DEF Job!Spec

-----------------------------------------------------------------------------
\* Every step is one of the process, or none.
LEMMA ProcessSteps == [WorkerNext]_<<vars, heartbeat>> => [Next]_vars
<1>. SUFFICES ASSUME [WorkerNext]_<<vars, heartbeat>>  PROVE [Next]_vars  OBVIOUS
<1>0. Detailed \in Loops  BY ProcessAssumption DEF ProcessAssumption, Detailed, Loops
<1>1. CASE ProcessStep  BY <1>1 DEF ProcessStep, Next
<1>2. CASE LoopsGo  BY <1>2 DEF LoopsGo, Next
<1>3. CASE HandleJob  BY <1>0, <1>3 DEF HandleJob, LoopStep, Next
<1>4. CASE HandleReturns  BY <1>0, <1>4 DEF HandleReturns, Next
<1>5. CASE JobStep  BY <1>5 DEF JobStep
<1>. QED  BY <1>1, <1>2, <1>3, <1>4, <1>5 DEF WorkerNext

-----------------------------------------------------------------------------
LEMMA ContextStep ==
    ASSUME WInv, ContextFollows
    PROVE  [Job!Next]_(Job!vars)
<1>1. CASE UNCHANGED heartbeat  BY <1>1 DEF heartbeat, Job!vars
<1>2. CASE cancelled' # cancelled
  <2>1. /\ expired' = [k \in Job!Call |-> expired[k] \/ k \in Executing]
        /\ UNCHANGED <<main, beat, taskCancelled, stopRenew, renewed, refused>>
    BY <1>2 DEF ContextFollows
  <2>2. /\ expired \in [Job!Call -> BOOLEAN]
        /\ main \in [Job!Call -> {"none", "handling", "stopping", "finishing", "returned"}]
    BY DEF WInv, CallsInv, Job!TypeOK, Job!Call
  <2>3. CASE \A k \in Executing : expired[k]
    <3>1. expired' = expired  BY <2>1, <2>2, <2>3
    <3>. QED  BY <2>1, <3>1 DEF Job!vars
  <2>4. CASE \E k \in Executing : ~expired[k]
    <3>1. PICK k \in Executing : ~expired[k]  BY <2>4
    <3>2. k \in Job!Call /\ main[k] \notin {"none", "returned"}
      BY <3>1 DEF Executing
    <3>3. \A i \in Executing : i = k
      BY <3>2 DEF WInv, Serial, Executing, Job!Call
    <3>4. expired' = [expired EXCEPT ![k] = TRUE]
      BY <2>1, <2>2, <3>1, <3>2, <3>3
    <3>5. Job!Expire(k)  BY <2>1, <3>1, <3>2, <3>4 DEF Job!Expire
    <3>. QED  BY <3>2, <3>5 DEF Job!Next, Job!Goes
  <2>. QED  BY <2>3, <2>4
<1>. QED  BY <1>1, <1>2 DEF ContextFollows

\* Every step is one of the calls, or none.
LEMMA CallSteps ==
    ASSUME WInv, [WorkerNext]_<<vars, heartbeat>>
    PROVE  [Job!Next]_(Job!vars)
<1>1. CASE ProcessStep  BY <1>1, ContextStep DEF ProcessStep
<1>2. CASE HandleJob  BY <1>2 DEF HandleJob, Job!Next
<1>3. CASE JobStep  BY <1>3 DEF JobStep, Job!Next
<1>4. CASE UNCHANGED heartbeat  BY <1>4 DEF heartbeat, Job!vars
<1>5. LoopsGo \/ HandleReturns => UNCHANGED heartbeat
  BY DEF LoopsGo, HandleReturns
<1>. QED  BY <1>1, <1>2, <1>3, <1>4, <1>5 DEF WorkerNext

-----------------------------------------------------------------------------
(***************************************************************************)
(* The composition.                                                        *)
(***************************************************************************)
\* The bridge over which WorkerProcess's theorems reach the composition, whose steps
\* are built from WorkerProcess's.
LEMMA ProcessImplemented == WorkerSpec => Spec
<1>1. WorkerInit => Init  BY DEF WorkerInit
<1>. QED  BY <1>1, ProcessSteps, PTL DEF WorkerSpec, Spec

\* At most one call is under way, a refusal is on its way to it until it returns.
THEOREM CallsInvariance == WorkerSpec => []WInv
<1>1. WorkerInit => WInv  BY CallsInit DEF WorkerInit
<1>2. WInv /\ [WorkerNext]_<<vars, heartbeat>> => WInv'  BY CallSteps, CallsNext
<1>. QED  BY <1>1, <1>2, PTL DEF WorkerSpec

\* Stops, drains and other loops do to a call only what Heartbeat allows.
THEOREM CallsImplemented == WorkerSpec => Job!Spec
<1>1. WorkerInit => Job!Init  BY DEF WorkerInit
<1>2. WInv /\ [WorkerNext]_<<vars, heartbeat>> => [Job!Next]_(Job!vars)  BY CallSteps
<1>. QED  BY <1>1, <1>2, CallsInvariance, PTL DEF WorkerSpec, Job!Spec

\* Every variable of the process and of its calls keeps its type; in particular
\* the channel renewed holds one error at most.
THEOREM WorkerTypeCorrect == WorkerSpec => []WorkerTypeOK
<1>1. WInv => Job!TypeOK  BY DEF WInv, CallsInv
<1>. QED  BY <1>1, CallsInvariance, ProcessImplemented, TypeCorrect, PTL DEF WorkerTypeOK

\* Also when the drain ends while a renewal is under way, no outcome is persisted
\* after a refused one.
THEOREM OutcomesStayUnrefused == WorkerSpec => []FinishUnrefused
<1>1. Job!FinishUnrefused <=> FinishUnrefused  BY DEF FinishUnrefused
<1>. QED  BY <1>1, CallsImplemented, OutcomesAreUnrefused, PTL

\* With the calls in it, the process still grants its drain period.
THEOREM WorkersDrain == WorkerSpec => []DrainGiven
BY ProcessImplemented, DrainIsGiven, PTL
=============================================================================
