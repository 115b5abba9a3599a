----------------------------- MODULE RetryDelays -----------------------------
(***************************************************************************)
(* The waits between the attempts of a job: JobStore lets an attempt that  *)
(* fails for a while take any delay of Delays; here are those that         *)
(* ExponentialDelay(j.RetryCount) draws (worker.go:89), RetryCount being   *)
(* one less than the attempt.                                              *)
(***************************************************************************)
EXTENDS JobStore, Backoff

CONSTANT MaxRetry   \* bound on the retries whose waits are looked at

ASSUME RetryDelaysAssumption == MaxRetry \in Nat

BackingOff == { n \in 0 .. MaxRetry : BacksOff(n) }

\* However an attempt comes to its transient failure, the wait it gets and those
\* of all the attempts after it are bounded, without overflow, and back off.
DelaysBackOff ==
    \A w \in Worker : proc[w].pc = "finishing" /\ proc[w].outcome = "PENDING" =>
        proc[w].attempt_count - 1 .. MaxRetry \subseteq BackingOff

=============================================================================
