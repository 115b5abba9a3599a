----------------------------- MODULE MCApiServer -----------------------------
(***************************************************************************)
(* A small instance of ApiServer for TLC.                                  *)
(***************************************************************************)
EXTENDS ApiServer, TLC

CONSTANTS c1, c2, c3

\* Requests to the job routes: refused at every stage, with a transaction, and with
\* two queries.
Various ==
    [kind: {"list"}, key: {"missing", "disabled", "active"}, form: {"valid"}]
        \cup [kind: {"create"}, key: {"active"}, form: {"unparsable", "invalid", "valid"}]
        \cup [kind: {"requeue", "unrouted"}, key: {"active"}, form: {"valid"}]

Logs == [kind: {"logs"}, key: {"active"}, form: {"valid"}]

\* What a load balancer asks, and what no route answers.
Probes == [kind: {"health", "elsewhere"}, key: {"missing"}, form: {"valid"}]

\* One client sends everything, the second keeps asking for logs, the third probes.
SentByEach == (c1 :> Various) @@ (c2 :> Logs) @@ (c3 :> Probes)
=============================================================================
