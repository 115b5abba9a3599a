------------------------------ MODULE ApiServer ------------------------------
(***************************************************************************)
(* The API process: how it starts, how a request passes the API key check  *)
(* and its handler, each waiting for connections of one bounded pool, and  *)
(* how the process stops on SIGTERM while requests are being handled.      *)
(*                                                                         *)
(* A handler runs between two awaits without interruption, so a step is    *)
(* what happens at one await.  What the statements do to the tables is in  *)
(* JobStore, Enqueue and ReadApi; here a use of a connection only ends,    *)
(* with one of the results its caller tells apart.                         *)
(***************************************************************************)
EXTENDS Naturals, Sequences

CONSTANTS
    Client,      \* HTTP connections; each carries one request at a time
    Sent,        \* the requests each client sends
    Connection,  \* the connections of the pool (connectionLimit of them)
    Nobody       \* owner of a free connection

VARIABLES
    server,     \* how far bootstrap or shutdown has got
    exit,       \* "running", or how the process has ended
    deadline,   \* shutdown's 30 s timer is armed
    connected,  \* whether each client's HTTP connection is open
    request,    \* the request each client's handler is working on
    pc,         \* where its handler stands
    use,        \* what the handler wants, or has used, a connection for
    result,     \* how the last use of a connection ended
    owner,      \* the client whose handler holds each connection of the pool
    queue,      \* the handlers waiting for a connection, first come first served
    answer,     \* the status code of the answer to the last request, or 0
    faulted     \* history: some statement or connection has failed

vars == <<server, exit, deadline, connected, request, pc, use, result, owner,
          queue, answer, faulted>>

JobKind == {"create", "requeue", "byId", "logs", "list", "dead"}
JobPath == JobKind \cup {"unrouted"}
Kinds == JobPath \cup {"health", "elsewhere"}
Keys == {"missing", "unknown", "disabled", "active"}
Uses == {"none", "auth", "health", "create", "requeue", "byId", "logs", "rows", "count"}

\* form: a body that is no JSON, or one that its handler finds wrong, or neither.
Request == [kind: Kinds, key: Keys, form: {"unparsable", "invalid", "valid"}]

ASSUME ApiServerAssumption ==
    Nobody \notin Client /\ Sent \in [Client -> SUBSET Request]

NoRequest == [kind |-> "elsewhere", key |-> "missing", form |-> "valid"]

\* The stages at which a handler has a connection, and all of them.
Holding == {"using", "rolling_back"}
Handling == Holding \cup {"asking", "waiting", "returned", "pinging"}

\* The uses that take a connection out of the pool for a transaction; the others are
\* pool.query and pool.execute.
Transactions == {"create", "requeue"}

Init ==
    /\ server = "starting"
    /\ exit = "running"
    /\ deadline = FALSE
    /\ connected = [c \in Client |-> FALSE]
    /\ request = [c \in Client |-> NoRequest]
    /\ pc = [c \in Client |-> "idle"]
    /\ use = [c \in Client |-> "none"]
    /\ result = [c \in Client |-> "none"]
    /\ owner = [n \in Connection |-> Nobody]
    /\ queue = <<>>
    /\ answer = [c \in Client |-> 0]
    /\ faulted = FALSE

PoolClosed == server \in {"ending", "ended"}

process == <<server, exit, deadline>>

-----------------------------------------------------------------------------
(***************************************************************************)
(* bootstrap.                                                              *)
(***************************************************************************)
\* testConnection has its connection and gives it back; the server listens.
Start ==
    /\ exit = "running" /\ server = "starting"
    /\ server' = "open"
    /\ UNCHANGED <<exit, deadline, connected, request, pc, use, result, owner,
                   queue, answer, faulted>>

\* No connection: process.exit(1).  A signal that early ends the process too.
StartFails ==
    /\ exit = "running" /\ server = "starting"
    /\ exit' = "failed"
    /\ UNCHANGED <<server, deadline, connected, request, pc, use, result, owner,
                   queue, answer, faulted>>

-----------------------------------------------------------------------------
(***************************************************************************)
(* HTTP connections.                                                       *)
(***************************************************************************)
Connect(c) ==
    /\ exit = "running" /\ server = "open"
    /\ ~connected[c] /\ pc[c] = "idle"
    /\ connected' = [connected EXCEPT ![c] = TRUE]
    /\ answer' = [answer EXCEPT ![c] = 0]
    /\ UNCHANGED <<process, request, pc, use, result, owner, queue, faulted>>

\* The client gives up, or an idle connection is closed, also by server.close.
\* A handler that is running does not notice.
Disconnect(c) ==
    /\ exit = "running"
    /\ connected[c]
    /\ connected' = [connected EXCEPT ![c] = FALSE]
    /\ UNCHANGED <<process, request, pc, use, result, owner, queue, answer, faulted>>

\* The handler of c answers and is done; nobody reads it if the client is gone.
Answer(c, code) ==
    /\ pc' = [pc EXCEPT ![c] = "idle"]
    /\ request' = [request EXCEPT ![c] = NoRequest]
    /\ use' = [use EXCEPT ![c] = "none"]
    /\ result' = [result EXCEPT ![c] = "none"]
    /\ answer' = IF connected[c] THEN [answer EXCEPT ![c] = code] ELSE answer

\* A request arrives; express.json, the routes and apiKeyAuth see it in turn.  It may
\* still arrive on an open connection while the server is closing.
Send(c, r) ==
    /\ exit = "running"
    /\ connected[c] /\ pc[c] = "idle"
    /\ \/ r.form = "unparsable" /\ Answer(c, 400)
       \/ r.form # "unparsable" /\ r.kind = "elsewhere" /\ Answer(c, 404)
       \/ r.form # "unparsable" /\ r.kind \in JobPath /\ r.key = "missing" /\ Answer(c, 401)
       \/ /\ r.form # "unparsable"
          /\ r.kind = "health" \/ (r.kind \in JobPath /\ r.key # "missing")
          /\ request' = [request EXCEPT ![c] = r]
          /\ pc' = [pc EXCEPT ![c] = "asking"]
          /\ use' = [use EXCEPT ![c] = IF r.kind = "health" THEN "health" ELSE "auth"]
          /\ answer' = [answer EXCEPT ![c] = 0]
          /\ UNCHANGED result
    /\ UNCHANGED <<process, connected, owner, queue, faulted>>

-----------------------------------------------------------------------------
(***************************************************************************)
(* The pool.                                                               *)
(***************************************************************************)
\* Bug variant: the one who asked last is served first.
EnqueueFirst(c) == queue' = <<c>> \o queue

Enqueue(c) == queue' = Append(queue, c)

\* pool.query, pool.execute or pool.getConnection: a free connection, or a place
\* in the queue, or an error once the pool has been ended.
AskPool(c) ==
    /\ exit = "running" /\ pc[c] = "asking"
    /\ \/ /\ ~PoolClosed
          /\ \E n \in Connection :
                owner[n] = Nobody /\ owner' = [owner EXCEPT ![n] = c]
          /\ pc' = [pc EXCEPT ![c] = "using"]
          /\ UNCHANGED <<result, queue>>
       \/ /\ ~PoolClosed
          /\ \A n \in Connection : owner[n] # Nobody
          /\ pc' = [pc EXCEPT ![c] = "waiting"]
          /\ Enqueue(c)
          /\ UNCHANGED <<result, owner>>
       \/ /\ PoolClosed
          /\ pc' = [pc EXCEPT ![c] = "returned"]
          /\ result' = [result EXCEPT ![c] = "error"]
          /\ UNCHANGED <<owner, queue>>
    /\ UNCHANGED <<process, connected, request, use, answer, faulted>>

\* What the statements of a use say to their caller when none fails or throws.
Results(c) ==
    CASE use[c] = "auth" -> { request[c].key }
      [] use[c] \in {"byId", "logs"} -> {"ok", "empty"}
      [] OTHER -> {"ok"}

\* release(): the connection n of c goes to the first of the queue, who gets an
\* error instead when the pool has been ended.
HandOver(c, n, r) ==
    IF queue = <<>>
    THEN /\ owner' = [owner EXCEPT ![n] = Nobody]
         /\ pc' = [pc EXCEPT ![c] = "returned"]
         /\ result' = [result EXCEPT ![c] = r]
         /\ UNCHANGED queue
    ELSE /\ owner' = [owner EXCEPT ![n] = IF PoolClosed THEN Nobody ELSE Head(queue)]
         /\ pc' = [pc EXCEPT ![c] = "returned",
                             ![Head(queue)] = IF PoolClosed THEN "returned" ELSE "using"]
         /\ result' = [result EXCEPT ![c] = r,
                         ![Head(queue)] = IF PoolClosed THEN "error" ELSE "none"]
         /\ queue' = Tail(queue)

\* The statements of a use have succeeded, and the connection is released.
UseEnds(c) ==
    /\ exit = "running" /\ pc[c] = "using"
    /\ \E n \in Connection, r \in Results(c) : owner[n] = c /\ HandOver(c, n, r)
    /\ UNCHANGED <<process, connected, request, use, answer, faulted>>

\* No connection could be made, the statement of pool.query has failed, or pool.end()
\* closed its connection before it: the driver releases it.
StatementFails(c) ==
    /\ exit = "running" /\ pc[c] = "using"
    /\ \E n \in Connection : owner[n] = c /\ HandOver(c, n, "error")
    /\ faulted' = (faulted \/ ~PoolClosed)
    /\ UNCHANGED <<process, connected, request, use, answer>>

\* What is thrown within a transaction: a failure, a taken key, or the handler's no.
Thrown(c) ==
    {"error"} \cup (IF use[c] = "create" THEN {"duplicate"}
                   ELSE {"not_found", "not_requeueable"})

\* It is caught, and ROLLBACK is sent on the same connection.
TransactionThrows(c) ==
    /\ exit = "running" /\ pc[c] = "using"
    /\ use[c] \in Transactions
    /\ pc' = [pc EXCEPT ![c] = "rolling_back"]
    /\ \E r \in Thrown(c) :
          /\ result' = [result EXCEPT ![c] = r]
          /\ faulted' = (faulted \/ (r = "error" /\ ~PoolClosed))
    /\ UNCHANGED <<process, connected, request, use, answer, owner, queue>>

\* What is known after the rollback: with a taken key, once its row has been read.
AfterRollback(c) ==
    IF result[c] = "duplicate" THEN {"ok", "conflict"} ELSE { result[c] }

\* Bug variant: release is not in finally, a failing rollback keeps the connection.
RollbackOrKeep(c) ==
    /\ exit = "running" /\ pc[c] = "rolling_back"
    /\ \/ /\ \E n \in Connection, r \in AfterRollback(c) : owner[n] = c /\ HandOver(c, n, r)
          /\ UNCHANGED faulted
       \/ /\ pc' = [pc EXCEPT ![c] = "returned"]
          /\ result' = [result EXCEPT ![c] = "error"]
          /\ faulted' = (faulted \/ ~PoolClosed)
          /\ UNCHANGED <<owner, queue>>
    /\ UNCHANGED <<process, connected, request, use, answer>>

\* ROLLBACK has ended, and so has what the catch clause asks next, or one of them has
\* failed: the connection is released, finally.
Rollback(c) ==
    /\ exit = "running" /\ pc[c] = "rolling_back"
    /\ \E n \in Connection :
          /\ owner[n] = c
          /\ \/ \E r \in AfterRollback(c) : HandOver(c, n, r) /\ UNCHANGED faulted
             \/ HandOver(c, n, "error") /\ faulted' = (faulted \/ ~PoolClosed)
    /\ UNCHANGED <<process, connected, request, use, answer>>

UseFails(c) == StatementFails(c) \/ TransactionThrows(c) \/ Rollback(c)

-----------------------------------------------------------------------------
(***************************************************************************)
(* The handlers, from the result of one use of a connection to the next    *)
(* use or the answer.                                                      *)
(***************************************************************************)
\* apiKeyAuth calls next(); an error of its query lets nobody in.
Admitted(c) == use[c] = "auth" /\ result[c] = "active"

\* The paging parameters of the two lists are clamped, never refused.
Refused(c) == request[c].kind \notin {"list", "dead"} /\ request[c].form = "invalid"

FirstUse(kind) == IF kind \in {"list", "dead"} THEN "rows" ELSE kind

\* The job route's handler starts: a malformed body, Idempotency-Key or job id
\* is answered without using the database, and so is a path no route has.
EnterHandler(c) ==
    /\ exit = "running" /\ pc[c] = "returned"
    /\ Admitted(c)
    /\ \/ request[c].kind = "unrouted" /\ Answer(c, 404)
       \/ request[c].kind # "unrouted" /\ Refused(c) /\ Answer(c, 400)
       \/ /\ request[c].kind # "unrouted" /\ ~Refused(c)
          /\ pc' = [pc EXCEPT ![c] = "asking"]
          /\ use' = [use EXCEPT ![c] = FirstUse(request[c].kind)]
          /\ UNCHANGED <<request, result, answer>>
    /\ UNCHANGED <<process, connected, owner, queue, faulted>>

\* The rows of a list have been read; its total is a query of its own.
Count(c) ==
    /\ exit = "running" /\ pc[c] = "returned"
    /\ use[c] = "rows" /\ result[c] = "ok"
    /\ pc' = [pc EXCEPT ![c] = "asking"]
    /\ use' = [use EXCEPT ![c] = "count"]
    /\ UNCHANGED <<process, connected, request, result, owner, queue, answer, faulted>>

Code(c) ==
    CASE result[c] = "error" -> 500
      [] result[c] = "unknown" -> 401
      [] result[c] = "disabled" -> 403
      [] result[c] = "conflict" -> 409
      [] result[c] = "not_requeueable" -> 400
      [] result[c] \in {"not_found", "empty"} -> 404
      [] OTHER -> IF use[c] = "create" THEN 202 ELSE 200

\* Whatever else a use of the database has said is the answer.
Reply(c) ==
    /\ exit = "running" /\ pc[c] = "returned"
    /\ ~Admitted(c) /\ use[c] # "health"
    /\ ~(use[c] = "rows" /\ result[c] = "ok")
    /\ Answer(c, Code(c))
    /\ UNCHANGED <<process, connected, owner, queue, faulted>>

\* /health keeps the outcome of SELECT 1 and pings Redis.
Ping(c) ==
    /\ exit = "running" /\ pc[c] = "returned"
    /\ use[c] = "health"
    /\ pc' = [pc EXCEPT ![c] = "pinging"]
    /\ UNCHANGED <<process, connected, request, use, result, owner, queue, answer, faulted>>

\* ping() says whether Redis answered; after disconnect() it did not.
Pong(c, alive) ==
    /\ exit = "running" /\ pc[c] = "pinging"
    /\ alive => ~PoolClosed
    /\ Answer(c, IF result[c] = "ok" /\ alive THEN 200 ELSE 503)
    /\ UNCHANGED <<process, connected, owner, queue, faulted>>

-----------------------------------------------------------------------------
(***************************************************************************)
(* shutdown.                                                               *)
(***************************************************************************)
\* SIGTERM or SIGINT; "stopping" makes every later one a no-op.
Signal ==
    /\ exit = "running" /\ server = "open"
    /\ server' = "closing"
    /\ deadline' = TRUE
    /\ UNCHANGED <<exit, connected, request, pc, use, result, owner, queue, answer, faulted>>

\* Bug variant: pool.end() does not wait for server.close's callback.
CloseServerAtOnce ==
    /\ exit = "running" /\ server = "closing"
    /\ server' = "ending"
    /\ UNCHANGED <<exit, deadline, connected, request, pc, use, result, owner,
                   queue, answer, faulted>>

\* Bug variant: the timer is cleared when the server has closed, before the pool.
CloseServerDisarming ==
    /\ exit = "running" /\ server = "closing"
    /\ \A c \in Client : ~connected[c]
    /\ server' = "ending"
    /\ deadline' = FALSE
    /\ UNCHANGED <<exit, connected, request, pc, use, result, owner, queue, answer, faulted>>

\* server.close calls back when no HTTP connection is left; pool.end() and
\* queueService.close() begin.
CloseServer ==
    /\ exit = "running" /\ server = "closing"
    /\ \A c \in Client : ~connected[c]
    /\ server' = "ending"
    /\ UNCHANGED <<exit, deadline, connected, request, pc, use, result, owner,
                   queue, answer, faulted>>

\* Every connection has quit, after the statement it was executing.
EndPool ==
    /\ exit = "running" /\ server = "ending"
    /\ \A n \in Connection : owner[n] = Nobody
    /\ server' = "ended"
    /\ deadline' = FALSE
    /\ UNCHANGED <<exit, connected, request, pc, use, result, owner, queue, answer, faulted>>

EndPoolFails ==
    /\ exit = "running" /\ server = "ending"
    /\ exit' = "failed"
    /\ UNCHANGED <<server, deadline, connected, request, pc, use, result, owner,
                   queue, answer, faulted>>

\* Nothing is left that could wake the process up, and it ends.
Exit ==
    /\ exit = "running" /\ server = "ended"
    /\ \A c \in Client : pc[c] \in {"idle", "waiting"}
    /\ exit' = "clean"
    /\ UNCHANGED <<server, deadline, connected, request, pc, use, result, owner,
                   queue, answer, faulted>>

\* The 30 s are over: process.exit(1).
Deadline ==
    /\ exit = "running" /\ deadline
    /\ exit' = "failed"
    /\ UNCHANGED <<server, deadline, connected, request, pc, use, result, owner,
                   queue, answer, faulted>>

-----------------------------------------------------------------------------
Handle(c) ==
    AskPool(c) \/ EnterHandler(c) \/ Count(c) \/ Reply(c) \/ Ping(c)
        \/ \E alive \in BOOLEAN : Pong(c, alive)

Shutdown == CloseServer \/ EndPool \/ EndPoolFails \/ Exit \/ Deadline

Next ==
    \/ Start \/ StartFails \/ Signal \/ Shutdown
    \/ \E c \in Client :
          \/ Connect(c) \/ Disconnect(c) \/ Handle(c) \/ UseEnds(c) \/ UseFails(c)
          \/ \E r \in Sent[c] : Send(c, r)

Spec == Init /\ [][Next]_vars

(***************************************************************************)
(* Fairness: the event loop runs what is ready, and its timer.  MySQL may  *)
(* leave a statement unanswered; what depends on its answers says so.      *)
(***************************************************************************)
FairSpec == Spec /\ WF_vars(Deadline) /\ WF_vars(Exit)
                 /\ \A c \in Client : WF_vars(Handle(c))

DatabaseAnswers == \A c \in Client : WF_vars(UseEnds(c) \/ UseFails(c))

-----------------------------------------------------------------------------
\* Every variable has its type.
TypeOK ==
    /\ server \in {"starting", "open", "closing", "ending", "ended"}
    /\ exit \in {"running", "clean", "failed"}
    /\ deadline \in BOOLEAN
    /\ connected \in [Client -> BOOLEAN]
    /\ request \in [Client -> Request]
    /\ pc \in [Client -> Handling \cup {"idle"}]
    /\ use \in [Client -> Uses]
    /\ result \in [Client -> Keys \cup {"none", "ok", "conflict", "not_found",
                                        "not_requeueable", "duplicate", "empty",
                                        "error"}]
    /\ owner \in [Connection -> Client \cup {Nobody}]
    /\ queue \in Seq(Client)
    /\ answer \in [Client -> {0, 200, 202, 400, 401, 403, 404, 409, 500, 503}]
    /\ faulted \in BOOLEAN

\* No connection of the pool leaks and none idles while somebody waits: each is
\* free or held by exactly one handler that is using it or rolling back, whatever has
\* failed, and a handler waits only while all of them are in use.
PoolAccounts ==
    /\ \A n \in Connection : owner[n] # Nobody => pc[owner[n]] \in Holding
    /\ \A m, n \in Connection : owner[m] = owner[n] /\ m # n => owner[m] = Nobody
    /\ \A c \in Client : pc[c] \in Holding => \E n \in Connection : owner[n] = c
    /\ \A c \in Client : pc[c] = "waiting" /\ ~PoolClosed =>
          \A n \in Connection : owner[n] # Nobody

\* Stopping breaks no request: a client that has waited for its answer gets 500
\* only if the database has failed, never because the pool was ended under its
\* handler.
ErrorOnlyAfterFault == (\E c \in Client : answer[c] = 500) => faulted

\* Only a request with an active key reaches a job handler and the database
\* beyond the key's own row; a failing look-up lets nobody in.
JobRoutesNeedActiveKey ==
    \A c \in Client :
        use[c] \in Uses \ {"none", "auth", "health"} => request[c].key = "active"

\* As long as MySQL ends its statements, one way or the other, a client that
\* stays gets an answer unless the process ends: no handler waits for a
\* connection forever, although all share them and some need one three times.
EveryRequestAnswered ==
    DatabaseAnswers => \A c \in Client :
        pc[c] \in Handling ~> pc[c] = "idle" \/ ~connected[c] \/ exit # "running"

\* "Cooperative bounded shutdown": after a signal the process ends, whatever
\* clients, MySQL and Redis do.
StopEnds == server = "closing" ~> exit # "running"

=============================================================================
