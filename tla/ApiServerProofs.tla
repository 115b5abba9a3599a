--------------------------- MODULE ApiServerProofs ---------------------------
(***************************************************************************)
(* Proofs about ApiServer, for every set of clients, requests and          *)
(* connections.                                                            *)
(***************************************************************************)
EXTENDS ApiServer, TLAPS

\* The queue holds exactly the handlers that wait, each once.
QueueOK ==
    /\ \A i \in 1 .. Len(queue) : pc[queue[i]] = "waiting"
    /\ \A i, j \in 1 .. Len(queue) : queue[i] = queue[j] => i = j
    /\ \A c \in Client : pc[c] = "waiting" => \E i \in 1 .. Len(queue) : queue[i] = c

\* What a handler may have seen by now, and what it may do next.
Flow(c) ==
    /\ pc[c] = "idle" => use[c] = "none" /\ result[c] = "none"
    /\ use[c] = "auth" => request[c].kind \in JobPath
    /\ use[c] = "auth" /\ result[c] = "active" => request[c].key = "active"
    /\ use[c] \in Uses \ {"none", "auth", "health"} => request[c].key = "active"
    /\ result[c] = "error" => faulted \/ PoolClosed
    /\ answer[c] = 500 => faulted
    /\ PoolClosed => ~connected[c]

IInv == TypeOK /\ PoolAccounts /\ QueueOK /\ \A c \in Client : Flow(c)

PoolType ==
    /\ pc \in [Client -> Handling \cup {"idle"}]
    /\ owner \in [Connection -> Client \cup {Nobody}]
    /\ queue \in Seq(Client)

PoolInv == PoolType /\ PoolAccounts /\ QueueOK

HandlerStep(c) ==
    \/ \E r \in Sent[c] : Send(c, r)
    \/ EnterHandler(c) \/ Count(c) \/ Reply(c) \/ Ping(c)
    \/ \E alive \in BOOLEAN : Pong(c, alive)

ServerStep ==
    \/ Start \/ StartFails \/ Signal \/ Shutdown
    \/ \E c \in Client : Connect(c) \/ Disconnect(c)

PoolStep(c) == AskPool(c) \/ UseEnds(c) \/ UseFails(c)

LEMMA NextCases ==
    ASSUME Next
    PROVE  ServerStep \/ \E c \in Client : HandlerStep(c) \/ PoolStep(c)
BY DEF Next, Handle, ServerStep, HandlerStep, PoolStep

LEMMA InvInit == Init => IInv
<1> SUFFICES ASSUME Init PROVE IInv
  OBVIOUS
<1>1. TypeOK
  <2>1. NoRequest \in Request
    BY DEF NoRequest, Request, Kinds, Keys
  <2>2. connected \in [Client -> BOOLEAN] /\ deadline \in BOOLEAN /\ faulted \in BOOLEAN
    BY Zenon DEF Init
  <2>3. /\ request \in [Client -> Request]
        /\ pc \in [Client -> Handling \cup {"idle"}]
        /\ use \in [Client -> Uses]
    BY <2>1 DEF Init, Uses
  <2> QED  BY <2>2, <2>3 DEF Init, TypeOK
<1>2. PoolAccounts  BY DEF Init, PoolAccounts, Holding
<1>3. QueueOK  BY DEF Init, QueueOK
<1>4. ASSUME NEW c \in Client  PROVE Flow(c)
  <2>1. ~PoolClosed  BY DEF Init, PoolClosed
  <2>2. use[c] = "none" /\ result[c] = "none" /\ answer[c] = 0  BY DEF Init
  <2> QED  BY <2>1, <2>2 DEF Flow
<1> QED  BY <1>1, <1>2, <1>3, <1>4 DEF IInv

-----------------------------------------------------------------------------
(***************************************************************************)
(* The pool.                                                               *)
(***************************************************************************)
\* A handler that neither holds nor awaits a connection moves on.
LEMMA PoolNeutral ==
    ASSUME PoolInv, NEW c \in Client, pc[c] \notin Holding \cup {"waiting"},
           NEW p \in {"idle", "asking", "returned", "pinging"},
           pc' = [pc EXCEPT ![c] = p], UNCHANGED <<owner, queue>>,
           PoolClosed => PoolClosed'
    PROVE  PoolInv'
<1>1. PoolType'  BY DEF PoolInv, PoolType, Handling, Holding
<1>2. PoolAccounts'
  BY ApiServerAssumption DEF PoolInv, PoolType, PoolAccounts, Holding, ApiServerAssumption
<1>3. QueueOK'  BY DEF PoolInv, PoolType, QueueOK
<1> QED  BY <1>1, <1>2, <1>3 DEF PoolInv

LEMMA PoolUnchanged ==
    ASSUME PoolInv, UNCHANGED <<pc, owner, queue>>, PoolClosed => PoolClosed'
    PROVE  PoolInv'
<1>1. PoolType'  BY DEF PoolInv, PoolType
<1>2. PoolAccounts'  BY DEF PoolInv, PoolAccounts, Holding
<1>3. QueueOK'  BY DEF PoolInv, QueueOK
<1> QED  BY <1>1, <1>2, <1>3 DEF PoolInv

\* A free connection is taken.
LEMMA PoolTake ==
    ASSUME PoolInv, NEW c \in Client, pc[c] = "asking",
           NEW n \in Connection, owner[n] = Nobody,
           owner' = [owner EXCEPT ![n] = c], pc' = [pc EXCEPT ![c] = "using"],
           UNCHANGED <<queue, server>>
    PROVE  PoolInv'
<1>1. PoolType'  BY DEF PoolInv, PoolType, Handling, Holding
<1>2. PoolAccounts'
  <2>1. \A m \in Connection : owner[m] # c
    BY ApiServerAssumption DEF PoolInv, PoolAccounts, Holding, ApiServerAssumption
  <2> QED
    BY <2>1, ApiServerAssumption
    DEF PoolInv, PoolType, PoolAccounts, Holding, PoolClosed, ApiServerAssumption
<1>3. QueueOK'  BY DEF PoolInv, PoolType, QueueOK
<1> QED  BY <1>1, <1>2, <1>3 DEF PoolInv

\* All connections are in use: a place at the end of the queue.
LEMMA PoolWait ==
    ASSUME PoolInv, NEW c \in Client, pc[c] = "asking",
           \A n \in Connection : owner[n] # Nobody,
           pc' = [pc EXCEPT ![c] = "waiting"], queue' = Append(queue, c),
           UNCHANGED <<owner, server>>
    PROVE  PoolInv'
<1>1. PoolType'  BY DEF PoolInv, PoolType, Handling, Holding
<1>2. PoolAccounts'  BY DEF PoolInv, PoolType, PoolAccounts, Holding, PoolClosed
<1>3. QueueOK'
  <2>1. /\ Len(queue') = Len(queue) + 1
        /\ \A i \in 1 .. Len(queue) : queue'[i] = queue[i]
        /\ queue'[Len(queue) + 1] = c
        /\ Len(queue) \in Nat
    BY DEF PoolInv, PoolType
  <2>2. \A i \in 1 .. Len(queue) : queue[i] # c  BY DEF PoolInv, QueueOK
  <2>3. \A i \in 1 .. Len(queue') : i \in 1 .. Len(queue) \/ i = Len(queue) + 1
    BY <2>1
  <2>4. \A i \in 1 .. Len(queue) : queue[i] \in Client  BY DEF PoolInv, PoolType
  <2>5. \A i \in 1 .. Len(queue') : pc'[queue'[i]] = "waiting"
    BY <2>1, <2>2, <2>3, <2>4 DEF PoolInv, PoolType, QueueOK
  <2>6. \A i, j \in 1 .. Len(queue') : queue'[i] = queue'[j] => i = j
    BY <2>1, <2>2, <2>3 DEF PoolInv, QueueOK
  <2>7. ASSUME NEW d \in Client, pc'[d] = "waiting"
        PROVE  \E i \in 1 .. Len(queue') : queue'[i] = d
    <3>1. CASE d = c  BY <2>1, <3>1
    <3>2. CASE d # c
      <4>1. PICK i \in 1 .. Len(queue) : queue[i] = d
        BY <2>7, <3>2 DEF PoolInv, PoolType, QueueOK
      <4> QED  BY <2>1, <4>1
    <3> QED  BY <3>1, <3>2
  <2> QED  BY <2>5, <2>6, <2>7 DEF QueueOK
<1> QED  BY <1>1, <1>2, <1>3 DEF PoolInv

\* A connection is given back while nobody waits.
LEMMA PoolFree ==
    ASSUME PoolInv, NEW c \in Client, NEW n \in Connection, owner[n] = c, queue = <<>>,
           owner' = [owner EXCEPT ![n] = Nobody], pc' = [pc EXCEPT ![c] = "returned"],
           UNCHANGED <<queue, server>>
    PROVE  PoolInv'
<1>1. PoolType'  BY DEF PoolInv, PoolType, Handling, Holding
<1>2. c # Nobody  BY ApiServerAssumption DEF ApiServerAssumption
<1>3. pc[c] \in Holding  BY <1>2 DEF PoolInv, PoolAccounts, Holding
<1>4. \A m \in Connection : m # n => owner[m] # c  BY <1>2 DEF PoolInv, PoolAccounts, Holding
<1>5. \A d \in Client : pc[d] # "waiting"  BY DEF PoolInv, QueueOK
<1>6. PoolAccounts'
  BY <1>2, <1>3, <1>4, <1>5 DEF PoolInv, PoolType, PoolAccounts, Holding
<1>7. QueueOK'  BY <1>5 DEF PoolInv, PoolType, QueueOK
<1> QED  BY <1>1, <1>6, <1>7 DEF PoolInv

LEMMA TailFacts ==
    ASSUME PoolType, queue # <<>>
    PROVE  /\ Head(queue) = queue[1] /\ Head(queue) \in Client
           /\ Tail(queue) \in Seq(Client)
           /\ Len(queue) \in Nat /\ Len(queue) >= 1
           /\ Len(Tail(queue)) = Len(queue) - 1
           /\ \A i \in 1 .. Len(Tail(queue)) : Tail(queue)[i] = queue[i + 1]
BY DEF PoolType

\* A connection is handed to the first of the queue, or, once the pool has been
\* ended, closed, and the first of the queue gets an error.
LEMMA PoolPass ==
    ASSUME PoolInv, NEW c \in Client, NEW n \in Connection, owner[n] = c, queue # <<>>,
           NEW h, h = Head(queue),
           \/ /\ owner' = [owner EXCEPT ![n] = h]
              /\ pc' = [pc EXCEPT ![c] = "returned", ![h] = "using"]
           \/ /\ PoolClosed
              /\ owner' = [owner EXCEPT ![n] = Nobody]
              /\ pc' = [pc EXCEPT ![c] = "returned", ![h] = "returned"],
           queue' = Tail(queue), UNCHANGED server
    PROVE  PoolInv'
<1>1. h = queue[1] /\ h \in Client  BY TailFacts DEF PoolInv
<1>2. c # Nobody /\ h # Nobody  BY <1>1, ApiServerAssumption DEF ApiServerAssumption
<1>3. pc[c] \in Holding  BY <1>2 DEF PoolInv, PoolAccounts, Holding
<1>4. 1 \in 1 .. Len(queue)  BY TailFacts DEF PoolInv
<1>5. pc[h] = "waiting"  BY <1>1, <1>4 DEF PoolInv, QueueOK
<1>6. c # h  BY <1>3, <1>5 DEF Holding
<1>7. \A m \in Connection : m # n => owner[m] # c  BY <1>2 DEF PoolInv, PoolAccounts, Holding
<1>8. \A m \in Connection : owner[m] # h  BY <1>2, <1>5 DEF PoolInv, PoolAccounts, Holding
<1>9. PoolType'  BY <1>1, TailFacts DEF PoolInv, PoolType, Handling, Holding
<1>10. PoolAccounts'
  <2>1. CASE /\ owner' = [owner EXCEPT ![n] = h]
             /\ pc' = [pc EXCEPT ![c] = "returned", ![h] = "using"]
    BY <1>1, <1>2, <1>3, <1>5, <1>6, <1>7, <1>8, <2>1
    DEF PoolInv, PoolType, PoolAccounts, Holding, PoolClosed
  <2>2. CASE /\ PoolClosed
             /\ owner' = [owner EXCEPT ![n] = Nobody]
             /\ pc' = [pc EXCEPT ![c] = "returned", ![h] = "returned"]
    BY <1>1, <1>2, <1>3, <1>5, <1>6, <1>7, <1>8, <2>2
    DEF PoolInv, PoolType, PoolAccounts, Holding, PoolClosed
  <2> QED  BY <2>1, <2>2
<1>11. QueueOK'
  <2>1. \A d \in Client : pc'[d] = "waiting" <=> pc[d] = "waiting" /\ d # h
    BY <1>1, <1>3, <1>5, <1>6 DEF PoolInv, PoolType, Holding
  <2>2. \A i \in 1 .. Len(queue') :
            /\ i + 1 \in 1 .. Len(queue) /\ queue'[i] = queue[i + 1]
            /\ queue[i + 1] \in Client
    BY TailFacts DEF PoolInv, PoolType
  <2>3. \A i \in 1 .. Len(queue') : queue[i + 1] # h
    BY <1>1, <1>4, <2>2 DEF PoolInv, QueueOK
  <2>4. \A i \in 1 .. Len(queue') : pc'[queue'[i]] = "waiting"
    BY <2>1, <2>2, <2>3 DEF PoolInv, QueueOK
  <2>5. \A i, j \in 1 .. Len(queue') : queue'[i] = queue'[j] => i = j
    BY <2>2 DEF PoolInv, QueueOK
  <2>6. ASSUME NEW d \in Client, pc'[d] = "waiting"
        PROVE  \E i \in 1 .. Len(queue') : queue'[i] = d
    <3>1. PICK i \in 1 .. Len(queue) : queue[i] = d
      BY <2>1, <2>6 DEF PoolInv, QueueOK
    <3>2. i # 1  BY <1>1, <2>1, <2>6, <3>1
    <3>3. i - 1 \in 1 .. Len(queue')  BY <3>1, <3>2, TailFacts DEF PoolInv
    <3>4. queue'[i - 1] = d  BY <2>2, <3>1, <3>3
    <3> QED  BY <3>3, <3>4
  <2> QED  BY <2>4, <2>5, <2>6 DEF QueueOK
<1> QED  BY <1>9, <1>10, <1>11 DEF PoolInv

\* A transaction is rolled back on the connection it has.
LEMMA PoolKeep ==
    ASSUME PoolInv, NEW c \in Client, pc[c] = "using",
           pc' = [pc EXCEPT ![c] = "rolling_back"], UNCHANGED <<owner, queue, server>>
    PROVE  PoolInv'
<1>1. PoolType'  BY DEF PoolInv, PoolType, Handling, Holding
<1>2. PoolAccounts'
  BY ApiServerAssumption
  DEF PoolInv, PoolType, PoolAccounts, PoolClosed, Holding, ApiServerAssumption
<1>3. QueueOK'  BY DEF PoolInv, PoolType, QueueOK
<1> QED  BY <1>1, <1>2, <1>3 DEF PoolInv

LEMMA HandOverPool ==
    ASSUME PoolInv, NEW c \in Client, NEW n \in Connection, NEW r, owner[n] = c,
           HandOver(c, n, r), UNCHANGED server
    PROVE  PoolInv'
<1>1. CASE queue = <<>>  BY <1>1, PoolFree DEF HandOver
<1>2. CASE queue # <<>>
  <2> DEFINE h == Head(queue)
  <2>1. CASE PoolClosed
    <3>1. /\ owner' = [owner EXCEPT ![n] = Nobody] /\ queue' = Tail(queue)
          /\ pc' = [pc EXCEPT ![c] = "returned", ![h] = "returned"]
      BY <1>2, <2>1 DEF HandOver
    <3> QED  BY <1>2, <2>1, <3>1, PoolPass
  <2>2. CASE ~PoolClosed
    <3>1. /\ owner' = [owner EXCEPT ![n] = h] /\ queue' = Tail(queue)
          /\ pc' = [pc EXCEPT ![c] = "returned", ![h] = "using"]
      BY <1>2, <2>2 DEF HandOver
    <3> QED  BY <1>2, <3>1, PoolPass
  <2> QED  BY <2>1, <2>2
<1> QED  BY <1>1, <1>2

LEMMA AskPoolPool ==
    ASSUME PoolInv, NEW c \in Client, AskPool(c)
    PROVE  PoolInv'
<1>1. pc[c] = "asking" /\ UNCHANGED server  BY DEF AskPool, process
<1>2. CASE /\ \E n \in Connection :
                 owner[n] = Nobody /\ owner' = [owner EXCEPT ![n] = c]
           /\ pc' = [pc EXCEPT ![c] = "using"] /\ UNCHANGED queue
  BY <1>1, <1>2, PoolTake
<1>3. CASE /\ \A n \in Connection : owner[n] # Nobody
           /\ pc' = [pc EXCEPT ![c] = "waiting"]
           /\ queue' = Append(queue, c) /\ UNCHANGED owner
  BY <1>1, <1>3, PoolWait
<1>4. CASE pc' = [pc EXCEPT ![c] = "returned"] /\ UNCHANGED <<owner, queue>>
  <2>1. PoolClosed => PoolClosed'  BY <1>1 DEF PoolClosed
  <2> QED  BY <1>1, <1>4, <2>1, PoolNeutral DEF Holding
<1> QED  BY <1>2, <1>3, <1>4 DEF AskPool, Enqueue

LEMMA HandlerStepPool ==
    ASSUME PoolInv, NEW c \in Client, HandlerStep(c)
    PROVE  PoolInv'
<1>1. /\ pc[c] \notin Holding \cup {"waiting"} /\ UNCHANGED <<owner, queue, server>>
      /\ \E p \in {"idle", "asking", "returned", "pinging"} : pc' = [pc EXCEPT ![c] = p]
  BY DEF HandlerStep, Send, EnterHandler, Count, Reply, Ping, Pong, Answer, process,
         Holding
<1>2. PoolClosed => PoolClosed'  BY <1>1 DEF PoolClosed
<1> QED  BY <1>1, <1>2, PoolNeutral

LEMMA ServerStepPool ==
    ASSUME PoolInv, ServerStep
    PROVE  PoolInv'
<1>1. UNCHANGED <<pc, owner, queue>>
  BY DEF ServerStep, Start, StartFails, Signal, Shutdown, CloseServer, EndPool,
         EndPoolFails, Exit, Deadline, Connect, Disconnect
<1>2. PoolClosed => PoolClosed'
  BY DEF ServerStep, Start, StartFails, Signal, Shutdown, CloseServer, EndPool,
         EndPoolFails, Exit, Deadline, Connect, Disconnect, PoolClosed, process
<1> QED  BY <1>1, <1>2, PoolUnchanged

LEMMA PoolStepPool ==
    ASSUME PoolInv, NEW c \in Client, PoolStep(c)
    PROVE  PoolInv'
<1>1. CASE UseEnds(c) \/ StatementFails(c) \/ Rollback(c)
  <2>1. PICK n \in Connection : owner[n] = c /\ \E r : HandOver(c, n, r)
    BY <1>1 DEF UseEnds, StatementFails, Rollback
  <2>2. UNCHANGED server  BY <1>1 DEF UseEnds, StatementFails, Rollback, process
  <2> QED  BY <2>1, <2>2, HandOverPool
<1>2. CASE TransactionThrows(c)  BY <1>2, PoolKeep DEF TransactionThrows, process
<1> QED  BY <1>1, <1>2, AskPoolPool DEF PoolStep, UseFails

LEMMA PoolInvStep ==
    ASSUME PoolInv, [Next]_vars
    PROVE  PoolInv'
<1>1. CASE UNCHANGED vars  BY <1>1, PoolUnchanged DEF vars, PoolClosed
<1>2. CASE Next  BY <1>2, NextCases, ServerStepPool, HandlerStepPool, PoolStepPool
<1> QED  BY <1>1, <1>2

-----------------------------------------------------------------------------
(***************************************************************************)
(* Types.                                                                  *)
(***************************************************************************)
Outcomes == Keys \cup {"none", "ok", "conflict", "not_found", "not_requeueable",
                       "duplicate", "empty", "error"}
Codes == {0, 200, 202, 400, 401, 403, 404, 409, 500, 503}

FlowType ==
    /\ request \in [Client -> Request]
    /\ use \in [Client -> Uses]
    /\ result \in [Client -> Outcomes]
    /\ answer \in [Client -> Codes]

ServerType ==
    /\ server \in {"starting", "open", "closing", "ending", "ended"}
    /\ exit \in {"running", "clean", "failed"}
    /\ deadline \in BOOLEAN
    /\ connected \in [Client -> BOOLEAN]
    /\ faulted \in BOOLEAN

LEMMA TypeParts == TypeOK <=> PoolType /\ FlowType /\ ServerType
<1>1. TypeOK => PoolType  BY DEF TypeOK, PoolType
<1>2. TypeOK => FlowType  BY DEF TypeOK, FlowType, Outcomes, Codes
<1>3. TypeOK => ServerType  BY DEF TypeOK, ServerType
<1>4. PoolType /\ FlowType /\ ServerType => TypeOK
  BY DEF TypeOK, PoolType, FlowType, ServerType, Outcomes, Codes
<1> QED  BY <1>1, <1>2, <1>3, <1>4

LEMMA ServerTypeStep ==
    ASSUME ServerType, [Next]_vars
    PROVE  ServerType'
<1>1. CASE UNCHANGED <<server, exit, deadline, connected>> /\ faulted' \in BOOLEAN
  BY <1>1 DEF ServerType
<1>2. CASE Start \/ StartFails \/ Signal \/ Shutdown
  BY <1>2 DEF ServerType, Start, StartFails, Signal, Shutdown, CloseServer, EndPool,
              EndPoolFails, Exit, Deadline
<1>3. ASSUME NEW c \in Client, Connect(c) \/ Disconnect(c)
      PROVE  ServerType'
  <2>1. UNCHANGED <<server, exit, deadline, faulted>>
    BY <1>3 DEF Connect, Disconnect, process
  <2>2. \E b \in BOOLEAN : connected' = [connected EXCEPT ![c] = b]
    BY <1>3 DEF Connect, Disconnect
  <2>3. connected' \in [Client -> BOOLEAN]  BY <2>2, Zenon DEF ServerType
  <2> QED  BY <2>1, <2>3 DEF ServerType
<1>4. ASSUME NEW c \in Client, HandlerStep(c) \/ AskPool(c)
      PROVE  ServerType'
  <2>1. UNCHANGED <<server, exit, deadline, connected, faulted>>
    BY <1>4 DEF HandlerStep, Send, EnterHandler, Count, Reply, Ping, Pong, AskPool, process
  <2> QED  BY <2>1 DEF ServerType
<1>5. ASSUME NEW c \in Client, UseEnds(c) \/ UseFails(c)
      PROVE  ServerType'
  <2>1. UNCHANGED <<server, exit, deadline, connected>>
    BY <1>5 DEF UseEnds, UseFails, StatementFails, TransactionThrows, Rollback, process
  <2>2. \/ faulted' = faulted \/ faulted' = (faulted \/ ~PoolClosed)
        \/ \E r : faulted' = (faulted \/ (r = "error" /\ ~PoolClosed))
    BY <1>5, Zenon DEF UseEnds, UseFails, StatementFails, TransactionThrows, Rollback
  <2>3. faulted' \in BOOLEAN  BY <2>2, Zenon DEF ServerType
  <2> QED  BY <2>1, <2>3 DEF ServerType
<1>6. CASE UNCHANGED vars  BY <1>6 DEF vars, ServerType
<1> QED
  BY <1>2, <1>3, <1>4, <1>5, <1>6, NextCases DEF ServerStep, PoolStep

LEMMA AnswerType ==
    ASSUME FlowType, NEW c \in Client, NEW code \in Codes, Answer(c, code)
    PROVE  FlowType'
<1>1. NoRequest \in Request
  BY DEF NoRequest, Request, Kinds, Keys
<1>2. answer' = answer \/ answer' = [answer EXCEPT ![c] = code]
  BY Zenon DEF Answer
<1> QED  BY <1>1, <1>2 DEF Answer, FlowType, Uses, Outcomes

LEMMA CodeType == \A c \in Client : Code(c) \in Codes
BY DEF Code, Codes

LEMMA HandlerStepType ==
    ASSUME FlowType, NEW c \in Client, Flow(c), HandlerStep(c)
    PROVE  FlowType'
<1>1. ASSUME NEW code \in Codes, Answer(c, code)  PROVE FlowType'
  BY <1>1, AnswerType
<1>2. ASSUME NEW r \in Sent[c], Send(c, r)  PROVE FlowType'
  <2>1. r \in Request  BY ApiServerAssumption DEF ApiServerAssumption
  <2>2. CASE /\ request' = [request EXCEPT ![c] = r]
             /\ \E u \in Uses : use' = [use EXCEPT ![c] = u]
             /\ answer' = [answer EXCEPT ![c] = 0] /\ UNCHANGED result
    BY <2>1, <2>2 DEF FlowType, Codes
  <2>3. \/ Answer(c, 404) \/ Answer(c, 401) \/ Answer(c, 400)
        \/ /\ request' = [request EXCEPT ![c] = r]
           /\ \E u \in Uses : use' = [use EXCEPT ![c] = u]
           /\ answer' = [answer EXCEPT ![c] = 0] /\ UNCHANGED result
    BY <1>2 DEF Send, Uses
  <2> QED  BY <1>1, <2>2, <2>3 DEF Codes
<1>3. CASE EnterHandler(c)
  <2>1. request[c].kind \in JobPath  BY <1>3 DEF EnterHandler, Admitted, Flow
  <2>3. CASE /\ request[c].kind # "unrouted"
             /\ use' = [use EXCEPT ![c] = FirstUse(request[c].kind)]
             /\ UNCHANGED <<request, result, answer>>
    <3>1. FirstUse(request[c].kind) \in Uses
      BY <2>1, <2>3 DEF FirstUse, JobPath, JobKind, Uses
    <3> QED  BY <2>3, <3>1 DEF FlowType
  <2> QED  BY <1>1, <1>3, <2>3 DEF EnterHandler, Codes
<1>4. CASE Count(c)  BY <1>4 DEF Count, FlowType, Uses
<1>5. CASE Reply(c)  BY <1>1, <1>5, CodeType DEF Reply
<1>6. CASE Ping(c)  BY <1>6 DEF Ping, FlowType
<1>7. ASSUME NEW alive \in BOOLEAN, Pong(c, alive)  PROVE FlowType'
  <2>1. Answer(c, 200) \/ Answer(c, 503)
    BY <1>7, Zenon DEF Pong
  <2> QED  BY <1>1, <2>1 DEF Codes
<1> QED  BY <1>2, <1>3, <1>4, <1>5, <1>6, <1>7 DEF HandlerStep

LEMMA HandOverType ==
    ASSUME FlowType, PoolType, NEW c \in Client, NEW n, NEW r \in Outcomes,
           HandOver(c, n, r), UNCHANGED <<request, use, answer>>
    PROVE  FlowType'
<1>1. CASE queue = <<>>  BY <1>1 DEF HandOver, FlowType
<1>2. CASE queue # <<>>
  <2>1. Head(queue) \in Client  BY <1>2, TailFacts
  <2> DEFINE t == IF PoolClosed THEN "error" ELSE "none"
  <2>2. t \in Outcomes  BY DEF Outcomes
  <2>3. result' = [result EXCEPT ![c] = r, ![Head(queue)] = t]
    BY <1>2 DEF HandOver
  <2> HIDE DEF t
  <2> QED  BY <2>1, <2>2, <2>3 DEF FlowType
<1> QED  BY <1>1, <1>2

LEMMA ResultsType ==
    ASSUME FlowType, NEW c \in Client
    PROVE  Results(c) \subseteq Outcomes /\ AfterRollback(c) \subseteq Outcomes
<1>1. request[c].key \in Keys  BY DEF FlowType, Request
<1>2. result[c] \in Outcomes  BY DEF FlowType
<1>3. AfterRollback(c) \subseteq Outcomes  BY <1>2 DEF AfterRollback, Outcomes
<1> QED  BY <1>1, <1>3 DEF Results, Outcomes

LEMMA FlowTypeStep ==
    ASSUME FlowType, PoolType, \A c \in Client : Flow(c), [Next]_vars
    PROVE  FlowType'
<1>1. CASE UNCHANGED <<request, use, result, answer>>  BY <1>1 DEF FlowType
<1>2. ASSUME NEW c \in Client, Connect(c)  PROVE FlowType'
  BY <1>2 DEF Connect, FlowType, Codes
<1>3. CASE Start \/ StartFails \/ Signal \/ Shutdown \/ \E c \in Client : Disconnect(c)
  BY <1>1, <1>3 DEF Start, StartFails, Signal, Shutdown, CloseServer, EndPool,
                    EndPoolFails, Exit, Deadline, Disconnect
<1>4. ASSUME NEW c \in Client, AskPool(c)  PROVE FlowType'
  <2>1. UNCHANGED <<request, use, answer>>  BY <1>4 DEF AskPool
  <2>2. result' = result \/ result' = [result EXCEPT ![c] = "error"]
    BY <1>4 DEF AskPool
  <2> QED  BY <2>1, <2>2 DEF FlowType, Outcomes
<1>5. ASSUME NEW c \in Client, UseEnds(c) \/ StatementFails(c) \/ Rollback(c)
      PROVE  FlowType'
  <2>1. "error" \in Outcomes  BY DEF Outcomes
  <2>2. PICK n \in Connection, r \in Outcomes : HandOver(c, n, r)
    BY <1>5, <2>1, ResultsType DEF UseEnds, StatementFails, Rollback
  <2> QED  BY <1>5, <2>2, HandOverType DEF UseEnds, StatementFails, Rollback
<1>7. ASSUME NEW c \in Client, TransactionThrows(c)  PROVE FlowType'
  <2>1. UNCHANGED <<request, use, answer>>  BY <1>7 DEF TransactionThrows
  <2>2. PICK r \in Thrown(c) : result' = [result EXCEPT ![c] = r]
    BY <1>7 DEF TransactionThrows
  <2>3. r \in Outcomes  BY DEF Thrown, Outcomes
  <2> QED  BY <2>1, <2>2, <2>3 DEF FlowType
<1>6. CASE UNCHANGED vars  BY <1>1, <1>6 DEF vars
<1> QED
  BY <1>2, <1>3, <1>4, <1>5, <1>6, <1>7, NextCases, HandlerStepType
  DEF ServerStep, PoolStep, UseFails

-----------------------------------------------------------------------------
(***************************************************************************)
(* What the handlers have seen.                                            *)
(***************************************************************************)
\* A step that leaves a handler's own variables alone.
LEMMA FlowFrame ==
    ASSUME NEW d \in Client, Flow(d),
           request'[d] = request[d], use'[d] = use[d], result'[d] = result[d],
           answer'[d] = answer[d] \/ answer'[d] = 0,
           pc'[d] = "idle" => pc[d] = "idle",
           faulted => faulted', PoolClosed => PoolClosed',
           PoolClosed' => ~connected'[d]
    PROVE  Flow(d)'
<1>1. pc'[d] = "idle" => use'[d] = "none" /\ result'[d] = "none"  BY DEF Flow
<1>2. use'[d] = "auth" => request'[d].kind \in JobPath  BY DEF Flow
<1>3. use'[d] = "auth" /\ result'[d] = "active" => request'[d].key = "active"
  BY DEF Flow
<1>4. use'[d] \in Uses \ {"none", "auth", "health"} => request'[d].key = "active"
  BY DEF Flow
<1>5. result'[d] = "error" => faulted' \/ PoolClosed'  BY Zenon DEF Flow
<1>6. answer'[d] = 500 => faulted'
  <2>1. 0 # 500  OBVIOUS
  <2> QED  BY <2>1, Zenon DEF Flow
<1> QED  BY <1>1, <1>2, <1>3, <1>4, <1>5, <1>6 DEF Flow

\* A handler answers; with 500 only when it has seen an error.
LEMMA FlowAnswer ==
    ASSUME FlowType, PoolType, NEW c \in Client, NEW d \in Client, Flow(c), Flow(d),
           NEW code, Answer(c, code), code = 500 => result[c] = "error",
           UNCHANGED <<server, connected, faulted>>
    PROVE  Flow(d)'
<1>1. PoolClosed' <=> PoolClosed  BY DEF PoolClosed
<1>2. CASE d # c
  <2>1. /\ request'[d] = request[d] /\ use'[d] = use[d] /\ result'[d] = result[d]
        /\ pc'[d] = pc[d]
    BY <1>2 DEF Answer, FlowType, PoolType
  <2>2. answer'[d] = answer[d]  BY <1>2 DEF Answer, FlowType
  <2>3. PoolClosed' => ~connected'[d]  BY <1>1, Zenon DEF Flow
  <2> QED  BY <1>1, <2>1, <2>2, <2>3, FlowFrame
<1>3. CASE d = c
  <2>1. use'[c] = "none" /\ result'[c] = "none"  BY DEF Answer, FlowType
  <2>2. answer'[c] = 500 => faulted'
    <3>1. CASE ~connected[c]
      <4>1. answer' = answer  BY <3>1 DEF Answer
      <4> QED  BY <4>1, Zenon DEF Flow
    <3>2. CASE connected[c]
      <4>1. answer'[c] = code  BY <3>2 DEF Answer, FlowType
      <4>2. ~PoolClosed  BY <3>2, Zenon DEF Flow
      <4>3. code = 500 => faulted  BY <4>2, Zenon DEF Flow
      <4> QED  BY <4>1, <4>3
    <3> QED  BY <3>1, <3>2
  <2>3. PoolClosed' => ~connected'[c]  BY <1>1, Zenon DEF Flow
  <2> QED  BY <1>3, <2>1, <2>2, <2>3 DEF Flow
<1> QED  BY <1>2, <1>3

\* A handler goes on with the connection-less part of its work.
LEMMA FlowOn ==
    ASSUME FlowType, PoolType, NEW c \in Client, NEW d \in Client, Flow(c), Flow(d),
           \E p \in Handling : pc' = [pc EXCEPT ![c] = p],
           \/ UNCHANGED use
           \/ request[c].key = "active"
              /\ \E u \in Uses \ {"auth"} : use' = [use EXCEPT ![c] = u],
           UNCHANGED <<server, connected, faulted, request, result, answer>>
    PROVE  Flow(d)'
<1>1. PoolClosed' <=> PoolClosed  BY DEF PoolClosed
<1>2. PoolClosed' => ~connected'[d]  BY <1>1, Zenon DEF Flow
<1>3. pc'[d] = "idle" => pc[d] = "idle"  BY DEF PoolType, Handling, Holding
<1>4. CASE d # c \/ UNCHANGED use
  <2>1. use'[d] = use[d]  BY <1>4 DEF FlowType
  <2> QED  BY <1>1, <1>2, <1>3, <2>1, FlowFrame
<1>5. CASE d = c /\ request[c].key = "active" /\ use' # use
  <2>1. pc'[c] # "idle"  BY DEF PoolType, Handling, Holding
  <2>2. use'[c] # "auth"  BY <1>5 DEF FlowType
  <2>3. result'[c] = "error" => faulted' \/ PoolClosed'  BY <1>1, Zenon DEF Flow
  <2>4. answer'[c] = 500 => faulted'  BY Zenon DEF Flow
  <2> QED  BY <1>2, <1>5, <2>1, <2>2, <2>3, <2>4 DEF Flow
<1> QED  BY <1>4, <1>5

LEMMA CodeOfError == \A c \in Client : Code(c) = 500 => result[c] = "error"
BY DEF Code

LEMMA FlowSend ==
    ASSUME FlowType, PoolType, NEW c \in Client, NEW d \in Client, Flow(c), Flow(d),
           NEW r \in Sent[c], Send(c, r)
    PROVE  Flow(d)'
<1>1. UNCHANGED <<server, connected, faulted>>  BY DEF Send, process
<1>2. CASE Answer(c, 404)  BY <1>1, <1>2, FlowAnswer
<1>3. CASE Answer(c, 401) \/ Answer(c, 400)  BY <1>1, <1>3, FlowAnswer
<1>4. CASE /\ r.kind = "health" \/ (r.kind \in JobPath /\ r.key # "missing")
           /\ request' = [request EXCEPT ![c] = r]
           /\ pc' = [pc EXCEPT ![c] = "asking"]
           /\ use' = [use EXCEPT ![c] = IF r.kind = "health" THEN "health" ELSE "auth"]
           /\ answer' = [answer EXCEPT ![c] = 0]
           /\ UNCHANGED result
  <2>1. PoolClosed' <=> PoolClosed  BY <1>1 DEF PoolClosed
  <2>2. PoolClosed' => ~connected'[d]  BY <1>1, <2>1, Zenon DEF Flow
  <2>3. CASE d # c
    <3>1. /\ request'[d] = request[d] /\ use'[d] = use[d] /\ result'[d] = result[d]
          /\ answer'[d] = answer[d] /\ pc'[d] = pc[d]
      BY <1>4, <2>3 DEF FlowType, PoolType
    <3> QED  BY <1>1, <2>1, <2>2, <3>1, FlowFrame
  <2>4. CASE d = c
    <3>1. result[c] = "none"  BY DEF Send, Flow
    <3>2. /\ request'[c] = r /\ pc'[c] = "asking" /\ result'[c] = "none"
          /\ answer'[c] = 0 /\ use'[c] \in {"health", "auth"}
          /\ use'[c] = "auth" => r.kind \in JobPath
      BY <1>4, <3>1 DEF FlowType, PoolType
    <3> QED  BY <2>2, <2>4, <3>2 DEF Flow
  <2> QED  BY <2>3, <2>4
<1> QED  BY <1>2, <1>3, <1>4 DEF Send

LEMMA FlowHandler ==
    ASSUME FlowType, PoolType, NEW c \in Client, NEW d \in Client, Flow(c), Flow(d),
           HandlerStep(c)
    PROVE  Flow(d)'
<1>1. CASE EnterHandler(c)
  <2>1. UNCHANGED <<server, connected, faulted>>  BY <1>1 DEF EnterHandler, process
  <2>2. request[c].key = "active" /\ request[c].kind \in JobPath
    BY <1>1 DEF EnterHandler, Admitted, Flow
  <2>3. CASE Answer(c, 400) \/ Answer(c, 404)  BY <2>1, <2>3, FlowAnswer
  <2>4. CASE /\ request[c].kind # "unrouted"
             /\ pc' = [pc EXCEPT ![c] = "asking"]
             /\ use' = [use EXCEPT ![c] = FirstUse(request[c].kind)]
             /\ UNCHANGED <<request, result, answer>>
    <3>1. FirstUse(request[c].kind) \in Uses \ {"auth"}
      BY <2>2, <2>4 DEF FirstUse, JobPath, JobKind, Uses
    <3>2. "asking" \in Handling  BY DEF Handling
    <3> QED  BY <2>1, <2>2, <2>4, <3>1, <3>2, FlowOn
  <2> QED  BY <1>1, <2>3, <2>4 DEF EnterHandler
<1>2. CASE Count(c)
  <2>1. request[c].key = "active"  BY <1>2 DEF Count, Flow, Uses
  <2>2. "asking" \in Handling /\ "count" \in Uses \ {"auth"}  BY DEF Handling, Uses
  <2> QED  BY <1>2, <2>1, <2>2, FlowOn DEF Count, process
<1>3. CASE Reply(c)
  <2>1. UNCHANGED <<server, connected, faulted>> /\ Answer(c, Code(c))
    BY <1>3 DEF Reply, process
  <2> QED  BY <2>1, CodeOfError, FlowAnswer
<1>4. CASE Ping(c)
  <2>1. "pinging" \in Handling  BY DEF Handling
  <2> QED  BY <1>4, <2>1, FlowOn DEF Ping, process
<1>5. ASSUME NEW alive \in BOOLEAN, Pong(c, alive)  PROVE Flow(d)'
  <2>1. UNCHANGED <<server, connected, faulted>>  BY <1>5 DEF Pong, process
  <2>2. Answer(c, 200) \/ Answer(c, 503)  BY <1>5, Zenon DEF Pong
  <2> QED  BY <2>1, <2>2, FlowAnswer
<1> QED  BY <1>1, <1>2, <1>3, <1>4, <1>5, FlowSend DEF HandlerStep

LEMMA FlowAskPool ==
    ASSUME FlowType, PoolType, NEW c \in Client, NEW d \in Client, Flow(d), AskPool(c)
    PROVE  Flow(d)'
<1>1. UNCHANGED <<server, connected, request, use, answer, faulted>>
  BY DEF AskPool, process
<1>2. PoolClosed' <=> PoolClosed  BY <1>1 DEF PoolClosed
<1>3. PoolClosed' => ~connected'[d]  BY <1>1, <1>2, Zenon DEF Flow
<1>4. pc'[d] = "idle" => pc[d] = "idle"  BY DEF AskPool, PoolType
<1>5. CASE result'[d] = result[d]  BY <1>1, <1>2, <1>3, <1>4, <1>5, FlowFrame
<1>6. CASE result'[d] # result[d]
  <2>1. d = c /\ PoolClosed /\ result'[c] = "error" /\ pc'[c] = "returned"
    BY <1>6 DEF AskPool, FlowType, PoolType
  <2>2. answer'[d] = 500 => faulted'  BY <1>1, Zenon DEF Flow
  <2> QED  BY <1>1, <1>2, <1>3, <2>1, <2>2 DEF Flow
<1> QED  BY <1>5, <1>6

\* A use of c ends with r and its connection goes to the first of the queue.
LEMMA FlowHandOver ==
    ASSUME FlowType, PoolInv, NEW c \in Client, NEW d \in Client, Flow(d),
           NEW n \in Connection, NEW r, owner[n] = c, HandOver(c, n, r),
           use[c] = "auth" /\ r = "active" => request[c].key = "active",
           r = "error" => faulted' \/ PoolClosed,
           faulted => faulted',
           UNCHANGED <<server, connected, request, use, answer>>
    PROVE  Flow(d)'
<1>1. PoolClosed' <=> PoolClosed  BY DEF PoolClosed
<1>2. PoolClosed' => ~connected'[d]  BY <1>1, Zenon DEF Flow
<1>3. answer'[d] = 500 => faulted'  BY Zenon DEF Flow
<1>4. pc[c] \in Holding
  BY ApiServerAssumption DEF PoolInv, PoolAccounts, ApiServerAssumption
<1>5. queue # <<>> => Head(queue) \in Client /\ pc[Head(queue)] = "waiting"
  BY TailFacts DEF PoolInv, QueueOK
<1>6. CASE d = c
  <2>1. result'[c] = r /\ pc'[c] = "returned"
    BY <1>4, <1>5 DEF HandOver, FlowType, PoolInv, PoolType
  <2>2. result'[c] = "error" => faulted' \/ PoolClosed'  BY <1>1, <2>1, Zenon
  <2> QED  BY <1>2, <1>3, <1>6, <2>1, <2>2 DEF Flow
<1>7. CASE d # c /\ queue # <<>> /\ d = Head(queue)
  <2>1. /\ result'[d] = IF PoolClosed THEN "error" ELSE "none"
        /\ pc'[d] \in {"returned", "using"}
    BY <1>7 DEF HandOver, FlowType, PoolInv, PoolType
  <2> QED  BY <1>1, <1>2, <1>3, <2>1 DEF Flow
<1>8. CASE d # c /\ (queue = <<>> \/ d # Head(queue))
  <2>1. result'[d] = result[d] /\ pc'[d] = pc[d]
    BY <1>8 DEF HandOver, FlowType, PoolInv, PoolType
  <2> QED  BY <1>1, <1>2, <2>1, FlowFrame
<1> QED  BY <1>6, <1>7, <1>8

LEMMA FlowPool ==
    ASSUME FlowType, PoolInv, NEW c \in Client, NEW d \in Client, Flow(c), Flow(d),
           PoolStep(c)
    PROVE  Flow(d)'
<1>1. CASE AskPool(c)  BY <1>1, FlowAskPool DEF PoolInv
<1>2. CASE UseEnds(c)
  <2>1. UNCHANGED <<server, connected, request, use, answer, faulted>>
    BY <1>2 DEF UseEnds, process
  <2>2. PICK n \in Connection, r \in Results(c) : owner[n] = c /\ HandOver(c, n, r)
    BY <1>2 DEF UseEnds
  <2>3. use[c] = "auth" /\ r = "active" => request[c].key = "active"
    BY <2>2 DEF Results
  <2>4. r # "error"
    <3>1. request[c].key # "error"  BY DEF FlowType, Request, Keys
    <3> QED  BY <2>2, <3>1 DEF Results
  <2> QED  BY <2>1, <2>2, <2>3, <2>4, FlowHandOver
<1>3. ASSUME NEW n \in Connection, owner[n] = c, HandOver(c, n, "error"),
             faulted' = (faulted \/ ~PoolClosed),
             UNCHANGED <<server, connected, request, use, answer>>
      PROVE  Flow(d)'
  <2>1. (faulted => faulted') /\ (faulted' \/ PoolClosed)  BY <1>3, Zenon
  <2> QED  BY <1>3, <2>1, FlowHandOver
<1>4. CASE StatementFails(c)  BY <1>3, <1>4 DEF StatementFails, process
<1>5. CASE Rollback(c)
  <2>1. UNCHANGED <<server, connected, request, use, answer>>
    BY <1>5 DEF Rollback, process
  <2>2. ASSUME NEW n \in Connection, owner[n] = c, NEW r \in AfterRollback(c),
               HandOver(c, n, r), UNCHANGED faulted
        PROVE  Flow(d)'
    <3>1. r = "error" => result[c] = "error"  BY DEF AfterRollback
    <3>2. r = "error" => faulted' \/ PoolClosed  BY <2>2, <3>1, Zenon DEF Flow
    <3>3. use[c] = "auth" /\ r = "active" => request[c].key = "active"
      BY DEF AfterRollback, Flow
    <3>4. faulted => faulted'  BY <2>2, Zenon
    <3> QED  BY <2>1, <2>2, <3>2, <3>3, <3>4, FlowHandOver
  <2> QED  BY <1>3, <1>5, <2>1, <2>2 DEF Rollback
<1>6. CASE TransactionThrows(c)
  <2>1. UNCHANGED <<server, connected, request, use, answer>>
    BY <1>6 DEF TransactionThrows, process
  <2>2. PICK r \in Thrown(c) : /\ result' = [result EXCEPT ![c] = r]
                               /\ faulted' = (faulted \/ (r = "error" /\ ~PoolClosed))
    BY <1>6 DEF TransactionThrows
  <2>3. pc' = [pc EXCEPT ![c] = "rolling_back"] /\ use[c] # "auth"
    BY <1>6 DEF TransactionThrows, Transactions
  <2>4. PoolClosed' <=> PoolClosed  BY <2>1 DEF PoolClosed
  <2>5. PoolClosed' => ~connected'[d]  BY <2>1, <2>4, Zenon DEF Flow
  <2>6. faulted => faulted'  BY <2>2, Zenon
  <2>7. r = "error" => faulted' \/ PoolClosed'  BY <2>2, <2>4, Zenon
  <2>8. CASE d # c
    <3>1. result'[d] = result[d] /\ pc'[d] = pc[d]
      BY <2>2, <2>3, <2>8 DEF FlowType, PoolInv, PoolType
    <3> QED  BY <2>1, <2>4, <2>5, <2>6, <3>1, FlowFrame
  <2>9. CASE d = c
    <3>1. result'[c] = r /\ pc'[c] = "rolling_back"
      BY <2>2, <2>3 DEF FlowType, PoolInv, PoolType
    <3>2. answer'[c] = 500 => faulted'  BY <2>1, <2>6, <2>9, Zenon DEF Flow
    <3>3. result'[c] = "error" => faulted' \/ PoolClosed'  BY <2>7, <3>1, Zenon
    <3> QED  BY <2>1, <2>3, <2>5, <2>9, <3>1, <3>2, <3>3 DEF Flow
  <2> QED  BY <2>8, <2>9
<1> QED  BY <1>1, <1>2, <1>4, <1>5, <1>6 DEF PoolStep, UseFails

LEMMA FlowServer ==
    ASSUME FlowType, ServerType, NEW d \in Client, Flow(d), ServerStep
    PROVE  Flow(d)'
<1>1. UNCHANGED <<request, use, result, pc, faulted>>
  BY DEF ServerStep, Start, StartFails, Signal, Shutdown, CloseServer, EndPool,
         EndPoolFails, Exit, Deadline, Connect, Disconnect
<1>2. answer'[d] = answer[d] \/ answer'[d] = 0
  BY DEF ServerStep, Start, StartFails, Signal, Shutdown, CloseServer, EndPool,
         EndPoolFails, Exit, Deadline, Connect, Disconnect, FlowType
<1>3. PoolClosed => PoolClosed'
  BY DEF ServerStep, Start, StartFails, Signal, Shutdown, CloseServer, EndPool,
         EndPoolFails, Exit, Deadline, Connect, Disconnect, PoolClosed, process
<1>4. PoolClosed' => ~connected'[d]
  <2>1. CASE Start \/ Signal
    BY <2>1 DEF Start, Signal, PoolClosed
  <2>2. CASE CloseServer
    BY <2>2, Zenon DEF CloseServer
  <2>3. CASE StartFails \/ EndPool \/ EndPoolFails \/ Exit \/ Deadline
    <3>1. PoolClosed' => PoolClosed
      BY <2>3 DEF StartFails, EndPool, EndPoolFails, Exit, Deadline, PoolClosed
    <3>2. UNCHANGED connected
      BY <2>3 DEF StartFails, EndPool, EndPoolFails, Exit, Deadline
    <3> QED  BY <3>1, <3>2, Zenon DEF Flow
  <2>4. ASSUME NEW c \in Client, Connect(c)  PROVE PoolClosed' => ~connected'[d]
    <3>1. ~PoolClosed'  BY <2>4 DEF Connect, PoolClosed, process
    <3> QED  BY <3>1
  <2>5. ASSUME NEW c \in Client, Disconnect(c)  PROVE PoolClosed' => ~connected'[d]
    <3>1. PoolClosed' => PoolClosed  BY <2>5 DEF Disconnect, PoolClosed, process
    <3>2. connected'[d] => connected[d]
      BY <2>5, Zenon DEF Disconnect, ServerType
    <3> QED  BY <3>1, <3>2, Zenon DEF Flow
  <2> QED  BY <2>1, <2>2, <2>3, <2>4, <2>5, Zenon DEF ServerStep, Shutdown
<1>5. /\ request'[d] = request[d] /\ use'[d] = use[d] /\ result'[d] = result[d]
      /\ pc'[d] = pc[d]
  BY <1>1
<1>6. faulted => faulted'  BY <1>1, Zenon
<1> QED  BY <1>2, <1>3, <1>4, <1>5, <1>6, FlowFrame

-----------------------------------------------------------------------------
(***************************************************************************)
(* The inductive invariant, and what follows from it.                      *)
(***************************************************************************)
LEMMA InvStep == IInv /\ [Next]_vars => IInv'
<1> SUFFICES ASSUME IInv, [Next]_vars PROVE IInv'
  OBVIOUS
<1>1. /\ PoolType /\ FlowType /\ ServerType /\ PoolInv
      /\ \A c \in Client : Flow(c)
  BY TypeParts DEF IInv, PoolInv
<1>2. PoolInv'  BY <1>1, PoolInvStep
<1>3. FlowType'  BY <1>1, FlowTypeStep
<1>4. ServerType'  BY <1>1, ServerTypeStep
<1>5. (PoolType /\ FlowType /\ ServerType)' => TypeOK'  BY TypeParts, PTL
<1>6. ASSUME NEW d \in Client  PROVE Flow(d)'
  <2>1. CASE UNCHANGED vars
    <3>1. /\ request' = request /\ use' = use /\ result' = result /\ pc' = pc
          /\ answer' = answer /\ UNCHANGED <<server, connected, faulted>>
      BY <2>1 DEF vars
    <3>2. PoolClosed' <=> PoolClosed  BY <3>1 DEF PoolClosed
    <3>3. PoolClosed' => ~connected'[d]  BY <1>1, <3>1, <3>2, Zenon DEF Flow
    <3>4. faulted => faulted'  BY <3>1, Zenon
    <3> QED  BY <1>1, <3>1, <3>2, <3>3, <3>4, FlowFrame
  <2>2. CASE ServerStep  BY <1>1, <2>2, FlowServer
  <2>3. ASSUME NEW c \in Client, HandlerStep(c)  PROVE Flow(d)'
    BY <1>1, <2>3, FlowHandler
  <2>4. ASSUME NEW c \in Client, PoolStep(c)  PROVE Flow(d)'
    BY <1>1, <2>4, FlowPool
  <2> QED  BY <2>1, <2>2, <2>3, <2>4, NextCases
<1> QED  BY <1>2, <1>3, <1>4, <1>5, <1>6 DEF PoolInv, IInv

LEMMA SpecInv == Spec => []IInv
<1>1. Init => IInv  BY InvInit
<1>2. IInv /\ [Next]_vars => IInv'  BY InvStep
<1> QED  BY <1>1, <1>2, PTL DEF Spec

\* Every variable has its type, for every set of clients, requests and
\* connections.
THEOREM TypeCorrect == Spec => []TypeOK
<1>1. IInv => TypeOK  BY DEF IInv
<1> QED  BY <1>1, SpecInv, PTL

\* No connection of the pool leaks, none has two holders, and nobody waits while
\* one is free, whatever fails: finally, a transaction releases its connection, also
\* when its rollback fails, and pool.query and pool.execute do on every path.
THEOREM PoolAccountsHold == Spec => []PoolAccounts
<1>1. IInv => PoolAccounts  BY DEF IInv
<1> QED  BY <1>1, SpecInv, PTL

\* A client is told 500 only after the database has failed: pool.end() is called
\* when no HTTP connection is left, so stopping never shows in an answer.
THEOREM ErrorsComeFromFaults == Spec => []ErrorOnlyAfterFault
<1>1. ASSUME IInv, NEW c \in Client, answer[c] = 500  PROVE faulted
  <2>1. Flow(c)  BY <1>1 DEF IInv
  <2> QED  BY <1>1, <2>1, Zenon DEF Flow
<1>2. IInv => ErrorOnlyAfterFault  BY <1>1 DEF ErrorOnlyAfterFault
<1> QED  BY <1>2, SpecInv, PTL

\* Beyond apiKeyAuth's own look-up, only requests with an active key use the
\* database.
THEOREM KeysGuardJobRoutes == Spec => []JobRoutesNeedActiveKey
<1>1. IInv => JobRoutesNeedActiveKey  BY DEF IInv, Flow, JobRoutesNeedActiveKey
<1> QED  BY <1>1, SpecInv, PTL

=============================================================================
