------------------------------- MODULE Enqueue -------------------------------
(***************************************************************************)
(* POST /jobs with an Idempotency-Key: clients that send a request again   *)
(* and again until they get an answer they can keep, handlers of several   *)
(* such requests at once (each on its own connection of the pool, in its   *)
(* own transaction), statements, commits and answers that fail or get      *)
(* lost, and the unique index on jobs.request_key that all of it rests on. *)
(*                                                                         *)
(* A client knows what it asks for and may write the same request          *)
(* differently each time: members in another order, defaults written out   *)
(* or not.  A key stands for the digest of client id and Idempotency-Key:  *)
(* clients that share one here are senders of one API client.  Other       *)
(* columns and tables are in module JobStore.                              *)
(***************************************************************************)
EXTENDS CanonicalJson, FiniteSets

CONSTANTS
    Client,     \* senders of one request each
    Key,        \* hashed request keys
    NoKey,      \* SQL's NULL: the request has no Idempotency-Key
    Body,       \* the bodies that requests are sent with
    JobId,      \* what uuidv4 may return
    Connection, \* connections of the pool, one per request being handled
    NoId,       \* no job id
    MaxFaults   \* bound on failures: statements, commits, answers, connections

ASSUME EnqueueAssumption ==
    /\ NoKey \notin Key
    /\ Body \subseteq RequestBody
    /\ NoId \notin JobId
    /\ MaxFaults \in Nat

VARIABLES
    ask,      \* the key and the input of each client's request
    jobs,     \* the committed rows: id, request_key, request_hash, input
    conn,     \* the request each connection is handling
    answers,  \* the answers each client has received
    faults

vars == <<ask, jobs, conn, answers, faults>>

\* What each body asks for, and the text its hash is made of.
asked == [body \in Body |-> Asked(body)]
hashed == [body \in Body |-> RequestHash(body)]

Input == { asked[body] : body \in Body }

Final == {202, 409}

Free == [pc |-> "free"]

Init ==
    /\ ask \in [Client -> [key: Key \cup {NoKey}, input: Input]]
    /\ jobs = {}
    /\ conn = [n \in Connection |-> Free]
    /\ answers = [c \in Client |-> {}]
    /\ faults = 0

Fault == faults < MaxFaults /\ faults' = faults + 1

KeyOf(n) == ask[conn[n].client].key

\* Open transactions hold their row of the unique index until they end.
Holding(n) == conn[n].pc = "commit"

Keyed(key) == { j \in jobs : j.key = key }

-----------------------------------------------------------------------------
\* A client sends its request, for the first time or again, and a handler gets
\* a connection and a new id for it.
Receive(n, c) ==
    /\ conn[n].pc = "free"
    /\ \A a \in answers[c] : a.code \notin Final
    /\ \E body \in Body, id \in JobId :
          /\ asked[body] = ask[c].input
          /\ \A j \in jobs : j.id # id
          /\ \A m \in Connection : conn[m].pc # "free" => conn[m].id # id
          /\ conn' = [conn EXCEPT ![n] = [pc |-> "insert", client |-> c,
                                          body |-> body, id |-> id]]
    /\ UNCHANGED <<ask, jobs, answers, faults>>

\* Bug variant: the index is not unique.
TakenNever(n) == FALSE

\* The unique index refuses a key that a committed row has.
Taken(n) == KeyOf(n) # NoKey /\ Keyed(KeyOf(n)) # {}

\* INSERT INTO jobs waits while another transaction holds the same key.
Insert(n) ==
    /\ conn[n].pc = "insert"
    /\ ~Taken(n)
    /\ \A m \in Connection : Holding(m) => KeyOf(m) = NoKey \/ KeyOf(m) # KeyOf(n)
    /\ conn' = [conn EXCEPT ![n].pc = "commit"]
    /\ UNCHANGED <<ask, jobs, answers, faults>>

\* Bug variant: ER_DUP_ENTRY is an error like any other.
InsertRefusedFails(n) ==
    /\ conn[n].pc = "insert"
    /\ Taken(n)
    /\ conn' = [conn EXCEPT ![n] = Free]
    /\ UNCHANGED <<ask, jobs, answers, faults>>

\* ER_DUP_ENTRY: rollback, then the row is looked up by its key.
InsertRefused(n) ==
    /\ conn[n].pc = "insert"
    /\ Taken(n)
    /\ conn' = [conn EXCEPT ![n].pc = "duplicate"]
    /\ UNCHANGED <<ask, jobs, answers, faults>>

\* The hash of a row without a key is NULL in the table; nothing reads it.
Row(n) ==
    [id |-> conn[n].id, key |-> KeyOf(n), hash |-> hashed[conn[n].body],
     input |-> asked[conn[n].body]]

\* The job, its audit row and its intent become visible at once.
Commits(n) == conn[n].pc = "commit" /\ jobs' = jobs \cup { Row(n) }

Commit(n) ==
    /\ Commits(n)
    /\ conn' = [conn EXCEPT ![n].pc = "fetch"]
    /\ UNCHANGED <<ask, answers, faults>>

-----------------------------------------------------------------------------
\* The handler answers and releases its connection; the answer arrives or not.
Answer(n, code, id) ==
    /\ conn' = [conn EXCEPT ![n] = Free]
    /\ \/ /\ answers' = [answers EXCEPT ![conn[n].client] =
                           @ \cup { [code |-> code, id |-> id] }]
          /\ UNCHANGED faults
       \/ Fault /\ UNCHANGED answers
    /\ UNCHANGED <<ask, jobs>>

\* 202 with the row of the job just committed.
Accept(n) ==
    /\ conn[n].pc = "fetch"
    /\ Answer(n, 202, conn[n].id)

\* Bug variant: the hashes are not compared.
SameRequestAlways(n, j) == TRUE

SameRequest(n, j) == j.hash = hashed[conn[n].body]

\* 202 with the job that already has the key, if it was the same request.
AcceptAgain(n) ==
    /\ conn[n].pc = "duplicate"
    /\ \E j \in Keyed(KeyOf(n)) : SameRequest(n, j) /\ Answer(n, 202, j.id)

\* IDEMPOTENCY_CONFLICT.
Refuse(n) ==
    /\ conn[n].pc = "duplicate"
    /\ \E j \in Keyed(KeyOf(n)) : ~SameRequest(n, j) /\ Answer(n, 409, NoId)

\* Any statement fails, is a deadlock's victim, or loses its connection, also
\* the SELECT after the commit; what is not committed is rolled back.
Fail(n) ==
    /\ conn[n].pc # "free"
    /\ Fault
    /\ conn' = [conn EXCEPT ![n] = Free]
    /\ answers' \in { answers, [answers EXCEPT ![conn[n].client] =
                                  @ \cup { [code |-> 500, id |-> NoId] }] }
    /\ UNCHANGED <<ask, jobs>>

\* The commit is applied, but the handler sees an error and answers 500.
CommitReplyLost(n) ==
    /\ Commits(n)
    /\ Fault
    /\ conn' = [conn EXCEPT ![n] = Free]
    /\ answers' = [answers EXCEPT ![conn[n].client] =
                     @ \cup { [code |-> 500, id |-> NoId] }]
    /\ UNCHANGED ask

-----------------------------------------------------------------------------
Handle(n) ==
    Insert(n) \/ InsertRefused(n) \/ Commit(n) \/ Accept(n) \/ AcceptAgain(n) \/ Refuse(n)

Next ==
    \E n \in Connection :
        \/ \E c \in Client : Receive(n, c)
        \/ Handle(n) \/ Fail(n) \/ CommitReplyLost(n)

Spec == Init /\ [][Next]_vars

(***************************************************************************)
(* Handlers run to their end, and the pool's queue gives every request a   *)
(* connection in its turn, so a client that keeps trying gets one.         *)
(***************************************************************************)
Fairness ==
    /\ \A n \in Connection : WF_vars(Handle(n))
    /\ \A c \in Client : SF_vars(\E n \in Connection : Receive(n, c))

FairSpec == Spec /\ Fairness

-----------------------------------------------------------------------------
\* What a handler knows: its client, the body, the id it has drawn.
Request == [pc: {"insert", "commit", "fetch", "duplicate"},
            client: Client, body: Body, id: JobId]

\* Every variable has its type.
TypeOK ==
    /\ ask \in [Client -> [key: Key \cup {NoKey}, input: Input]]
    /\ jobs \subseteq [id: JobId, key: Key \cup {NoKey},
                       hash: { hashed[body] : body \in Body }, input: Input]
    /\ conn \in [Connection -> {Free} \cup Request]
    /\ answers \in [Client -> SUBSET [code: Final \cup {500}, id: JobId \cup {NoId}]]
    /\ faults \in 0 .. MaxFaults

Accepted(c, j) == [code |-> 202, id |-> j.id] \in answers[c]

\* A client that was told 202 has its very request in the table: committed, not
\* only written, and not somebody else's request under the same key.
AcceptedIsStored ==
    \A c \in Client : \A a \in answers[c] : a.code = 202 =>
        \E j \in jobs : /\ j.id = a.id
                        /\ j.key = ask[c].key
                        /\ j.input = ask[c].input

\* "Repeating the same normalized request and idempotency key returns the same
\* job": all 202 answers for one key name one job, to whatever senders, in
\* whatever order of retries, after whatever lost replies.
SameKeySameJob ==
    \A c, d \in Client : \A j, k \in jobs :
        /\ ask[c].key # NoKey /\ ask[c].key = ask[d].key
        /\ Accepted(c, j) /\ Accepted(d, k)
        => j = k

\* "Changing the request returns HTTP 409": whoever gets it really asks for
\* something else than what the key stands for, and is never accepted as well.
\* In particular no retry of one's own request is refused, however spelled.
ConflictIsReal ==
    \A c \in Client : [code |-> 409, id |-> NoId] \in answers[c] =>
        /\ \E j \in Keyed(ask[c].key) : j.input # ask[c].input
        /\ \A j \in jobs : ~Accepted(c, j)

\* "Repeating the same normalized request returns the same job; changing the
\* request returns HTTP 409": when a request meets the row that has its key, the
\* comparison of their hashes finds out whether they ask for the same, although
\* it sees neither of the two, in whatever order either's members were sent.
HashIsMeaning ==
    \A n \in Connection : conn[n].pc = "duplicate" =>
        \A j \in Keyed(KeyOf(n)) :
            SameRequest(n, j) <=> j.input = ask[conn[n].client].input

\* The job of a row, without the column that only the comparison reads.
Job(j) == [id |-> j.id, key |-> j.key, input |-> j.input]

Promise == INSTANCE Idempotency WITH book <- { Job(j) : j \in jobs }

\* However handlers of one key interleave, requests are as if decided one at a
\* time: the winner of the unique index at its commit, the others when they
\* find its row.
ImplementsPromise == Promise!Spec

\* A client that keeps trying gets an answer it can keep, 202 or 409, although
\* its own lost attempts have taken the key.
EveryClientAnswered ==
    \A c \in Client : <>(\E a \in answers[c] : a.code \in Final)

=============================================================================
