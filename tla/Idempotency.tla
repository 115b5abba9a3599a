----------------------------- MODULE Idempotency -----------------------------
(***************************************************************************)
(* What POST /jobs promises, without connections, transactions, hashes,    *)
(* spellings or retries: requests as if they were decided one at a time,   *)
(* each at one moment.  A key stands for the first job accepted with it,   *)
(* forever; 202 names a job that is there and was asked for, 409 says that *)
(* the key stands for something else.  Enqueue implements it.              *)
(***************************************************************************)
CONSTANTS
    Client,  \* senders of one request each
    Key,     \* the keys of requests
    NoKey,   \* the request has none
    Input,   \* what a request asks for
    JobId,
    NoId     \* no job id

VARIABLES
    ask,     \* the key and the input of each client's request
    book,    \* the accepted jobs: id, key, input
    answers  \* the answers each client has received

vars == <<ask, book, answers>>

Init ==
    /\ ask \in [Client -> [key: Key \cup {NoKey}, input: Input]]
    /\ book = {}
    /\ answers = [c \in Client |-> {}]

\* The jobs a client's key stands for: one at most.
Keyed(c) == { j \in book : j.key # NoKey /\ j.key = ask[c].key }

Tell(c, code, id) ==
    answers' = [answers EXCEPT ![c] = @ \cup { [code |-> code, id |-> id] }]

\* The job gets into the book; its sender hears of it later, or never, or is
\* told of an error.
Enter(c, id) ==
    /\ Keyed(c) = {}
    /\ \A j \in book : j.id # id
    /\ book' = book \cup { [id |-> id, key |-> ask[c].key, input |-> ask[c].input] }
    /\ UNCHANGED answers \/ Tell(c, 500, NoId)

Accept(c) ==
    /\ \E j \in book : j.key = ask[c].key /\ j.input = ask[c].input /\ Tell(c, 202, j.id)
    /\ UNCHANGED book

Refuse(c) ==
    /\ \E j \in Keyed(c) : j.input # ask[c].input
    /\ Tell(c, 409, NoId)
    /\ UNCHANGED book

Fail(c) == Tell(c, 500, NoId) /\ UNCHANGED book

Next ==
    /\ \E c \in Client :
          \/ \E id \in JobId : Enter(c, id)
          \/ Accept(c) \/ Refuse(c) \/ Fail(c)
    /\ UNCHANGED ask

Spec == Init /\ [][Next]_vars
=============================================================================
