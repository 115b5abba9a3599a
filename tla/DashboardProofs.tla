--------------------------- MODULE DashboardProofs ---------------------------
(***************************************************************************)
(* Which requeue request a button of the page belongs to, for any number   *)
(* of jobs and of fetches under way at once.                               *)
(***************************************************************************)
EXTENDS Dashboard, FiniteSetTheorems, TLAPS

Rows == UNION { [S -> Status] : S \in SUBSET Job }

Purpose ==
    [kind: {"jobs"}, filter: Filter] \cup [kind: {"logs"}, job: Job] \cup [kind: {"submit"}]
    \cup [kind: {"requeue"}, job: Job, attached: BOOLEAN]

Fetch ==
    { Free } \cup [pc: {"sent"}, purpose: Purpose]
    \cup [pc: {"answered"}, purpose: Purpose, ok: BOOLEAN, rows: Rows]

TypeOK ==
    /\ db \in [Job -> Status]
    /\ filter \in Filter
    /\ table \in Rows
    /\ button \in [Job -> {"none", "enabled", "disabled"}]
    /\ auto \in BOOLEAN /\ timers \in {0, 1}
    /\ modal \in [open: BOOLEAN, title: Job \cup {"none"},
                  body: Job \cup {"loading", "error"}]
    /\ fetches \in [Slot -> Fetch]
    /\ changes \in Nat /\ faults \in Nat

\* The request of the button of job j is under way in slot s, and the button has not
\* been drawn anew.
Waiting(s, j) ==
    /\ fetches[s].pc # "free"
    /\ fetches[s].purpose.kind = "requeue"
    /\ fetches[s].purpose.job = j
    /\ fetches[s].purpose.attached

\* It is the only one, and the button cannot be clicked.
Disabled ==
    \A j \in Job, s \in Slot : Waiting(s, j) =>
        /\ button[j] = "disabled"
        /\ \A r \in Slot : Waiting(r, j) => r = s

IInv == TypeOK /\ Disabled
-----------------------------------------------------------------------------
LEMMA FetchFacts ==
    ASSUME NEW f \in Fetch
    PROVE  /\ f.pc \in {"free", "sent", "answered"}
           /\ f.pc # "free" => f.purpose \in Purpose
           /\ f.pc = "answered" => f.ok \in BOOLEAN /\ f.rows \in Rows
BY DEF Fetch, Free

LEMMA PurposeFacts ==
    ASSUME NEW p \in Purpose
    PROVE  /\ p.kind = "requeue" => p.job \in Job /\ p.attached \in BOOLEAN
           /\ p.kind = "logs" => p.job \in Job
           /\ p.kind = "jobs" => p.filter \in Filter
BY DEF Purpose

LEMMA FetchTypes ==
    ASSUME NEW p \in Purpose
    PROVE  /\ Free \in Fetch /\ Sent(p) \in Fetch
           /\ \A ok \in BOOLEAN, rows \in Rows : Answered(p, ok, rows) \in Fetch
BY DEF Fetch, Sent, Answered

LEMMA EmptyRows == Empty \in Rows
<1>1. Empty \in [{} -> Status]  BY DEF Empty
<1> QED  BY <1>1 DEF Rows

LEMMA ListingRows ==
    ASSUME TypeOK, NEW f
    PROVE  Listing(f) \in Rows
<1> DEFINE S == { i \in Job : db[i] # "ABSENT" /\ f \in {"ALL", db[i]} }
<1>1. S \in SUBSET Job  OBVIOUS
<1>2. Listing(f) = [j \in S |-> db[j]]  BY DEF Listing
<1> HIDE DEF S
<1>3. Listing(f) \in [S -> Status]  BY <1>1, <1>2 DEF TypeOK
<1> QED  BY <1>1, <1>3 DEF Rows

LEMMA RowsDomain ==
    ASSUME NEW rows \in Rows
    PROVE  DOMAIN rows \subseteq Job
BY DEF Rows

LEMMA Detached ==
    ASSUME NEW f \in Fetch, f.pc # "free", f.purpose.kind = "requeue"
    PROVE  /\ [f EXCEPT !.purpose.attached = FALSE] \in Fetch
           /\ [f EXCEPT !.purpose.attached = FALSE].purpose.attached = FALSE
<1> DEFINE p == [f.purpose EXCEPT !.attached = FALSE]
<1>1. f.purpose \in Purpose  BY FetchFacts
<1>2. f.purpose \in [kind: {"requeue"}, job: Job, attached: BOOLEAN]  BY <1>1 DEF Purpose
<1>3. p \in Purpose /\ p.attached = FALSE  BY <1>2 DEF Purpose
<1>4. [f EXCEPT !.purpose.attached = FALSE] = [f EXCEPT !.purpose = p]  OBVIOUS
<1> HIDE DEF p
<1>5. CASE f \in [pc: {"sent"}, purpose: Purpose]  BY <1>3, <1>4, <1>5 DEF Fetch
<1>6. CASE f \in [pc: {"answered"}, purpose: Purpose, ok: BOOLEAN, rows: Rows]
  BY <1>3, <1>4, <1>6 DEF Fetch
<1>7. \/ f \in [pc: {"sent"}, purpose: Purpose]
      \/ f \in [pc: {"answered"}, purpose: Purpose, ok: BOOLEAN, rows: Rows]
  BY DEF Fetch, Free
<1> QED  BY <1>5, <1>6, <1>7

LEMMA ButtonsType ==
    ASSUME NEW rows
    PROVE  Buttons(rows) \in [Job -> {"none", "enabled", "disabled"}]
BY DEF Buttons
-----------------------------------------------------------------------------
\* No more requests are waited for, and no button is given back while one is.
LEMMA FewerWaiting ==
    ASSUME Disabled,
           \A s \in Slot, j \in Job : Waiting(s, j)' => Waiting(s, j) /\ button'[j] = button[j]
    PROVE  Disabled'
BY DEF Disabled

\* A fetch is sent that is no requeue, or one ends.
LEMMA OtherFetch ==
    ASSUME IInv, NEW s \in Slot, NEW f \in Fetch,
           f.pc = "free" \/ f.purpose.kind # "requeue",
           fetches' = [fetches EXCEPT ![s] = f], UNCHANGED button
    PROVE  Disabled'
<1>1. ASSUME NEW r \in Slot, NEW j \in Job, Waiting(r, j)'  PROVE Waiting(r, j)
  <2>1. r # s  BY <1>1 DEF IInv, TypeOK, Waiting
  <2>2. fetches'[r] = fetches[r]  BY <2>1 DEF IInv, TypeOK
  <2> QED  BY <1>1, <2>2 DEF Waiting
<1> QED  BY <1>1, FewerWaiting DEF IInv

\* A fetch goes on with its purpose.
LEMMA SameFetch ==
    ASSUME IInv, NEW s \in Slot, fetches[s].pc # "free",
           NEW f \in Fetch, f.purpose = fetches[s].purpose,
           fetches' = [fetches EXCEPT ![s] = f], UNCHANGED button
    PROVE  Disabled'
<1>1. ASSUME NEW r \in Slot, NEW j \in Job, Waiting(r, j)'  PROVE Waiting(r, j)
  BY <1>1 DEF IInv, TypeOK, Waiting
<1> QED  BY <1>1, FewerWaiting DEF IInv

\* No request is waited for by a button of the new table.
LEMMA RenderInv ==
    ASSUME NEW rows \in Rows, NEW others \in [Slot -> Fetch], Render(rows, others)
    PROVE  /\ table' \in Rows
           /\ button' \in [Job -> {"none", "enabled", "disabled"}]
           /\ fetches' \in [Slot -> Fetch]
           /\ Disabled'
<1>1. table' \in Rows /\ button' \in [Job -> {"none", "enabled", "disabled"}]
  BY ButtonsType DEF Render
<1>2. \A s \in Slot :
          fetches'[s] = IF others[s].pc # "free" /\ others[s].purpose.kind = "requeue"
                        THEN [others[s] EXCEPT !.purpose.attached = FALSE]
                        ELSE others[s]
  BY DEF Render
<1>3. \A s \in Slot : fetches'[s] \in Fetch  BY <1>2, Detached
<1>4. fetches' \in [Slot -> Fetch]  BY <1>3 DEF Render
<1>5. \A s \in Slot, j \in Job : ~Waiting(s, j)'  BY <1>2, Detached DEF Waiting
<1> QED  BY <1>1, <1>4, <1>5 DEF Disabled
-----------------------------------------------------------------------------
LEMMA InitInv == Init => IInv
<1> SUFFICES ASSUME Init  PROVE IInv  OBVIOUS
<1>1. PICK s \in Slot : fetches = [[r \in Slot |-> Free] EXCEPT ![s] =
                            [pc |-> "sent", purpose |-> [kind |-> "jobs", filter |-> "ALL"]]]
  BY DEF Init
<1> DEFINE p == [kind |-> "jobs", filter |-> "ALL"]
<1>2. p \in Purpose /\ p.kind = "jobs"  BY DEF Purpose, Filter
<1> HIDE DEF p
<1>3. fetches = [[r \in Slot |-> Free] EXCEPT ![s] = Sent(p)]  BY <1>1 DEF Sent, p
<1>4. fetches \in [Slot -> Fetch]  BY <1>2, <1>3, FetchTypes
<1>5. TypeOK  BY <1>4, EmptyRows, ButtonsType DEF Init, TypeOK, Filter
<1>6. \A r \in Slot, j \in Job : ~Waiting(r, j)
  BY <1>2, <1>3 DEF Waiting, Free, Sent
<1> QED  BY <1>5, <1>6 DEF IInv, Disabled

\* What a slot may turn into: a fetch that was free, or is one's own.
LEMMA SlotType ==
    ASSUME TypeOK, NEW s \in Slot, NEW f \in Fetch, fetches' = [fetches EXCEPT ![s] = f]
    PROVE  fetches' \in [Slot -> Fetch]
BY DEF TypeOK

LEMMA ServeInv == ASSUME IInv, NEW s \in Slot, Serve(s) PROVE IInv'
<1> DEFINE p == fetches[s].purpose
<1>1. fetches[s] \in Fetch /\ fetches[s].pc = "sent" /\ p \in Purpose
  BY FetchFacts DEF IInv, TypeOK, Serve
<1>2. UNCHANGED <<filter, table, button, auto, timers, modal, changes, faults>>
  BY DEF Serve
<1>3. PICK ok \in BOOLEAN, rows \in Rows : fetches' = [fetches EXCEPT ![s] = Answered(p, ok, rows)]
  <2>1. Listing(p.filter) \in Rows /\ Empty \in Rows  BY ListingRows, EmptyRows DEF IInv
  <2> QED  BY <2>1 DEF Serve
<1>4. db' \in [Job -> Status]
  <2>1. CASE UNCHANGED db  BY <2>1 DEF IInv, TypeOK
  <2>2. CASE p.kind = "requeue" /\ db' = [db EXCEPT ![p.job] = "PENDING"]
    BY <2>2 DEF IInv, TypeOK, Status
  <2>3. CASE \E j \in Job : db' = [db EXCEPT ![j] = "PENDING"]
    BY <2>3 DEF IInv, TypeOK, Status
  <2> QED  BY <2>1, <2>2, <2>3 DEF Serve
<1> DEFINE f == Answered(p, ok, rows)
<1>5. f \in Fetch /\ f.purpose = p  BY <1>1, FetchTypes DEF Answered
<1> HIDE DEF f, p
<1>6. fetches' = [fetches EXCEPT ![s] = f]  BY <1>3 DEF f
<1>7. TypeOK'  BY <1>2, <1>4, <1>5, <1>6, SlotType DEF IInv, TypeOK
<1>8. Disabled'  BY <1>1, <1>2, <1>5, <1>6, SameFetch DEF p
<1> QED  BY <1>7, <1>8 DEF IInv

LEMMA LoseInv == ASSUME IInv, NEW s \in Slot, Lose(s) PROVE IInv'
<1> DEFINE p == fetches[s].purpose
           f == Answered(p, FALSE, Empty)
<1>1. fetches[s] \in Fetch /\ fetches[s].pc # "free" /\ p \in Purpose
  BY FetchFacts DEF IInv, TypeOK, Lose
<1>2. f \in Fetch /\ f.purpose = p  BY <1>1, FetchTypes, EmptyRows DEF Answered
<1>3. fetches' = [fetches EXCEPT ![s] = f]  BY DEF Lose
<1> HIDE DEF f, p
<1>4. /\ UNCHANGED <<db, filter, table, button, auto, timers, modal, changes>>
      /\ faults' = faults + 1
  BY DEF Lose
<1>5. TypeOK'  BY <1>2, <1>3, <1>4, SlotType DEF IInv, TypeOK
<1>6. Disabled'  BY <1>1, <1>2, <1>3, <1>4, SameFetch DEF p
<1> QED  BY <1>5, <1>6 DEF IInv

LEMMA JobsPurpose == ASSUME TypeOK PROVE Jobs \in Purpose /\ Jobs.kind = "jobs"
BY DEF TypeOK, Jobs, Purpose

\* A fetch ends, or turns into one that is no requeue, and no button changes.
LEMMA SlotInv ==
    ASSUME IInv, NEW s \in Slot, NEW f \in Fetch, f.pc = "free" \/ f.purpose.kind # "requeue",
           fetches' = [fetches EXCEPT ![s] = f],
           UNCHANGED <<db, filter, table, button, auto, timers, changes, faults>>,
           modal' \in [open: BOOLEAN, title: Job \cup {"none"},
                       body: Job \cup {"loading", "error"}]
    PROVE  IInv'
<1>1. TypeOK'  BY SlotType DEF IInv, TypeOK
<1>2. Disabled'  BY OtherFetch
<1> QED  BY <1>1, <1>2 DEF IInv

LEMMA NewFetch ==
    ASSUME NEW p \in Purpose
    PROVE  /\ Sent(p) \in Fetch /\ Sent(p).purpose = p /\ Sent(p).pc = "sent"
           /\ Free \in Fetch /\ Free.pc = "free"
BY FetchTypes DEF Sent, Free

LEMMA JobsArriveInv == ASSUME IInv, NEW s \in Slot, JobsArrive(s) PROVE IInv'
<1>1. fetches[s].rows \in Rows  BY FetchFacts DEF IInv, TypeOK, JobsArrive, Answer
<1>2. [fetches EXCEPT ![s] = Free] \in [Slot -> Fetch]  BY DEF IInv, TypeOK, Fetch
<1>3. Render(fetches[s].rows, [fetches EXCEPT ![s] = Free])
      /\ UNCHANGED <<db, filter, auto, timers, modal, changes, faults>>
  BY DEF JobsArrive
<1>4. /\ table' \in Rows
      /\ button' \in [Job -> {"none", "enabled", "disabled"}]
      /\ fetches' \in [Slot -> Fetch]
      /\ Disabled'
  BY <1>1, <1>2, <1>3, RenderInv
<1> QED  BY <1>3, <1>4 DEF IInv, TypeOK

LEMMA SetFilterInv == ASSUME IInv, NEW f \in Filter, SetFilter(f) PROVE IInv'
<1>1. /\ table' \in Rows
      /\ button' \in [Job -> {"none", "enabled", "disabled"}]
      /\ fetches' \in [Slot -> Fetch]
      /\ Disabled'
  BY RenderInv DEF IInv, TypeOK, SetFilter
<1> QED  BY <1>1 DEF IInv, TypeOK, SetFilter

\* A refused or lost replay gives back its own button: no other request waits for it.
LEMMA RequeueArrivesInv == ASSUME IInv, NEW s \in Slot, RequeueArrives(s) PROVE IInv'
<1> DEFINE p == fetches[s].purpose
<1>1. /\ fetches[s] \in Fetch /\ fetches[s].pc = "answered" /\ p \in Purpose
      /\ p.kind = "requeue" /\ p.job \in Job /\ p.attached \in BOOLEAN
  BY FetchFacts, PurposeFacts DEF IInv, TypeOK, RequeueArrives, Answer
<1>2. UNCHANGED <<db, filter, table, auto, timers, modal, changes, faults>>
  BY DEF RequeueArrives
<1>3. CASE fetches' = [fetches EXCEPT ![s] = Sent(Jobs)] /\ UNCHANGED button
  <2>1. Sent(Jobs) \in Fetch /\ Sent(Jobs).purpose.kind # "requeue"
    BY NewFetch, JobsPurpose DEF IInv
  <2> QED  BY <1>2, <1>3, <2>1, SlotInv DEF IInv, TypeOK
<1>4. CASE fetches' = [fetches EXCEPT ![s] = Free] /\ button' = Reenabled(p)
  <2>1. button' \in [Job -> {"none", "enabled", "disabled"}]
    BY <1>1, <1>4 DEF Reenabled, IInv, TypeOK
  <2>2. Free \in Fetch  BY DEF Fetch
  <2>3. TypeOK'  BY <1>2, <1>4, <2>1, <2>2, SlotType DEF IInv, TypeOK
  <2>4. ASSUME NEW r \in Slot, NEW j \in Job, Waiting(r, j)'
        PROVE  Waiting(r, j) /\ button'[j] = button[j]
    <3>1. r # s /\ Waiting(r, j)
      <4>1. r # s  BY <1>4, <2>4 DEF Waiting, Free, IInv, TypeOK
      <4>2. fetches'[r] = fetches[r]  BY <1>4, <4>1 DEF IInv, TypeOK
      <4> QED  BY <2>4, <4>1, <4>2 DEF Waiting
    <3>2. CASE ~p.attached  BY <1>4, <3>1, <3>2 DEF Reenabled
    <3>3. CASE p.attached
      <4>1. Waiting(s, p.job)  BY <1>1, <3>3 DEF Waiting
      <4>2. p.job # j  BY <1>1, <3>1, <4>1 DEF IInv, Disabled
      <4>3. button'[j] = button[j]  BY <1>4, <3>3, <4>2 DEF Reenabled, IInv, TypeOK
      <4> QED  BY <3>1, <4>3
    <3> QED  BY <1>1, <3>2, <3>3
  <2>5. Disabled'  BY <2>4, FewerWaiting DEF IInv
  <2> QED  BY <2>3, <2>5 DEF IInv
<1> QED  BY <1>3, <1>4 DEF RequeueArrives

\* Only a button that can be clicked sends, and it is disabled with the same click.
LEMMA ClickRequeueInv ==
    ASSUME IInv, NEW s \in Slot, NEW j \in Job, ClickRequeue(s, j)
    PROVE  IInv'
<1> DEFINE p == [kind |-> "requeue", job |-> j, attached |-> TRUE]
<1>1. p \in Purpose  BY DEF Purpose
<1>2. /\ button[j] = "enabled" /\ button' = [button EXCEPT ![j] = "disabled"]
      /\ fetches' = [fetches EXCEPT ![s] = Sent(p)]
      /\ UNCHANGED <<db, filter, table, auto, timers, modal, changes, faults>>
  BY DEF ClickRequeue, Send
<1>3. TypeOK'  BY <1>1, <1>2, NewFetch, SlotType DEF IInv, TypeOK
<1>4. \A r \in Slot : ~Waiting(r, j)  BY <1>2 DEF IInv, Disabled
<1>5. ASSUME NEW r \in Slot, NEW i \in Job, Waiting(r, i)'
      PROVE  \/ r = s /\ i = j
             \/ i # j /\ Waiting(r, i)
  <2>1. CASE r = s
    <3>1. fetches'[s].purpose = p  BY <1>1, <1>2, NewFetch DEF IInv, TypeOK
    <3> QED  BY <1>5, <2>1, <3>1 DEF Waiting
  <2>2. CASE r # s
    <3>1. fetches'[r] = fetches[r]  BY <1>2, <2>2 DEF IInv, TypeOK
    <3> QED  BY <1>4, <1>5, <3>1 DEF Waiting
  <2> QED  BY <2>1, <2>2
<1>6. Disabled'
  <2> SUFFICES ASSUME NEW i \in Job, NEW r \in Slot, Waiting(r, i)'
               PROVE  button'[i] = "disabled" /\ \A q \in Slot : Waiting(q, i)' => q = r
    BY DEF Disabled
  <2>1. CASE r = s /\ i = j  BY <1>2, <1>5, <2>1 DEF IInv, TypeOK
  <2>2. CASE i # j /\ Waiting(r, i)
    <3>1. button'[i] = button[i]  BY <1>2, <2>2 DEF IInv, TypeOK
    <3> QED  BY <1>5, <2>2, <3>1 DEF IInv, Disabled
  <2> QED  BY <1>5, <2>1, <2>2
<1> QED  BY <1>3, <1>6 DEF IInv

\* The other answers, clicks and timers.
LEMMA OtherSlotInv ==
    ASSUME IInv, NEW s \in Slot,
           \/ JobsFail(s) \/ SubmitArrives(s) \/ LogsArrive(s)
           \/ Refresh(s) \/ TimerFires(s) \/ ClickSubmit(s) \/ \E j \in Job : OpenLogs(s, j)
    PROVE  IInv'
<1>1. /\ Sent(Jobs) \in Fetch /\ Sent(Jobs).purpose.kind = "jobs"
      /\ Free \in Fetch /\ Free.pc = "free"
  BY NewFetch, JobsPurpose DEF IInv
<1>2. /\ modal \in [open: BOOLEAN, title: Job \cup {"none"}, body: Job \cup {"loading", "error"}]
      /\ DOMAIN table \subseteq Job
  BY RowsDomain DEF IInv, TypeOK
<1>3. CASE JobsFail(s)  BY <1>1, <1>2, <1>3, SlotInv DEF JobsFail
<1>4. CASE SubmitArrives(s)
  <2>1. \/ fetches' = [fetches EXCEPT ![s] = Sent(Jobs)]
        \/ fetches' = [fetches EXCEPT ![s] = Free]
    BY <1>4 DEF SubmitArrives
  <2> QED  BY <1>1, <1>2, <1>4, <2>1, SlotInv DEF SubmitArrives
<1>5. CASE LogsArrive(s)
  <2>1. fetches[s].purpose \in Purpose /\ fetches[s].purpose.kind = "logs"
    BY <1>5, FetchFacts DEF LogsArrive, Answer, IInv, TypeOK
  <2>2. Logs(s) \in Job \cup {"loading", "error"}  BY <2>1, PurposeFacts DEF Logs
  <2>3. modal' \in [open: BOOLEAN, title: Job \cup {"none"}, body: Job \cup {"loading", "error"}]
    BY <1>2, <1>5, <2>2 DEF LogsArrive
  <2> QED  BY <1>1, <1>5, <2>3, SlotInv DEF LogsArrive
<1>6. CASE Refresh(s) \/ TimerFires(s)
  BY <1>1, <1>2, <1>6, SlotInv DEF Refresh, TimerFires, Send
<1>7. CASE ClickSubmit(s)
  <2> DEFINE p == [kind |-> "submit"]
  <2>1. p \in Purpose /\ p.kind = "submit"  BY DEF Purpose
  <2>2. /\ fetches' = [fetches EXCEPT ![s] = Sent(p)]
        /\ UNCHANGED <<db, filter, table, button, auto, timers, modal, changes, faults>>
    BY <1>7 DEF ClickSubmit, Send
  <2> HIDE DEF p
  <2> QED  BY <1>2, <2>1, <2>2, NewFetch, SlotInv
<1>8. ASSUME NEW j \in Job, OpenLogs(s, j)  PROVE IInv'
  <2> DEFINE p == [kind |-> "logs", job |-> j]
  <2>1. p \in Purpose /\ p.kind = "logs"  BY DEF Purpose
  <2>2. /\ fetches' = [fetches EXCEPT ![s] = Sent(p)]
        /\ UNCHANGED <<db, filter, table, button, auto, timers, changes, faults>>
        /\ modal' = [open |-> TRUE, title |-> j, body |-> "loading"]
    BY <1>8 DEF OpenLogs, Send
  <2> HIDE DEF p
  <2> QED  BY <1>2, <2>1, <2>2, NewFetch, SlotInv
<1> QED  BY <1>3, <1>4, <1>5, <1>6, <1>7, <1>8

\* A step that sends nothing and leaves the page alone.
LEMMA QuietInv ==
    ASSUME IInv, UNCHANGED <<fetches, button>>, TypeOK'
    PROVE  IInv'
BY DEF IInv, Disabled, Waiting

LEMMA NextInv == IInv /\ [Next]_vars => IInv'
<1> SUFFICES ASSUME IInv, [Next]_vars  PROVE IInv'  OBVIOUS
<1>1. ASSUME NEW s \in Slot, Serve(s) \/ Lose(s)  PROVE IInv'  BY <1>1, ServeInv, LoseInv
<1>2. ASSUME NEW s \in Slot, Arrive(s)  PROVE IInv'
  BY <1>2, JobsArriveInv, RequeueArrivesInv, OtherSlotInv DEF Arrive
<1>3. ASSUME NEW s \in Slot, Refresh(s) \/ TimerFires(s) \/ ClickSubmit(s)  PROVE IInv'
  BY <1>3, OtherSlotInv
<1>4. ASSUME NEW s \in Slot, NEW j \in Job, ClickRequeue(s, j) \/ OpenLogs(s, j)  PROVE IInv'
  BY <1>4, ClickRequeueInv, OtherSlotInv
<1>5. ASSUME NEW f \in Filter, SetFilter(f)  PROVE IInv'  BY <1>5, SetFilterInv
<1>6. ASSUME NEW on \in BOOLEAN, SetupRefresh(on)  PROVE IInv'
  BY <1>6, QuietInv DEF SetupRefresh, IInv, TypeOK
<1>7. ASSUME NEW j \in Job, Die(j)  PROVE IInv'
  BY <1>7, QuietInv DEF Die, IInv, TypeOK, Status
<1>8. CASE CloseModal  BY <1>8, QuietInv DEF CloseModal, IInv, TypeOK
<1>9. CASE UNCHANGED vars  BY <1>9, QuietInv DEF vars, IInv, TypeOK
<1> QED  BY <1>1, <1>2, <1>3, <1>4, <1>5, <1>6, <1>7, <1>8, <1>9 DEF Next

\* The inductive invariant: a button that waits is disabled and waits for one request.
THEOREM Invariance == Spec => []IInv
BY InitInv, NextInv, PTL DEF Spec

\* The page, its timers, its log window and all fetches under way keep their types.
THEOREM TypeCorrect == Spec => []TypeOK
<1>1. IInv => TypeOK  BY DEF IInv
<1> QED  BY <1>1, Invariance, PTL

\* One replay at most is under way from a button, and a late failure gives back no
\* button of another request, however many fetches overtake each other.
THEOREM ButtonsSendOnce == Spec => []OneRequestPerButton
<1>1. IInv => OneRequestPerButton
  <2> SUFFICES ASSUME IInv, NEW j \in Job
               PROVE  Cardinality({ s \in Slot : Waiting(s, j) })
                          <= IF button[j] = "disabled" THEN 1 ELSE 0
    BY DEF OneRequestPerButton, Waiting
  <2> DEFINE W == { s \in Slot : Waiting(s, j) }
  <2>1. CASE W = {}  BY <2>1, FS_EmptySet
  <2>2. CASE W # {}
    <3>1. PICK s \in Slot : Waiting(s, j)  BY <2>2
    <3>2. W = {s} /\ button[j] = "disabled"  BY <3>1 DEF IInv, Disabled
    <3>3. Cardinality(W) = 1  BY <3>2, FS_Singleton
    <3> QED  BY <3>2, <3>3
  <2> QED  BY <2>1, <2>2
<1> QED  BY <1>1, Invariance, PTL
=============================================================================
