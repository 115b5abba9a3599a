------------------------------ MODULE Dashboard ------------------------------
(***************************************************************************)
(* The dashboard page: a table of jobs that timers, the user and the page  *)
(* itself refresh, while answers to earlier requests are still under way,  *)
(* buttons that replay a job, and a window that shows a job's audit log.   *)
(*                                                                         *)
(* A handler of the page runs from one await to the next without           *)
(* interruption.  A fetch is sent, served and arrives in three steps, and  *)
(* answers arrive in any order.  The server is its table of jobs.          *)
(***************************************************************************)
EXTENDS Naturals, FiniteSets

CONSTANTS
    Job,         \* job ids
    Slot,        \* bound on the fetches under way at once
    MaxChanges,  \* bound on the jobs that die of themselves
    MaxFaults    \* bound on the fetches that fail

ASSUME DashboardAssumption == MaxChanges \in Nat /\ MaxFaults \in Nat

VARIABLES
    db,        \* the server: the status of each job
    filter,    \* currentFilter
    table,     \* allJobs, which the table shows: the status of each job in it
    button,    \* the requeue button in each row
    auto,      \* the refresh interval that is selected is not "Manual"
    timers,    \* the intervals that are running
    modal,     \* the audit log window: open or not, title and body
    fetches,   \* the fetches under way
    changes,   \* jobs that have died of themselves so far
    faults     \* fetches that have failed so far

vars == <<db, filter, table, button, auto, timers, modal, fetches, changes, faults>>

Status == {"ABSENT", "PENDING", "DEAD"}
Filter == {"ALL", "PENDING", "DEAD"}

Free == [pc |-> "free"]

\* What GET /jobs answers.
Listing(f) == [j \in { i \in Job : db[i] # "ABSENT" /\ f \in {"ALL", db[i]} } |-> db[j]]

Empty == [j \in {} |-> "ABSENT"]

Buttons(rows) ==
    [j \in Job |-> IF j \in DOMAIN rows /\ rows[j] = "DEAD" THEN "enabled" ELSE "none"]

Init ==
    /\ db \in [Job -> Status]
    /\ filter = "ALL"
    /\ table = Empty /\ button = Buttons(Empty)
    /\ auto = TRUE /\ timers = 1
    /\ modal = [open |-> FALSE, title |-> "none", body |-> "loading"]
    /\ \E s \in Slot : fetches = [[r \in Slot |-> Free] EXCEPT ![s] =
                            [pc |-> "sent", purpose |-> [kind |-> "jobs", filter |-> "ALL"]]]
    /\ changes = 0 /\ faults = 0

-----------------------------------------------------------------------------
(***************************************************************************)
(* Fetches: sent, served, arriving in any order.                           *)
(***************************************************************************)
Sent(purpose) == [pc |-> "sent", purpose |-> purpose]
Answered(purpose, ok, rows) ==
    [pc |-> "answered", purpose |-> purpose, ok |-> ok, rows |-> rows]

Send(s, purpose) ==
    /\ fetches[s] = Free
    /\ fetches' = [fetches EXCEPT ![s] = Sent(purpose)]

\* fetchJobs asks for the filter of this moment.
Jobs == [kind |-> "jobs", filter |-> filter]

\* The server does what it is asked, or refuses.
Serve(s) ==
    /\ fetches[s].pc = "sent"
    /\ LET p == fetches[s].purpose
           Reply(ok, rows) == fetches' = [fetches EXCEPT ![s] = Answered(p, ok, rows)]
       IN  \/ p.kind = "jobs" /\ Reply(TRUE, Listing(p.filter)) /\ UNCHANGED db
           \/ p.kind = "logs" /\ Reply(TRUE, Empty) /\ UNCHANGED db
           \/ /\ p.kind = "requeue" /\ db[p.job] = "DEAD"
              /\ Reply(TRUE, Empty) /\ db' = [db EXCEPT ![p.job] = "PENDING"]
           \/ /\ p.kind = "requeue" /\ db[p.job] # "DEAD"
              /\ Reply(FALSE, Empty) /\ UNCHANGED db
           \/ /\ p.kind = "submit" /\ Reply(TRUE, Empty)
              /\ \E j \in Job : db[j] = "ABSENT" /\ db' = [db EXCEPT ![j] = "PENDING"]
           \/ p.kind = "submit" /\ Reply(FALSE, Empty) /\ UNCHANGED db
    /\ UNCHANGED <<filter, table, button, auto, timers, modal, changes, faults>>

\* The request is lost, or its answer.
Lose(s) ==
    /\ faults < MaxFaults
    /\ \/ fetches[s].pc = "sent"
       \/ fetches[s].pc = "answered" /\ fetches[s].ok
    /\ fetches' = [fetches EXCEPT ![s] = Answered(fetches[s].purpose, FALSE, Empty)]
    /\ faults' = faults + 1
    /\ UNCHANGED <<db, filter, table, button, auto, timers, modal, changes>>

-----------------------------------------------------------------------------
\* Bug variant: the table's elements are reused, buttons keep their state.
RenderReusing(rows, others) ==
    /\ table' = rows
    /\ button' = [j \in Job |-> IF Buttons(rows)[j] = "enabled" /\ button[j] = "disabled"
                                THEN "disabled" ELSE Buttons(rows)[j]]
    /\ fetches' = others

\* renderTable: all rows and buttons are new elements; a handler that still waits
\* holds a button that is no longer in the page.
Render(rows, others) ==
    /\ table' = rows
    /\ button' = Buttons(rows)
    /\ fetches' = [s \in Slot |->
                     IF others[s].pc # "free" /\ others[s].purpose.kind = "requeue"
                     THEN [others[s] EXCEPT !.purpose.attached = FALSE]
                     ELSE others[s]]

Answer(s, kind) == fetches[s].pc = "answered" /\ fetches[s].purpose.kind = kind

\* Bug variant: a failed refresh stops the timer.
JobsFailStopping(s) ==
    /\ Answer(s, "jobs") /\ ~fetches[s].ok
    /\ fetches' = [fetches EXCEPT ![s] = Free]
    /\ timers' = 0
    /\ UNCHANGED <<db, filter, table, button, auto, modal, changes, faults>>

\* fetchJobs fails: an error banner, and the table stays as it is.
JobsFail(s) ==
    /\ Answer(s, "jobs") /\ ~fetches[s].ok
    /\ fetches' = [fetches EXCEPT ![s] = Free]
    /\ UNCHANGED <<db, filter, table, button, auto, timers, modal, changes, faults>>

\* fetchJobs shows its answer, whatever has been shown or selected meanwhile.
JobsArrive(s) ==
    /\ Answer(s, "jobs") /\ fetches[s].ok
    /\ Render(fetches[s].rows, [fetches EXCEPT ![s] = Free])
    /\ UNCHANGED <<db, filter, auto, timers, modal, changes, faults>>

\* Bug variant: the button is found again by the id of its job.
ReenabledById(p) == [button EXCEPT ![p.job] = IF @ = "none" THEN @ ELSE "enabled"]

\* btn.disabled = false, on the element that was clicked.
Reenabled(p) == IF p.attached THEN [button EXCEPT ![p.job] = "enabled"] ELSE button

\* requeueJob: refresh, or else give its button back.
RequeueArrives(s) ==
    /\ Answer(s, "requeue")
    /\ LET p == fetches[s].purpose
       IN  \/ /\ fetches[s].ok
              /\ fetches' = [fetches EXCEPT ![s] = Sent(Jobs)]
              /\ UNCHANGED button
           \/ /\ ~fetches[s].ok
              /\ fetches' = [fetches EXCEPT ![s] = Free]
              /\ button' = Reenabled(p)
    /\ UNCHANGED <<db, filter, table, auto, timers, modal, changes, faults>>

\* submitJob: refresh, or a message.
SubmitArrives(s) ==
    /\ Answer(s, "submit")
    /\ fetches' = [fetches EXCEPT ![s] = IF fetches[s].ok THEN Sent(Jobs) ELSE Free]
    /\ UNCHANGED <<db, filter, table, button, auto, timers, modal, changes, faults>>

\* openLogs, after its await: logs or a message, into whatever window there is.
Logs(s) == IF fetches[s].ok THEN fetches[s].purpose.job ELSE "error"

LogsArrive(s) ==
    /\ Answer(s, "logs")
    /\ modal' = [modal EXCEPT !.body = Logs(s)]
    /\ fetches' = [fetches EXCEPT ![s] = Free]
    /\ UNCHANGED <<db, filter, table, button, auto, timers, changes, faults>>

-----------------------------------------------------------------------------
(***************************************************************************)
(* The user and the timers.                                                *)
(***************************************************************************)
\* setFilter: the rows at hand are rendered again, none is fetched.
SetFilter(f) ==
    /\ filter' = f
    /\ Render(table, fetches)
    /\ UNCHANGED <<db, auto, timers, modal, changes, faults>>

\* The Refresh button or the key "r".
Refresh(s) ==
    /\ Send(s, Jobs)
    /\ UNCHANGED <<db, filter, table, button, auto, timers, modal, changes, faults>>

TimerFires(s) ==
    /\ timers > 0
    /\ Send(s, Jobs)
    /\ UNCHANGED <<db, filter, table, button, auto, timers, modal, changes, faults>>

ClickRequeue(s, j) ==
    /\ button[j] = "enabled"
    /\ button' = [button EXCEPT ![j] = "disabled"]
    /\ Send(s, [kind |-> "requeue", job |-> j, attached |-> TRUE])
    /\ UNCHANGED <<db, filter, table, auto, timers, modal, changes, faults>>

ClickSubmit(s) ==
    /\ Send(s, [kind |-> "submit"])
    /\ UNCHANGED <<db, filter, table, button, auto, timers, modal, changes, faults>>

\* openLogs; an open window covers the table.
OpenLogs(s, j) ==
    /\ ~modal.open
    /\ j \in DOMAIN table
    /\ modal' = [open |-> TRUE, title |-> j, body |-> "loading"]
    /\ Send(s, [kind |-> "logs", job |-> j])
    /\ UNCHANGED <<db, filter, table, button, auto, timers, changes, faults>>

CloseModal ==
    /\ modal.open
    /\ modal' = [modal EXCEPT !.open = FALSE]
    /\ UNCHANGED <<db, filter, table, button, auto, timers, fetches, changes, faults>>

\* setupRefresh, when another interval or "Manual" is selected.
SetupRefresh(on) ==
    /\ auto' = on
    /\ timers' = IF on THEN 1 ELSE 0
    /\ UNCHANGED <<db, filter, table, button, modal, fetches, changes, faults>>

\* A worker gives up on a job.
Die(j) ==
    /\ changes < MaxChanges
    /\ db[j] = "PENDING"
    /\ db' = [db EXCEPT ![j] = "DEAD"]
    /\ changes' = changes + 1
    /\ UNCHANGED <<filter, table, button, auto, timers, modal, fetches, faults>>

-----------------------------------------------------------------------------
Arrive(s) ==
    JobsFail(s) \/ JobsArrive(s) \/ RequeueArrives(s) \/ SubmitArrives(s) \/ LogsArrive(s)

Next ==
    \/ \E s \in Slot :
          \/ Serve(s) \/ Lose(s) \/ Arrive(s) \/ Refresh(s) \/ TimerFires(s)
          \/ ClickSubmit(s) \/ \E j \in Job : ClickRequeue(s, j) \/ OpenLogs(s, j)
    \/ \E f \in Filter : SetFilter(f)
    \/ \E on \in BOOLEAN : SetupRefresh(on)
    \/ \E j \in Job : Die(j)
    \/ CloseModal

Spec == Init /\ [][Next]_vars

(***************************************************************************)
(* Every fetch is served or lost and its answer processed.  A timer that   *)
(* is running goes on firing; SF because the bound Slot, which a browser   *)
(* does not have, may stop it while other fetches are under way.           *)
(***************************************************************************)
LiveSpec ==
    /\ Spec
    /\ \A s \in Slot : WF_vars(Serve(s)) /\ WF_vars(Arrive(s))
    /\ SF_vars(\E s \in Slot : TimerFires(s))

-----------------------------------------------------------------------------
\* While a button's own request is under way it cannot be clicked again, and a
\* late failure of a request from before the table was drawn anew gives back no
\* button of the new table.
OneRequestPerButton ==
    \A j \in Job :
        Cardinality({ s \in Slot : /\ fetches[s].pc # "free"
                                   /\ fetches[s].purpose.kind = "requeue"
                                   /\ fetches[s].purpose.job = j
                                   /\ fetches[s].purpose.attached })
            <= IF button[j] = "disabled" THEN 1 ELSE 0

\* While the page refreshes itself and nothing changes any more, the table comes
\* to show what the server has for the selected filter, although answers overtake
\* each other, refreshes fail and a filter is not applied to the rows at hand.
Settled == <>[]auto /\ <>[][filter' = filter /\ db' = db]_vars

CatchesUp == Settled => <>[](table = Listing(filter))

\* No requeue button stays disabled while the page refreshes itself: it comes back
\* or its row is drawn anew, also when the replay succeeds and the refresh after
\* it fails, which requeueJob does not notice.
ButtonComesBack ==
    <>[]auto => \A j \in Job : [](button[j] = "disabled" => <>(button[j] # "disabled"))

\* The log window does not go on loading: logs or an error arrive.
LogsLoad == (modal.open /\ modal.body = "loading") ~> ~modal.open \/ modal.body # "loading"

\* Nothing on the page goes on waiting: each button and the log window.
NothingStaysBusy == ButtonComesBack /\ LogsLoad

=============================================================================
