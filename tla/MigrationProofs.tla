--------------------------- MODULE MigrationProofs ---------------------------
(***************************************************************************)
(* What every upgrade and every rollback leaves, however often runs break  *)
(* off and whatever the new release does in between.                       *)
(***************************************************************************)
EXTENDS Migration, FiniteSetTheorems, TLAPS

Table == {"jobs", "audit", "clients", "outbox"}

Rows == [status: {"ABSENT", "PENDING", "PROCESSING", "FAILED", "DEAD"},
         retry_count: 0 .. Budget, attempt_count: 0 .. Budget + 1]

\* What can be left of the migration to 4 and of the one back.
Begun    == <<"add_columns", "create_outbox", "count_attempts", "add_intents", "make_pending">>
Added    == <<"create_outbox", "count_attempts", "add_intents", "make_pending">>
Created  == <<"count_attempts", "add_intents", "make_pending">>
Counted  == <<"add_intents", "make_pending">>
Intended == <<"make_pending">>
Undone   == <<"drop_outbox", "drop_columns">>
Unlinked == <<"drop_columns">>

Left(migration, direction) ==
    CASE migration = 1 -> { JobsTable(direction), <<>> }
      [] migration = 2 -> { AuditTable(direction), <<>> }
      [] migration = 3 -> { ClientsTable(direction), <<>> }
      [] migration = 4 -> IF direction = "up" THEN { Begun, Added, Created, Counted, Intended, <<>> }
                                              ELSE { Undone, Unlinked, <<>> }

RunOK ==
    \/ run = Idle
    \/ applied < 4 /\ run \in [direction: {"up"}, todo: Left(applied + 1, "up")]
    \/ applied > 0 /\ downs > 0 /\ run \in [direction: {"down"}, todo: Left(applied, "down")]

TypeOK ==
    /\ tables \subseteq Table
    /\ durable \in BOOLEAN
    /\ jobs \in [Job -> Rows]
    /\ outbox \subseteq Job \X (1 .. Budget + 2)
    /\ applied \in 0 .. 4
    /\ RunOK
    /\ used \in [Job -> Nat] /\ dropped \in [Job -> Nat]
    /\ work \in Nat /\ downs \in Nat

\* The statements left of the upgrade to the durable schema; 6 where none is under way.
Remaining == IF applied = 3 /\ run.direction = "up" THEN Len(run.todo) ELSE 6

\* Where the columns are not there, or are empty still, every attempt counts for
\* what retry_count and the status say.
Uncounted == durable = FALSE \/ Remaining \in {3, 4}

\* The columns have been filled, and the release has not taken over yet.
Filled == Remaining \in 0 .. 2

\* A run in this direction, with this left of it.
Going(direction, todo) == [direction |-> direction, todo |-> todo]

\* The outbox is the new release's from the moment it is filled until it is dropped.
Schema ==
    /\ "outbox" \notin tables => outbox = {}
    /\ applied = 4 /\ "outbox" \in tables => durable = TRUE
    /\ applied = 4 /\ run = Going("down", Unlinked) => "outbox" \notin tables
    /\ Remaining \in 0 .. 4 => durable = TRUE
    /\ Remaining \in 0 .. 3 => "outbox" \in tables
    /\ Remaining \in {2, 3} => outbox = {}
    /\ Remaining \in {0, 1} =>
          outbox = { <<j, jobs[j].attempt_count + 1>> : j \in { i \in Job : Nonterminal(i) } }

\* attempt_count against retry_count and the status.
CountOK(row) ==
    /\ row.status = "ABSENT" => row = Absent
    /\ Uncounted => row.attempt_count = 0
    /\ Filled /\ row.status \notin {"PENDING", "PROCESSING"} => row.attempt_count = 0
    /\ Remaining \in {1, 2} /\ row.status \in {"PENDING", "PROCESSING"} =>
          row.attempt_count = UsedBy(row)
    /\ Remaining = 0 => row.status # "PROCESSING"
    /\ Remaining = 0 \/ (applied = 4 /\ durable = TRUE) =>
          /\ row.status = "PROCESSING" => row.attempt_count = row.retry_count + 1
          /\ row.status = "PENDING" =>
                row.attempt_count \in { row.retry_count, row.retry_count + 1 }

Counts == \A j \in Job : CountOK(jobs[j])

\* What a rollback has cost a job so far.
CostOK(row, before) ==
    row.status \in {"PENDING", "PROCESSING"} /\ before > 0 =>
        /\ Uncounted => UsedBy(row) \in { before, before - 1 }
        /\ Filled => row.attempt_count \in { before, before - 1 }

Cost == \A j \in Job : CostOK(jobs[j], dropped[j])

\* What a job has used, as long as nothing is rolled back.
KeptOK(row, attempts) ==
    downs = 0 /\ row.status \in {"PENDING", "PROCESSING"} =>
        /\ Uncounted => attempts = UsedBy(row)
        /\ Filled \/ applied = 4 => attempts = row.attempt_count

Kept == \A j \in Job : KeptOK(jobs[j], used[j])

IInv == TypeOK /\ Schema /\ Counts /\ Cost /\ Kept
-----------------------------------------------------------------------------
\* What each statement leaves to be done.
LEMMA Tails ==
    /\ DurableDelivery("up") = Begun /\ DurableDelivery("down") = Undone
    /\ Head(Begun) = "add_columns" /\ Tail(Begun) = Added
    /\ Head(Added) = "create_outbox" /\ Tail(Added) = Created
    /\ Head(Created) = "count_attempts" /\ Tail(Created) = Counted
    /\ Head(Counted) = "add_intents" /\ Tail(Counted) = Intended
    /\ Head(Intended) = "make_pending" /\ Tail(Intended) = <<>>
    /\ Head(Undone) = "drop_outbox" /\ Tail(Undone) = Unlinked
    /\ Head(Unlinked) = "drop_columns" /\ Tail(Unlinked) = <<>>
<1>1. DurableDelivery("up") = Begun /\ DurableDelivery("down") = Undone
  BY DEF DurableDelivery, Begun, Undone
<1>2. Head(Begun) = "add_columns" /\ Tail(Begun) = Added  BY DEF Begun, Added
<1>3. Head(Added) = "create_outbox" /\ Tail(Added) = Created  BY DEF Added, Created
<1>4. Head(Created) = "count_attempts" /\ Tail(Created) = Counted  BY DEF Created, Counted
<1>5. Head(Counted) = "add_intents" /\ Tail(Counted) = Intended  BY DEF Counted, Intended
<1>6. Head(Intended) = "make_pending" /\ Tail(Intended) = <<>>  BY DEF Intended
<1>7. Head(Undone) = "drop_outbox" /\ Tail(Undone) = Unlinked  BY DEF Undone, Unlinked
<1>8. Head(Unlinked) = "drop_columns" /\ Tail(Unlinked) = <<>>  BY DEF Unlinked
<1> QED  BY <1>1, <1>2, <1>3, <1>4, <1>5, <1>6, <1>7, <1>8

LEMMA Apart ==
    /\ Begun # Added /\ Begun # Created /\ Begun # Counted /\ Begun # Intended /\ Begun # <<>>
    /\ Added # Created /\ Added # Counted /\ Added # Intended /\ Added # <<>>
    /\ Created # Counted /\ Created # Intended /\ Created # <<>>
    /\ Counted # Intended /\ Counted # <<>> /\ Intended # <<>>
    /\ Undone # Unlinked /\ Undone # <<>> /\ Unlinked # <<>>
BY DEF Begun, Added, Created, Counted, Intended, Undone, Unlinked

\* The migrations before the durable schema are one statement each.
LEMMA Singles ==
    ASSUME NEW migration \in 1 .. 3, NEW direction \in {"up", "down"},
           NEW todo \in Left(migration, direction), todo # <<>>
    PROVE  /\ Tail(todo) = <<>>
           /\ Head(todo) \in IF direction = "up"
                             THEN {"create_jobs", "create_audit", "create_clients"}
                             ELSE {"drop_jobs", "drop_audit", "drop_clients"}
<1>1. /\ JobsTable("up") = <<"create_jobs">> /\ JobsTable("down") = <<"drop_jobs">>
      /\ AuditTable("up") = <<"create_audit">> /\ AuditTable("down") = <<"drop_audit">>
      /\ ClientsTable("up") = <<"create_clients">> /\ ClientsTable("down") = <<"drop_clients">>
  BY DEF JobsTable, AuditTable, ClientsTable
<1>2. todo \in { JobsTable(direction), AuditTable(direction), ClientsTable(direction) }
  BY DEF Left
<1>3. \A x : Head(<<x>>) = x /\ Tail(<<x>>) = <<>>  OBVIOUS
<1>4. CASE direction = "up"
  <2>1. PICK x \in {"create_jobs", "create_audit", "create_clients"} : todo = <<x>>
    BY <1>1, <1>2, <1>4
  <2> QED  BY <1>3, <1>4, <2>1
<1>5. CASE direction = "down"
  <2>1. PICK x \in {"drop_jobs", "drop_audit", "drop_clients"} : todo = <<x>>
    BY <1>1, <1>2, <1>5
  <2> QED  BY <1>3, <1>5, <2>1
<1> QED  BY <1>4, <1>5

\* What a step of a run executes, by migration and statement.
SimpleUp   == applied < 3 /\ run.direction = "up" /\ \E t \in Table \ {"outbox"} : Create(t)
SimpleDown == applied < 4 /\ run.direction = "down" /\ \E t \in Table \ {"outbox"} : Drop(t)
DurableUp(todo, statement, rest) ==
    applied = 3 /\ run = Going("up", todo) /\ statement /\ run' = Going("up", rest)
DurableDown(todo, statement, rest) ==
    applied = 4 /\ run = Going("down", todo) /\ statement /\ run' = Going("down", rest)

LEMMA StatementCases ==
    ASSUME TypeOK, RunStatement
    PROVE  \/ SimpleUp /\ run' = Going("up", <<>>)
           \/ SimpleDown /\ run' = Going("down", <<>>)
           \/ DurableUp(Begun, AddColumns, Added)
           \/ DurableUp(Added, Create("outbox"), Created)
           \/ DurableUp(Created, CountAttempts, Counted)
           \/ DurableUp(Counted, AddIntents, Intended)
           \/ DurableUp(Intended, MakePending, <<>>)
           \/ DurableDown(Undone, Drop("outbox"), Unlinked)
           \/ DurableDown(Unlinked, DropColumns, <<>>)
<1>0. /\ run.todo # <<>> /\ Execute(Head(run.todo)) /\ applied' = applied
      /\ run' = [run EXCEPT !.todo = Tail(run.todo)]
  BY DEF RunStatement
<1>1. CASE applied < 3 /\ run \in [direction: {"up"}, todo: Left(applied + 1, "up")]
  <2>1. applied + 1 \in 1 .. 3  BY <1>1 DEF TypeOK
  <2>2. /\ Tail(run.todo) = <<>>
        /\ Head(run.todo) \in {"create_jobs", "create_audit", "create_clients"}
    BY <1>0, <1>1, <2>1, Singles
  <2>3. \E t \in Table \ {"outbox"} : Create(t)  BY <1>0, <2>2 DEF Execute, Table
  <2>4. run' = Going("up", <<>>)  BY <1>0, <1>1, <2>2 DEF Going
  <2> QED  BY <1>1, <2>3, <2>4 DEF SimpleUp
<1>2. CASE applied \in 1 .. 3 /\ run \in [direction: {"down"}, todo: Left(applied, "down")]
  <2>2. /\ Tail(run.todo) = <<>>
        /\ Head(run.todo) \in {"drop_jobs", "drop_audit", "drop_clients"}
    BY <1>0, <1>2, Singles
  <2>3. \E t \in Table \ {"outbox"} : Drop(t)  BY <1>0, <2>2 DEF Execute, Table
  <2>4. run' = Going("down", <<>>)  BY <1>0, <1>2, <2>2 DEF Going
  <2> QED  BY <1>2, <2>3, <2>4 DEF SimpleDown
<1>3. CASE applied = 3 /\ run \in [direction: {"up"}, todo: Left(4, "up")]
  <2>1. run = Going("up", run.todo) /\ run' = Going("up", Tail(run.todo))
    BY <1>0, <1>3 DEF Going
  <2>2. run.todo \in { Begun, Added, Created, Counted, Intended }
    BY <1>0, <1>3 DEF Left
  <2>3. CASE run.todo = Begun  BY <1>0, <1>3, <2>1, <2>3, Tails DEF Execute, DurableUp
  <2>4. CASE run.todo = Added  BY <1>0, <1>3, <2>1, <2>4, Tails DEF Execute, DurableUp
  <2>5. CASE run.todo = Created  BY <1>0, <1>3, <2>1, <2>5, Tails DEF Execute, DurableUp
  <2>6. CASE run.todo = Counted  BY <1>0, <1>3, <2>1, <2>6, Tails DEF Execute, DurableUp
  <2>7. CASE run.todo = Intended  BY <1>0, <1>3, <2>1, <2>7, Tails DEF Execute, DurableUp
  <2> QED  BY <2>2, <2>3, <2>4, <2>5, <2>6, <2>7
<1>4. CASE applied = 4 /\ run \in [direction: {"down"}, todo: Left(4, "down")]
  <2>1. run = Going("down", run.todo) /\ run' = Going("down", Tail(run.todo))
    BY <1>0, <1>4 DEF Going
  <2>2. run.todo \in { Undone, Unlinked }  BY <1>0, <1>4 DEF Left
  <2>3. CASE run.todo = Undone  BY <1>0, <1>4, <2>1, <2>3, Tails DEF Execute, DurableDown
  <2>4. CASE run.todo = Unlinked  BY <1>0, <1>4, <2>1, <2>4, Tails DEF Execute, DurableDown
  <2> QED  BY <2>2, <2>3, <2>4
<1>5. run # Idle  BY <1>0 DEF Idle
<1> QED  BY <1>1, <1>2, <1>3, <1>4, <1>5 DEF TypeOK, RunOK
-----------------------------------------------------------------------------
\* How far an upgrade is while one is under way.
LEMMA Stages ==
    ASSUME applied = 3
    PROVE  /\ run = Going("up", Begun) => Remaining = 5
           /\ run = Going("up", Added) => Remaining = 4
           /\ run = Going("up", Created) => Remaining = 3
           /\ run = Going("up", Counted) => Remaining = 2
           /\ run = Going("up", Intended) => Remaining = 1
           /\ run = Going("up", <<>>) => Remaining = 0
BY DEF Remaining, Going, Begun, Added, Created, Counted, Intended

LEMMA StagesNext ==
    ASSUME applied' = 3
    PROVE  /\ run' = Going("up", Begun) => Remaining' = 5
           /\ run' = Going("up", Added) => Remaining' = 4
           /\ run' = Going("up", Created) => Remaining' = 3
           /\ run' = Going("up", Counted) => Remaining' = 2
           /\ run' = Going("up", Intended) => Remaining' = 1
           /\ run' = Going("up", <<>>) => Remaining' = 0
BY DEF Remaining, Going, Begun, Added, Created, Counted, Intended

\* What a statement leaves alone, and what its run is afterwards.
Others == UNCHANGED <<applied, used, work, downs>>

\* The rows stay, in a phase that asks for no more of them than the one before.
Quiet ==
    /\ UNCHANGED <<jobs, used, dropped, downs>>
    /\ durable' = FALSE \/ Remaining' \in {3, 4} => durable = FALSE \/ Remaining \in {3, 4}
    /\ Remaining' \notin 0 .. 2
    /\ applied' = 4 => applied = 4
    /\ applied' = 4 /\ durable' = TRUE => durable = TRUE

LEMMA SameRows == ASSUME IInv, Quiet  PROVE Counts' /\ Cost' /\ Kept'
<1>1. (Uncounted' => Uncounted) /\ ~Filled' /\ Remaining' \notin {0, 1, 2}
  BY DEF Quiet, Uncounted, Filled
<1>2. Counts'
  <2> SUFFICES ASSUME NEW j \in Job  PROVE CountOK(jobs[j])'  BY DEF Counts
  <2>1. CountOK(jobs[j])  BY DEF IInv, Counts
  <2> QED  BY <1>1, <2>1 DEF Quiet, CountOK
<1>3. Cost'
  <2> SUFFICES ASSUME NEW j \in Job  PROVE CostOK(jobs[j], dropped[j])'  BY DEF Cost
  <2>1. CostOK(jobs[j], dropped[j])  BY DEF IInv, Cost
  <2> QED  BY <1>1, <2>1 DEF Quiet, CostOK
<1>4. Kept'
  <2> SUFFICES ASSUME NEW j \in Job  PROVE KeptOK(jobs[j], used[j])'  BY DEF Kept
  <2>1. KeptOK(jobs[j], used[j])  BY DEF IInv, Kept
  <2> QED  BY <1>1, <2>1 DEF Quiet, KeptOK
<1> QED  BY <1>2, <1>3, <1>4

LEMMA SimpleUpInv ==
    ASSUME IInv, SimpleUp, Others, run' = Going("up", <<>>)  PROVE IInv'
<1>1. PICK t \in Table \ {"outbox"} : Create(t)  BY DEF SimpleUp
<1>2. /\ tables' = tables \cup {t} /\ UNCHANGED <<durable, jobs, outbox, dropped>>
  BY <1>1 DEF Create
<1>3. Remaining = 6 /\ Remaining' = 6  BY DEF SimpleUp, Remaining, Others, IInv, TypeOK
<1>4. RunOK'
  <2>1. applied' < 4 /\ <<>> \in Left(applied' + 1, "up")
    BY DEF SimpleUp, Others, IInv, TypeOK, Left
  <2> QED  BY <2>1 DEF RunOK, Going
<1>5. TypeOK'  BY <1>2, <1>4 DEF IInv, TypeOK, Others
<1>6. Schema'  BY <1>2, <1>3 DEF IInv, Schema, Others, SimpleUp
<1>7. Quiet  BY <1>2, <1>3 DEF Quiet, Others
<1>8. Counts' /\ Cost' /\ Kept'  BY <1>7, SameRows
<1> QED  BY <1>5, <1>6, <1>8 DEF IInv

\* Without the table jobs nothing is left to be counted.
LEMMA NoRows ==
    ASSUME jobs' = [j \in Job |-> Absent]
    PROVE  Counts' /\ Cost' /\ Kept' /\ jobs' \in [Job -> Rows]
<1>1. \A j \in Job : jobs'[j] = Absent  OBVIOUS
<1>2. /\ Absent.status = "ABSENT" /\ Absent.retry_count = 0 /\ Absent.attempt_count = 0
      /\ Absent \in Rows
  BY MigrationAssumption DEF MigrationAssumption, Absent, Row, Rows
<1> QED  BY <1>1, <1>2 DEF Counts, CountOK, Cost, CostOK, Kept, KeptOK

LEMMA SimpleDownInv ==
    ASSUME IInv, SimpleDown, Others, run' = Going("down", <<>>)  PROVE IInv'
<1>1. PICK t \in Table \ {"outbox"} : Drop(t)  BY DEF SimpleDown
<1>2. /\ tables' = tables \ {t} /\ UNCHANGED <<outbox, dropped>>
      /\ \/ UNCHANGED <<durable, jobs>>
         \/ durable' = FALSE /\ jobs' = [j \in Job |-> Absent]
  BY <1>1 DEF Drop, IInv, TypeOK
<1>3. Remaining = 6 /\ Remaining' = 6  BY DEF SimpleDown, Remaining, Going
<1>4. applied' = applied /\ applied # 4  BY DEF Others, SimpleDown
<1>5. jobs' \in [Job -> Rows]  BY <1>2, NoRows DEF IInv, TypeOK
<1>6. TypeOK'
  <2>1. applied' > 0 /\ downs' > 0
    BY DEF SimpleDown, Others, IInv, TypeOK, RunOK, Idle
  <2>2. <<>> \in Left(applied', "down")
    BY <2>1 DEF SimpleDown, Others, IInv, TypeOK, Left
  <2>3. RunOK'  BY <2>1, <2>2 DEF RunOK, Going
  <2> QED  BY <1>2, <1>5, <2>3 DEF IInv, TypeOK, Others
<1>7. Schema'  BY <1>2, <1>3, <1>4 DEF IInv, Schema
<1>8. Counts' /\ Cost' /\ Kept'
  <2>1. CASE UNCHANGED <<durable, jobs>>
    <3>1. Quiet  BY <1>2, <1>3, <1>4, <2>1 DEF Quiet, Others
    <3> QED  BY <3>1, SameRows
  <2> QED  BY <1>2, <2>1, NoRows
<1> QED  BY <1>6, <1>7, <1>8 DEF IInv
\* The upgrade to the durable schema, statement by statement.
LEMMA AddColumnsInv ==
    ASSUME IInv, DurableUp(Begun, AddColumns, Added), Others  PROVE IInv'
<1>1. /\ applied = 3 /\ applied' = 3 /\ durable = FALSE /\ durable' = TRUE
      /\ UNCHANGED <<tables, jobs, outbox, dropped, used, work, downs>>
  BY DEF DurableUp, AddColumns, Others, IInv, TypeOK
<1>2. Remaining = 5 /\ Remaining' = 4  BY <1>1, Stages, StagesNext DEF DurableUp
<1>3. RunOK'  BY <1>1 DEF DurableUp, RunOK, Left, Going
<1>4. TypeOK'  BY <1>1, <1>3 DEF IInv, TypeOK
<1>5. Schema'  BY <1>1, <1>2 DEF IInv, Schema
<1>6. Quiet  BY <1>1, <1>2 DEF Quiet
<1> QED  BY <1>4, <1>5, <1>6, SameRows DEF IInv

LEMMA CreateOutboxInv ==
    ASSUME IInv, DurableUp(Added, Create("outbox"), Created), Others  PROVE IInv'
<1>1. /\ applied = 3 /\ applied' = 3 /\ "outbox" \notin tables
      /\ tables' = tables \cup {"outbox"}
      /\ UNCHANGED <<durable, jobs, outbox, dropped, used, work, downs>>
  BY DEF DurableUp, Create, Others, IInv, TypeOK
<1>2. Remaining = 4 /\ Remaining' = 3  BY <1>1, Stages, StagesNext DEF DurableUp
<1>3. RunOK'  BY <1>1 DEF DurableUp, RunOK, Left, Going
<1>4. TypeOK'  BY <1>1, <1>3 DEF IInv, TypeOK, Table
<1>5. Schema'  BY <1>1, <1>2 DEF IInv, Schema
<1>6. Quiet  BY <1>1, <1>2 DEF Quiet
<1> QED  BY <1>4, <1>5, <1>6, SameRows DEF IInv

\* A row whose attempts have been counted.
LEMMA CountedRow ==
    ASSUME NEW row \in Rows, row.status \in {"PENDING", "PROCESSING"},
           NEW next, next = [row EXCEPT !.attempt_count = UsedBy(row)]
    PROVE  /\ next \in Rows /\ next.status = row.status
           /\ next.attempt_count = UsedBy(row) /\ UsedBy(next) = UsedBy(row)
BY MigrationAssumption DEF MigrationAssumption, Rows, UsedBy

LEMMA CountAttemptsInv ==
    ASSUME IInv, DurableUp(Created, CountAttempts, Counted), Others  PROVE IInv'
<1>1. /\ applied = 3 /\ applied' = 3
      /\ UNCHANGED <<tables, durable, outbox, dropped, used, work, downs>>
  BY DEF DurableUp, CountAttempts, Others, IInv, TypeOK
<1>2. Remaining = 3 /\ Remaining' = 2  BY <1>1, Stages, StagesNext DEF DurableUp
<1>3. \A j \in Job :
        /\ Nonterminal(j) => jobs'[j] = [jobs[j] EXCEPT !.attempt_count = UsedBy(jobs[j])]
        /\ ~Nonterminal(j) => jobs'[j] = jobs[j]
  BY DEF DurableUp, CountAttempts
<1>4. \A j \in Job : jobs[j] \in Rows  BY DEF IInv, TypeOK
<1>5. jobs' \in [Job -> Rows]
  <2>1. \A j \in Job : jobs'[j] \in Rows
    <3> SUFFICES ASSUME NEW j \in Job  PROVE jobs'[j] \in Rows  OBVIOUS
    <3> QED  BY <1>3, <1>4, CountedRow DEF Nonterminal
  <2> QED  BY <2>1 DEF DurableUp, CountAttempts
<1>6. TypeOK'
  <2>1. RunOK'  BY <1>1 DEF DurableUp, RunOK, Left, Going
  <2> QED  BY <1>1, <1>5, <2>1 DEF IInv, TypeOK
<1>7. Schema'  BY <1>1, <1>2 DEF IInv, Schema
<1>8. durable' = TRUE /\ ~Uncounted' /\ Filled' /\ Uncounted
  BY <1>1, <1>2 DEF IInv, Schema, Uncounted, Filled
<1>9. ASSUME NEW j \in Job
      PROVE  CountOK(jobs[j])' /\ CostOK(jobs[j], dropped[j])' /\ KeptOK(jobs[j], used[j])'
  <2>1. CountOK(jobs[j]) /\ CostOK(jobs[j], dropped[j]) /\ KeptOK(jobs[j], used[j])
    BY DEF IInv, Counts, Cost, Kept
  <2>2. CASE Nonterminal(j)
    <3>1. /\ jobs'[j].status = jobs[j].status /\ jobs'[j].attempt_count = UsedBy(jobs[j])
          /\ UsedBy(jobs'[j]) = UsedBy(jobs[j])
      BY <1>3, <1>4, <2>2, CountedRow DEF Nonterminal
    <3> QED  BY <1>1, <1>2, <1>8, <2>1, <2>2, <3>1 DEF CountOK, CostOK, KeptOK, Nonterminal
  <2>3. CASE ~Nonterminal(j)
    <3>1. jobs'[j] = jobs[j]  BY <1>3, <2>3
    <3> QED  BY <1>1, <1>2, <1>8, <2>1, <2>3, <3>1 DEF CountOK, CostOK, KeptOK, Nonterminal
  <2> QED  BY <2>2, <2>3
<1> QED  BY <1>6, <1>7, <1>9 DEF IInv, Counts, Cost, Kept

LEMMA AddIntentsInv ==
    ASSUME IInv, DurableUp(Counted, AddIntents, Intended), Others  PROVE IInv'
<1>1. /\ applied = 3 /\ applied' = 3
      /\ UNCHANGED <<tables, durable, jobs, dropped, used, work, downs>>
  BY DEF DurableUp, AddIntents, Others, IInv, TypeOK
<1>2. Remaining = 2 /\ Remaining' = 1  BY <1>1, Stages, StagesNext DEF DurableUp
<1>3. outbox' = { <<j, jobs[j].attempt_count + 1>> : j \in { i \in Job : Nonterminal(i) } }
  <2>1. outbox = {}  BY <1>2 DEF IInv, Schema
  <2> QED  BY <2>1 DEF DurableUp, AddIntents
<1>4. outbox' \subseteq Job \X (1 .. Budget + 2)
  <2>1. \A j \in Job : jobs[j].attempt_count + 1 \in 1 .. Budget + 2
    BY MigrationAssumption DEF MigrationAssumption, IInv, TypeOK, Rows
  <2> QED  BY <1>3, <2>1
<1>5. TypeOK'
  <2>1. RunOK'  BY <1>1 DEF DurableUp, RunOK, Left, Going
  <2> QED  BY <1>1, <1>4, <2>1 DEF IInv, TypeOK
<1>6. Schema'
  <2>1. "outbox" \in tables  BY <1>2 DEF IInv, Schema
  <2> QED  BY <1>1, <1>2, <1>3, <2>1 DEF IInv, Schema, Nonterminal
<1>7. (Uncounted' <=> Uncounted) /\ (Filled' <=> Filled)
  BY <1>1, <1>2 DEF Uncounted, Filled
<1>8. Counts' /\ Cost' /\ Kept'
  BY <1>1, <1>2, <1>7 DEF IInv, Counts, CountOK, Cost, CostOK, Kept, KeptOK
<1> QED  BY <1>5, <1>6, <1>8 DEF IInv
LEMMA MakePendingInv ==
    ASSUME IInv, DurableUp(Intended, MakePending, <<>>), Others  PROVE IInv'
<1>1. /\ applied = 3 /\ applied' = 3
      /\ UNCHANGED <<tables, durable, outbox, dropped, used, work, downs>>
  BY DEF DurableUp, MakePending, Others, IInv, TypeOK
<1>2. Remaining = 1 /\ Remaining' = 0  BY <1>1, Stages, StagesNext DEF DurableUp
<1>3. \A j \in Job : jobs[j] \in Rows  BY DEF IInv, TypeOK
<1>4. ASSUME NEW j \in Job
      PROVE  /\ jobs'[j] \in Rows
             /\ jobs'[j].retry_count = jobs[j].retry_count
             /\ jobs'[j].attempt_count = jobs[j].attempt_count
             /\ jobs'[j].status = IF jobs[j].status = "PROCESSING" THEN "PENDING"
                                                                  ELSE jobs[j].status
             /\ jobs[j].status = "ABSENT" => jobs'[j] = jobs[j]
  BY <1>3 DEF DurableUp, MakePending, Rows
<1>5. \A j \in Job : Nonterminal(j)' <=> Nonterminal(j)  BY <1>4 DEF Nonterminal
<1>6. jobs' \in [Job -> Rows]
  <2>1. jobs' = [j \in Job |-> jobs'[j]]  BY DEF DurableUp, MakePending
  <2> QED  BY <1>4, <2>1
<1>7. TypeOK'
  <2>1. RunOK'  BY <1>1 DEF DurableUp, RunOK, Left, Going
  <2> QED  BY <1>1, <1>6, <2>1 DEF IInv, TypeOK
<1>8. Schema'
  <2>1. outbox = { <<j, jobs[j].attempt_count + 1>> : j \in { i \in Job : Nonterminal(i) } }
    BY <1>2 DEF IInv, Schema
  <2>2. { i \in Job : Nonterminal(i) }' = { i \in Job : Nonterminal(i) }  BY <1>5
  <2>3. outbox' = { <<j, jobs'[j].attempt_count + 1>> : j \in { i \in Job : Nonterminal(i) }' }
    BY <1>1, <1>4, <2>1, <2>2
  <2> QED  BY <1>1, <1>2, <2>3 DEF IInv, Schema
<1>9. durable = TRUE /\ ~Uncounted' /\ Filled' /\ ~Uncounted /\ Filled
  BY <1>1, <1>2 DEF IInv, Schema, Uncounted, Filled
<1>10. ASSUME NEW j \in Job
       PROVE  CountOK(jobs[j])' /\ CostOK(jobs[j], dropped[j])' /\ KeptOK(jobs[j], used[j])'
  <2>1. CountOK(jobs[j]) /\ CostOK(jobs[j], dropped[j]) /\ KeptOK(jobs[j], used[j])
    BY DEF IInv, Counts, Cost, Kept
  <2>2. CountOK(jobs[j])'
    <3>1. jobs[j].status \in {"PENDING", "PROCESSING"} =>
             jobs[j].attempt_count \in { jobs[j].retry_count, jobs[j].retry_count + 1 }
      BY <1>2, <1>3, <2>1 DEF CountOK, UsedBy, Rows
    <3>2. jobs'[j].status \in {"PENDING", "PROCESSING"} =>
             jobs[j].status \in {"PENDING", "PROCESSING"}
      BY <1>4
    <3> QED  BY <1>1, <1>2, <1>4, <1>9, <2>1, <3>1, <3>2 DEF CountOK
  <2>3. CostOK(jobs[j], dropped[j])' /\ KeptOK(jobs[j], used[j])'
    BY <1>1, <1>4, <1>9, <2>1 DEF CostOK, KeptOK
  <2> QED  BY <2>2, <2>3
<1> QED  BY <1>7, <1>8, <1>10 DEF IInv, Counts, Cost, Kept

-----------------------------------------------------------------------------
\* The way back.
LEMMA DropOutboxInv ==
    ASSUME IInv, DurableDown(Undone, Drop("outbox"), Unlinked), Others  PROVE IInv'
<1>1. /\ applied = 4 /\ applied' = 4 /\ tables' = tables \ {"outbox"} /\ outbox' = {}
      /\ UNCHANGED <<durable, jobs, dropped, used, work, downs>>
  BY DEF DurableDown, Drop, Others, IInv, TypeOK
<1>2. Remaining = 6 /\ Remaining' = 6  BY <1>1 DEF Remaining
<1>3. RunOK'
  <2>1. downs > 0  BY DEF DurableDown, Going, Idle, IInv, TypeOK, RunOK
  <2> QED  BY <1>1, <2>1 DEF DurableDown, RunOK, Left, Going
<1>4. TypeOK'  BY <1>1, <1>3 DEF IInv, TypeOK
<1>5. Schema'  BY <1>1, <1>2 DEF IInv, Schema
<1>6. Quiet  BY <1>1, <1>2 DEF Quiet
<1> QED  BY <1>4, <1>5, <1>6, SameRows DEF IInv

LEMMA DropColumnsInv ==
    ASSUME IInv, DurableDown(Unlinked, DropColumns, <<>>), Others  PROVE IInv'
<1>1. /\ applied = 4 /\ applied' = 4 /\ durable = TRUE /\ durable' = FALSE
      /\ jobs' = [j \in Job |-> [jobs[j] EXCEPT !.attempt_count = 0]]
      /\ dropped' = [j \in Job |-> jobs[j].attempt_count]
      /\ UNCHANGED <<tables, outbox, used, work, downs>>
  BY DEF DurableDown, DropColumns, Others, IInv, TypeOK
<1>2. Remaining = 6 /\ Remaining' = 6  BY <1>1 DEF Remaining
<1>3. downs > 0  BY DEF DurableDown, Going, Idle, IInv, TypeOK, RunOK
<1>4. \A j \in Job : jobs[j] \in Rows  BY DEF IInv, TypeOK
<1>5. ASSUME NEW j \in Job
      PROVE  /\ jobs'[j] \in Rows /\ dropped'[j] \in Nat
             /\ jobs'[j].status = jobs[j].status
             /\ jobs'[j].attempt_count = 0
             /\ UsedBy(jobs'[j]) = UsedBy(jobs[j])
             /\ jobs[j].attempt_count = 0 => jobs'[j] = jobs[j]
  BY <1>1, <1>4, MigrationAssumption DEF MigrationAssumption, Rows, UsedBy
<1>6. TypeOK'
  <2>1. RunOK'  BY <1>1, <1>3 DEF DurableDown, RunOK, Left, Going
  <2> QED  BY <1>1, <1>5, <2>1 DEF IInv, TypeOK
<1>7. Schema'  BY <1>1, <1>2 DEF DurableDown, IInv, Schema
<1>8. Uncounted' /\ ~Filled' /\ downs' > 0  BY <1>1, <1>2, <1>3 DEF Uncounted, Filled
<1>9. ASSUME NEW j \in Job
      PROVE  CountOK(jobs[j])' /\ CostOK(jobs[j], dropped[j])' /\ KeptOK(jobs[j], used[j])'
  <2>1. CountOK(jobs[j])  BY DEF IInv, Counts
  <2>2. CountOK(jobs[j])'
    BY <1>1, <1>2, <1>5, <1>8, <2>1 DEF CountOK, Absent, Row
  <2>3. jobs[j].status \in {"PENDING", "PROCESSING"} =>
           UsedBy(jobs[j]) \in { jobs[j].attempt_count, jobs[j].attempt_count - 1 }
    BY <1>1, <1>4, <2>1 DEF CountOK, UsedBy, Rows
  <2>4. CostOK(jobs[j], dropped[j])'  BY <1>1, <1>5, <1>8, <2>3 DEF CostOK
  <2>5. KeptOK(jobs[j], used[j])'  BY <1>3, <1>8 DEF KeptOK, IInv, TypeOK
  <2> QED  BY <2>2, <2>4, <2>5
<1> QED  BY <1>6, <1>7, <1>9 DEF IInv, Counts, Cost, Kept
-----------------------------------------------------------------------------
\* db-migrate and the new release.
LEMMA RunStatementInv == ASSUME IInv, RunStatement  PROVE IInv'
<1>1. Others  BY DEF RunStatement, Others
<1>2. \/ SimpleUp /\ run' = Going("up", <<>>)
      \/ SimpleDown /\ run' = Going("down", <<>>)
      \/ DurableUp(Begun, AddColumns, Added)
      \/ DurableUp(Added, Create("outbox"), Created)
      \/ DurableUp(Created, CountAttempts, Counted)
      \/ DurableUp(Counted, AddIntents, Intended)
      \/ DurableUp(Intended, MakePending, <<>>)
      \/ DurableDown(Undone, Drop("outbox"), Unlinked)
      \/ DurableDown(Unlinked, DropColumns, <<>>)
  BY StatementCases DEF IInv
<1> QED
  BY <1>1, <1>2, SimpleUpInv, SimpleDownInv, AddColumnsInv, CreateOutboxInv, CountAttemptsInv,
     AddIntentsInv, MakePendingInv, DropOutboxInv, DropColumnsInv

LEMMA StatementsLeft ==
    ASSUME NEW m \in 1 .. 4, NEW d \in {"up", "down"}
    PROVE  Statements(m, d) \in Left(m, d)
<1>1. CASE m = 1  BY <1>1 DEF Statements, Left
<1>2. CASE m = 2  BY <1>2 DEF Statements, Left
<1>3. CASE m = 3  BY <1>3 DEF Statements, Left
<1>4. CASE m = 4
  <2>1. Statements(m, d) = DurableDelivery(d)  BY <1>4 DEF Statements
  <2>2. d = "up" => Begun \in Left(m, d)  BY <1>4 DEF Left
  <2>3. d = "down" => Undone \in Left(m, d)  BY <1>4 DEF Left
  <2> QED  BY <2>1, <2>2, <2>3, Tails
<1> QED  BY <1>1, <1>2, <1>3, <1>4

LEMMA UpInv == ASSUME IInv, Up  PROVE IInv'
<1>1. /\ applied < 4 /\ applied' = applied /\ Remaining = 6 /\ applied' # 4
      /\ run' = Going("up", Statements(applied + 1, "up"))
      /\ UNCHANGED <<tables, durable, jobs, outbox, dropped, used, work, downs>>
  BY DEF Up, Remaining, Idle, IInv, TypeOK, Going
<1>2. Statements(applied + 1, "up") \in Left(applied + 1, "up")
  BY <1>1, StatementsLeft DEF IInv, TypeOK
<1>3. Remaining' \in {5, 6}
  <2>1. CASE applied = 3
    <3>1. Statements(4, "up") = Begun  BY Tails DEF Statements
    <3> QED  BY <1>1, <2>1, <3>1, StagesNext
  <2>2. CASE applied # 3  BY <1>1, <2>2 DEF Remaining
  <2> QED  BY <2>1, <2>2
<1>4. TypeOK'
  <2>1. RunOK'  BY <1>1, <1>2 DEF RunOK, Going
  <2> QED  BY <1>1, <2>1 DEF IInv, TypeOK
<1>5. Schema'  BY <1>1, <1>3 DEF IInv, Schema
<1>6. Quiet  BY <1>1, <1>3 DEF Quiet
<1> QED  BY <1>4, <1>5, <1>6, SameRows DEF IInv

LEMMA DownInv == ASSUME IInv, Down  PROVE IInv'
<1>1. /\ applied > 0 /\ applied' = applied /\ Remaining = 6 /\ downs' = downs + 1
      /\ run' = Going("down", Statements(applied, "down"))
      /\ UNCHANGED <<tables, durable, jobs, outbox, dropped, used, work>>
  BY DEF Down, Remaining, Idle, IInv, TypeOK, Going
<1>2. Statements(applied, "down") \in Left(applied, "down")
  BY <1>1, StatementsLeft DEF IInv, TypeOK
<1>3. Remaining' = 6  BY <1>1 DEF Remaining, Going
<1>4. downs' \in Nat /\ downs' > 0  BY <1>1 DEF IInv, TypeOK
<1>5. TypeOK'
  <2>1. RunOK'  BY <1>1, <1>2, <1>4 DEF RunOK, Going
  <2> QED  BY <1>1, <1>4, <2>1 DEF IInv, TypeOK
<1>6. Schema'
  <2>1. applied = 4 => run' # Going("down", Unlinked)
    <3>1. Statements(4, "down") = Undone  BY Tails DEF Statements
    <3> QED  BY <1>1, <3>1, Apart DEF Going
  <2> QED  BY <1>1, <1>3, <2>1 DEF IInv, Schema
<1>7. (Uncounted' => Uncounted) /\ ~Filled'  BY <1>1, <1>3 DEF Uncounted, Filled
<1>8. Counts' /\ Cost'
  BY <1>1, <1>3, <1>7 DEF IInv, Counts, CountOK, Cost, CostOK
<1>9. Kept'  BY <1>4 DEF Kept, KeptOK
<1> QED  BY <1>5, <1>6, <1>8, <1>9 DEF IInv

LEMMA AbortInv == ASSUME IInv, Abort  PROVE IInv'
<1>1. /\ run' = Idle
      /\ UNCHANGED <<tables, durable, jobs, outbox, applied, dropped, used, work, downs>>
  BY DEF Abort
<1>2. Remaining' = 6  BY <1>1 DEF Remaining, Idle
<1>3. TypeOK'  BY <1>1 DEF IInv, TypeOK, RunOK
<1>4. Schema'  BY <1>1, <1>2 DEF IInv, Schema, Idle, Going
<1>5. Quiet  BY <1>1, <1>2 DEF Quiet
<1> QED  BY <1>3, <1>4, <1>5, SameRows DEF IInv

\* An upgrade is recorded after its last statement.
LEMMA RecordCases ==
    ASSUME IInv, Record
    PROVE  \/ /\ applied' \in 1 .. 3 /\ applied = applied' - 1 /\ run.direction = "up"
              /\ run' = Going("up", Statements(applied' + 1, "up"))
           \/ applied' = 4 /\ applied = 3 /\ Remaining = 0 /\ run' = Idle
           \/ applied' \in 0 .. 3 /\ applied = applied' + 1 /\ run.direction = "down" /\ run' = Idle
<1>1. CASE run.direction = "up"
  <2>1. applied \in 0 .. 3 /\ run = Going("up", run.todo)
    BY <1>1 DEF IInv, TypeOK, RunOK, Idle, Going
  <2>2. run.todo = <<>> /\ applied' = applied + 1  BY <1>1 DEF Record
  <2>3. CASE applied = 3  BY <1>1, <2>1, <2>2, <2>3, Stages DEF Record
  <2>4. CASE applied # 3
    <3>1. run' = Going("up", Statements(applied' + 1, "up"))
      BY <1>1, <2>1, <2>2, <2>4 DEF Record, Going
    <3> QED  BY <1>1, <2>1, <2>2, <2>4, <3>1
  <2> QED  BY <2>3, <2>4
<1>2. CASE run.direction # "up"
  <2>1. run.direction = "down" /\ applied \in 1 .. 4
    BY <1>2 DEF Record, IInv, TypeOK, RunOK, Idle
  <2> QED  BY <2>1 DEF Record
<1> QED  BY <1>1, <1>2

LEMMA RecordInv == ASSUME IInv, Record  PROVE IInv'
<1>0. UNCHANGED <<tables, durable, jobs, outbox, used, dropped, work, downs>>  BY DEF Record
<1>1. CASE /\ applied' \in 1 .. 3 /\ applied = applied' - 1 /\ run.direction = "up"
           /\ run' = Going("up", Statements(applied' + 1, "up"))
  <2>1. Statements(applied' + 1, "up") \in Left(applied' + 1, "up")
    BY <1>1, StatementsLeft
  <2>2. Remaining = 6  BY <1>1 DEF Remaining
  <2>3. Remaining' \in {5, 6}
    <3>1. CASE applied' = 3
      <4>1. Statements(4, "up") = Begun  BY Tails DEF Statements
      <4> QED  BY <1>1, <3>1, <4>1, StagesNext
    <3>2. CASE applied' # 3  BY <1>1, <3>2 DEF Remaining
    <3> QED  BY <3>1, <3>2
  <2>4. TypeOK'
    <3>1. RunOK'  BY <1>1, <2>1 DEF RunOK, Going
    <3> QED  BY <1>0, <1>1, <3>1 DEF IInv, TypeOK
  <2>5. Schema'  BY <1>0, <1>1, <2>2, <2>3 DEF IInv, Schema
  <2>6. Quiet  BY <1>0, <1>1, <2>2, <2>3 DEF Quiet
  <2> QED  BY <2>4, <2>5, <2>6, SameRows DEF IInv
<1>2. CASE applied' = 4 /\ applied = 3 /\ Remaining = 0 /\ run' = Idle
  <2>1. Remaining' = 6  BY <1>2 DEF Remaining
  <2>2. TypeOK'  BY <1>0, <1>2 DEF IInv, TypeOK, RunOK
  <2>3. Schema'  BY <1>0, <1>2, <2>1 DEF IInv, Schema, Idle, Going
  <2>4. durable = TRUE /\ ~Uncounted' /\ ~Filled' /\ Filled
    BY <1>0, <1>2, <2>1 DEF IInv, Schema, Uncounted, Filled
  <2>5. Counts' /\ Cost' /\ Kept'
    BY <1>0, <1>2, <2>1, <2>4 DEF IInv, Counts, CountOK, Cost, CostOK, Kept, KeptOK
  <2> QED  BY <2>2, <2>3, <2>5 DEF IInv
<1>3. CASE applied' \in 0 .. 3 /\ applied = applied' + 1 /\ run.direction = "down" /\ run' = Idle
  <2>1. Remaining = 6 /\ Remaining' = 6 /\ applied' # 4  BY <1>3 DEF Remaining, Idle
  <2>2. TypeOK'  BY <1>0, <1>3 DEF IInv, TypeOK, RunOK
  <2>3. Schema'  BY <1>0, <1>3, <2>1 DEF IInv, Schema
  <2>4. Quiet  BY <1>0, <2>1 DEF Quiet
  <2> QED  BY <2>2, <2>3, <2>4, SameRows DEF IInv
<1> QED  BY <1>1, <1>2, <1>3, RecordCases
LEMMA ClaimInv == ASSUME IInv, NEW j \in Job, Claim(j)  PROVE IInv'
<1>1. /\ run = Idle /\ run' = Idle /\ applied = 4 /\ applied' = 4 /\ "outbox" \in tables
      /\ work' = work + 1 /\ UNCHANGED <<tables, durable, outbox, dropped, downs>>
      /\ Nonterminal(j) /\ jobs[j].attempt_count <= Budget
      /\ jobs' = [jobs EXCEPT ![j] = Row("PROCESSING", jobs[j].attempt_count,
                                                        jobs[j].attempt_count + 1)]
      /\ used' = [used EXCEPT ![j] = used[j] + 1]
  BY DEF Claim, Works
<1>2. Remaining = 6 /\ Remaining' = 6 /\ durable = TRUE
  BY <1>1 DEF Remaining, IInv, Schema
<1>3. ~Uncounted /\ ~Uncounted' /\ ~Filled'  BY <1>1, <1>2 DEF Uncounted, Filled
<1>4. jobs[j] \in Rows /\ used[j] \in Nat  BY DEF IInv, TypeOK
<1>5. /\ jobs'[j] = Row("PROCESSING", jobs[j].attempt_count, jobs[j].attempt_count + 1)
      /\ used'[j] = used[j] + 1
      /\ \A i \in Job : i # j => jobs'[i] = jobs[i] /\ used'[i] = used[i]
  BY <1>1 DEF IInv, TypeOK
<1>6. jobs'[j] \in Rows
  BY <1>1, <1>4, <1>5, MigrationAssumption DEF MigrationAssumption, Rows, Row
<1>7. TypeOK'  BY <1>1, <1>4, <1>6 DEF IInv, TypeOK, RunOK
<1>8. Schema'  BY <1>1, <1>2 DEF IInv, Schema
<1>9. ASSUME NEW i \in Job
      PROVE  CountOK(jobs[i])' /\ CostOK(jobs[i], dropped[i])' /\ KeptOK(jobs[i], used[i])'
  <2>1. CountOK(jobs[i]) /\ KeptOK(jobs[i], used[i])  BY DEF IInv, Counts, Kept
  <2>2. CostOK(jobs[i], dropped[i])'  BY <1>3 DEF CostOK
  <2>3. CASE i = j
    <3>1. CountOK(jobs[i])'  BY <1>2, <1>3, <1>5, <2>3 DEF CountOK, Row
    <3>2. KeptOK(jobs[i], used[i])'
      BY <1>1, <1>3, <1>5, <2>1, <2>3 DEF KeptOK, Row, Nonterminal
    <3> QED  BY <2>2, <3>1, <3>2
  <2>4. CASE i # j
    BY <1>1, <1>2, <1>3, <1>5, <2>1, <2>2, <2>4 DEF CountOK, KeptOK
  <2> QED  BY <2>3, <2>4
<1> QED  BY <1>7, <1>8, <1>9 DEF IInv, Counts, Cost, Kept

LEMMA FinishInv == ASSUME IInv, NEW j \in Job, Finish(j)  PROVE IInv'
<1>1. /\ run = Idle /\ run' = Idle /\ applied = 4 /\ applied' = 4 /\ "outbox" \in tables
      /\ work' = work + 1 /\ UNCHANGED <<tables, durable, used, dropped, downs>>
      /\ jobs[j].status = "PROCESSING"
  BY DEF Finish, Works
<1>2. \/ /\ jobs[j].attempt_count <= Budget
         /\ jobs' = [jobs EXCEPT ![j].status = "PENDING"]
         /\ outbox' = outbox \cup { <<j, jobs[j].attempt_count + 1>> }
      \/ jobs' = [jobs EXCEPT ![j].status = "DEAD"] /\ outbox' = outbox
  BY DEF Finish
<1>3. Remaining = 6 /\ Remaining' = 6 /\ durable = TRUE
  BY <1>1 DEF Remaining, IInv, Schema
<1>4. ~Uncounted /\ ~Uncounted' /\ ~Filled'  BY <1>1, <1>3 DEF Uncounted, Filled
<1>5. jobs[j] \in Rows  BY DEF IInv, TypeOK
<1>6. /\ jobs'[j] \in Rows
      /\ jobs'[j].status \in {"PENDING", "DEAD"}
      /\ jobs'[j].retry_count = jobs[j].retry_count
      /\ jobs'[j].attempt_count = jobs[j].attempt_count
      /\ \A i \in Job : i # j => jobs'[i] = jobs[i]
      /\ DOMAIN jobs' = Job
  BY <1>2, <1>5 DEF Rows, IInv, TypeOK
<1>7. outbox' \subseteq Job \X (1 .. Budget + 2)
  BY <1>2, <1>5, MigrationAssumption DEF MigrationAssumption, Rows, IInv, TypeOK
<1>8. TypeOK'
  <2>1. jobs' \in [Job -> Rows]  BY <1>2, <1>6 DEF IInv, TypeOK
  <2> QED  BY <1>1, <1>7, <2>1 DEF IInv, TypeOK, RunOK
<1>9. Schema'  BY <1>1, <1>3 DEF IInv, Schema, Idle, Going
<1>10. ASSUME NEW i \in Job
       PROVE  CountOK(jobs[i])' /\ CostOK(jobs[i], dropped[i])' /\ KeptOK(jobs[i], used[i])'
  <2>1. CountOK(jobs[i]) /\ KeptOK(jobs[i], used[i])  BY DEF IInv, Counts, Kept
  <2>2. CostOK(jobs[i], dropped[i])'  BY <1>4 DEF CostOK
  <2>3. CASE i = j
    <3>1. CountOK(jobs[i])'  BY <1>1, <1>3, <1>4, <1>6, <2>1, <2>3 DEF CountOK
    <3>2. KeptOK(jobs[i], used[i])'  BY <1>1, <1>4, <1>6, <2>1, <2>3 DEF KeptOK
    <3> QED  BY <2>2, <3>1, <3>2
  <2>4. CASE i # j
    BY <1>1, <1>3, <1>4, <1>6, <2>1, <2>2, <2>4 DEF CountOK, KeptOK
  <2> QED  BY <2>3, <2>4
<1> QED  BY <1>8, <1>9, <1>10 DEF IInv, Counts, Cost, Kept

-----------------------------------------------------------------------------
LEMMA InitInv == Init => IInv
<1> SUFFICES ASSUME Init  PROVE IInv  OBVIOUS
<1>1. Remaining = 6 /\ durable = FALSE /\ outbox = {} /\ run = Idle
  BY DEF Init, Remaining, Idle
<1>2. \A row \in Legacy : /\ row \in Rows /\ row.attempt_count = 0
                          /\ UsedBy(row) \in Nat
                          /\ row.status = "ABSENT" => row = Absent
  BY MigrationAssumption DEF MigrationAssumption, Legacy, Absent, Row, Rows, UsedBy
<1>3. jobs \in [Job -> Legacy]  BY DEF Init, Legacy
<1>4. \A j \in Job : used[j] = UsedBy(jobs[j]) /\ used[j] \in Nat
  <2> SUFFICES ASSUME NEW j \in Job  PROVE used[j] = UsedBy(jobs[j]) /\ used[j] \in Nat
    OBVIOUS
  <2>1. used[j] = UsedBy(jobs[j])  BY DEF Init
  <2> QED  BY <1>2, <1>3, <2>1
<1>5. TypeOK
  <2>1. jobs \in [Job -> Rows]  BY <1>2, <1>3
  <2>2. used \in [Job -> Nat] /\ dropped \in [Job -> Nat]  BY <1>4 DEF Init
  <2>3. tables \subseteq Table /\ applied \in 0 .. 4  BY DEF Init, Table
  <2> QED  BY <1>1, <2>1, <2>2, <2>3 DEF Init, TypeOK, RunOK
<1>6. Schema  BY <1>1 DEF Init, Schema, Going, Idle
<1>7. Counts
  <2> SUFFICES ASSUME NEW j \in Job  PROVE CountOK(jobs[j])  BY DEF Counts
  <2>1. jobs[j].attempt_count = 0 /\ (jobs[j].status = "ABSENT" => jobs[j] = Absent)
    BY <1>2, <1>3
  <2> QED  BY <1>1, <2>1 DEF CountOK
<1>8. Cost  BY DEF Init, Cost, CostOK
<1>9. Kept
  <2>1. ~Filled /\ applied # 4  BY <1>1 DEF Init, Filled
  <2> QED  BY <1>4, <2>1 DEF Kept, KeptOK
<1> QED  BY <1>5, <1>6, <1>7, <1>8, <1>9 DEF IInv

LEMMA NextInv == IInv /\ [Next]_vars => IInv'
<1> SUFFICES ASSUME IInv, [Next]_vars  PROVE IInv'  OBVIOUS
<1>1. CASE UNCHANGED vars
  <2>1. Remaining' = Remaining /\ (Uncounted' <=> Uncounted) /\ (Filled' <=> Filled)
    BY <1>1 DEF vars, Remaining, Uncounted, Filled
  <2>2. TypeOK' /\ Schema'  BY <1>1, <2>1 DEF vars, IInv, TypeOK, RunOK, Schema, Nonterminal
  <2>3. Counts' /\ Cost' /\ Kept'
    BY <1>1, <2>1 DEF vars, IInv, Counts, CountOK, Cost, CostOK, Kept, KeptOK
  <2> QED  BY <2>2, <2>3 DEF IInv
<1>2. CASE Next
  BY <1>2, UpInv, DownInv, RunStatementInv, RecordInv, AbortInv, ClaimInv, FinishInv DEF Next
<1> QED  BY <1>1, <1>2

\* The inductive invariant holds between any two statements of any run, also after
\* runs that have broken off.
THEOREM Invariance == Spec => []IInv
BY InitInv, NextInv, PTL DEF Spec

\* The type invariant of the schema, its rows and the run in progress.
THEOREM TypeCorrect == Spec => []TypeOK
<1>1. IInv => TypeOK  BY DEF IInv
<1> QED  BY <1>1, Invariance, PTL

\* "The migration preserves consumed retry budgets".
THEOREM UpgradesKeepBudgets == Spec => []UpgradeKeepsBudget
<1>1. IInv => UpgradeKeepsBudget
  BY DEF IInv, Kept, KeptOK, UpgradeKeepsBudget, Upgraded, Nonterminal
<1> QED  BY <1>1, Invariance, PTL

\* A rollback and the upgrade after it cost an interrupted or waiting job at most the
\* count of one attempt, whatever ran before and wherever runs broke off.
THEOREM RollbacksCostOneAttempt == Spec => RollbackCostsOneAttempt
<1>1. ASSUME IInv, Record, applied' = 4, downs > 0, NEW j \in Job, Nonterminal(j), dropped[j] > 0
      PROVE  jobs[j].attempt_count \in { dropped[j], dropped[j] - 1 }
  <2>1. Remaining = 0  BY <1>1, RecordCases
  <2>2. CostOK(jobs[j], dropped[j])  BY <1>1 DEF IInv, Cost
  <2> QED  BY <1>1, <2>1, <2>2 DEF CostOK, Filled, Nonterminal
<1>2. IInv /\ [Next]_vars =>
        [Record /\ applied' = 4 /\ downs > 0
           => \A j \in Job : Nonterminal(j) /\ dropped[j] > 0 =>
                 jobs[j].attempt_count \in { dropped[j], dropped[j] - 1 }]_vars
  BY <1>1
<1> QED  BY <1>2, Invariance, PTL DEF Spec, RollbackCostsOneAttempt
-----------------------------------------------------------------------------
\* The ids of the intents are different numbers.
LEMMA NumbersJobs ==
    /\ Number \in [Job -> 1 .. Cardinality(Job)]
    /\ \A i, j \in Job : i # j => Number[i] # Number[j]
<1>1. PICK f : f \in Bijection(1 .. Cardinality(Job), Job)
  BY MigrationAssumption, FS_CardinalityType DEF MigrationAssumption, ExistsBijection
<1>2. \A j \in Job : \E n \in 1 .. Cardinality(Job) : f[n] = j
  BY <1>1 DEF Bijection, Surjection
<1> DEFINE g == [j \in Job |-> CHOOSE n \in 1 .. Cardinality(Job) : f[n] = j]
<1>3. \A j \in Job : g[j] \in 1 .. Cardinality(Job) /\ f[g[j]] = j  BY <1>2
<1>4. /\ g \in [Job -> 1 .. Cardinality(Job)]
      /\ \A i, j \in Job : i # j => g[i] # g[j]
  BY <1>3
<1> HIDE DEF g
<1>5. \E h \in [Job -> 1 .. Cardinality(Job)] : \A i, j \in Job : i # j => h[i] # h[j]
  BY <1>4
<1> QED  BY <1>5 DEF Number

\* An instance has its own copy of the standard definition.
LEMMA SameCardinality == Store!Cardinality(Job) = Cardinality(Job)
BY DEF Store!Cardinality, Cardinality, Store!IsFiniteSet, IsFiniteSet

\* What the last statement leaves is what JobStore starts from.
StartsJob(row) ==
    /\ row.status \in {"ABSENT", "PENDING", "FAILED", "DEAD"}
    /\ row.attempt_count \in 0 .. Budget + 1
    /\ row.status # "PENDING" => row.attempt_count = 0

StartsStore ==
    /\ DOMAIN jobs = Job /\ \A j \in Job : StartsJob(jobs[j])
    /\ outbox = { <<j, jobs[j].attempt_count + 1>> : j \in { i \in Job : jobs[i].status = "PENDING" } }

LEMMA StartsInit == StartsStore => Store!Init
<1> SUFFICES ASSUME StartsStore  PROVE Store!Init  OBVIOUS
<1>0. \A j \in Job : /\ StoreJobs[j].attempt_count = jobs[j].attempt_count
                     /\ StoreJobs[j].status = jobs[j].status
  BY DEF StoreJobs
<1>1. StoreJobs \in [Job -> Store!StartingRows]
  <2> SUFFICES ASSUME NEW j \in Job
               PROVE  \E s \in {"ABSENT", "PENDING", "FAILED", "DEAD"} :
                         StoreJobs[j] \in Store!Migrated(s, Budget)
    BY DEF StoreJobs, Store!StartingRows
  <2>1. StoreJobs[j] \in Store!Migrated(jobs[j].status, Budget)
    BY DEF StoreJobs, StartsStore, StartsJob, Store!Migrated, Store!Fresh
  <2> QED  BY <2>1 DEF StartsStore, StartsJob
<1>2. StoreOutbox = { Store!Intent(Number[j], j, 1, StoreJobs[j].attempt_count + 1, 0) :
                        j \in { i \in Job : StoreJobs[i].status = "PENDING" } }
  <2> DEFINE P == { i \in Job : jobs[i].status = "PENDING" }
             F(r) == [id |-> Number[r[1]], job_id |-> r[1], generation |-> 1, attempt |-> r[2],
                      available_at |-> 0, published_at |-> 0]
             G(j) == Store!Intent(Number[j], j, 1, jobs[j].attempt_count + 1, 0)
  <2>1. outbox = { <<j, jobs[j].attempt_count + 1>> : j \in P }  BY DEF StartsStore
  <2>2. \A j : F(<<j, jobs[j].attempt_count + 1>>) = G(j)  BY DEF Store!Intent
  <2>3. StoreOutbox = { F(r) : r \in outbox }  BY DEF StoreOutbox
  <2> HIDE DEF F, G, P
  <2>4. \A x : x \in StoreOutbox <=> \E j \in P : x = G(j)
    <3>1. \A x : x \in StoreOutbox <=> \E j \in P : x = F(<<j, jobs[j].attempt_count + 1>>)
      BY <2>1, <2>3
    <3> QED  BY <2>2, <3>1
  <2>5. StoreOutbox = { G(j) : j \in P }  BY <2>4
  <2>6. { i \in Job : StoreJobs[i].status = "PENDING" } = P  BY <1>0 DEF P
  <2>7. \A j \in P : G(j) = Store!Intent(Number[j], j, 1, StoreJobs[j].attempt_count + 1, 0)
    BY <1>0 DEF G, P
  <2>8. { G(j) : j \in P }
          = { Store!Intent(Number[j], j, 1, StoreJobs[j].attempt_count + 1, 0) : j \in P }
    BY <2>7
  <2> QED  BY <2>5, <2>6, <2>8
<1>3. \E number \in [Job -> 1 .. Store!Cardinality(Job)] :
          /\ \A i, j \in Job : i # j => number[i] # number[j]
          /\ StoreOutbox = { Store!Intent(number[j], j, 1, StoreJobs[j].attempt_count + 1, 0) :
                               j \in { i \in Job : StoreJobs[i].status = "PENDING" } }
  BY <1>2, NumbersJobs, SameCardinality
<1>4. StoreAudit = [j \in Job |-> [from_status |-> "ABSENT", to_status |-> StoreJobs[j].status]]
  BY <1>0 DEF StoreAudit
<1>5. /\ Nothing = [d \in {} |-> Store!NoTransaction]
      /\ Nothing = [w \in {} |-> Store!NoTask]
      /\ [j \in Job |-> [g \in {1} |-> 0]] = [j \in Job |-> [g \in Store!Generations |-> 0]]
  BY DEF Nothing, Store!Generations
<1>6. Cardinality(Job) + 1 = Store!Cardinality(Job) + 1  BY SameCardinality
<1>7. StoreSent \in SUBSET ({ j \in Job : StoreJobs[j].status \in {"PENDING", "DEAD"} } \X {1})
  <2>1. { j \in Job : StoreJobs[j].status \in {"PENDING", "DEAD"} }
          = { j \in Job : jobs[j].status \in {"PENDING", "DEAD"} }
    BY <1>0
  <2> QED  BY <2>1 DEF StoreSent
<1> QED  BY <1>1, <1>3, <1>4, <1>5, <1>6, <1>7 DEF Store!Init

\* A completed upgrade hands a state over that JobStore starts in.
THEOREM UpgradesStartJobStore == Spec => UpgradeStartsJobStore
<1>1. IInv /\ Remaining = 0 => StartsStore
  <2> SUFFICES ASSUME IInv, Remaining = 0  PROVE StartsStore  OBVIOUS
  <2>1. ASSUME NEW j \in Job
        PROVE  StartsJob(jobs[j]) /\ (Nonterminal(j) <=> jobs[j].status = "PENDING")
    <3>1. jobs[j] \in Rows /\ CountOK(jobs[j])  BY DEF IInv, TypeOK, Counts
    <3> QED  BY <3>1 DEF CountOK, StartsJob, Filled, Rows, Nonterminal
  <2>2. outbox = { <<j, jobs[j].attempt_count + 1>> : j \in { i \in Job : Nonterminal(i) } }
    BY DEF IInv, Schema
  <2>3. { i \in Job : Nonterminal(i) } = { i \in Job : jobs[i].status = "PENDING" }
    BY <2>1
  <2> QED  BY <2>1, <2>2, <2>3 DEF StartsStore, IInv, TypeOK
<1>2. ASSUME IInv, Record, applied' = 4  PROVE Store!Init'
  <2>1. StartsStore  BY <1>1, <1>2, RecordCases
  <2>2. StartsStore'  BY <1>2, <2>1 DEF StartsStore, Record
  <2> QED  BY <2>2, StartsInit, PTL
<1>3. IInv /\ [Next]_vars => [Record /\ applied' = 4 => Store!Init']_vars  BY <1>2
<1> QED  BY <1>3, Invariance, PTL DEF Spec, UpgradeStartsJobStore
=============================================================================
