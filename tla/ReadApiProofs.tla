---------------------------- MODULE ReadApiProofs ----------------------------
(***************************************************************************)
(* What a client may conclude from what it has read, although no two reads *)
(* are of one moment.                                                      *)
(***************************************************************************)
EXTENDS ReadApi, FiniteSetTheorems, SequenceTheorems, TLAPS

Statuses == {"ABSENT", "PENDING", "PROCESSING", "COMPLETED", "FAILED", "DEAD"}

Walking == [pc: {"rows", "count", "done"}, list: List, limit: 1 .. MaxLimit, offset: Nat,
            rows: Seq(Job), total: Nat, seen: SUBSET Job, there: SUBSET Job]

StageOf == [status: Statuses, generation: Nat, attempts: Nat, budget: Nat]

TypeOK ==
    /\ life \in [Job -> StageOf]
    /\ created \in [Job -> Nat] /\ updated \in [Job -> Nat]
    /\ logged \in [Job -> SUBSET Statuses]
    /\ now \in Nat /\ changes \in Nat
    /\ client \in { Idle, [pc |-> "not_found"] }
                  \cup [pc: {"found"}, job: Job, status: Statuses]
                  \cup [pc: {"logs"}, job: Job, status: Statuses, logs: SUBSET Statuses]
                  \cup Walking
    /\ left \in BOOLEAN

\* A job's log has its status of now, and all it has been seen in.
Explained ==
    /\ \A j \in Job : life[j].status # "ABSENT" => life[j].status \in logged[j]
    /\ client.pc = "found" => client.status \in logged[client.job]
    /\ client.pc = "logs" => client.status \in client.logs

\* The entries before j, and whether j's place among them is certain.
Before(list, j) == { i \in Matching(list) : SortKey(list)[i] > SortKey(list)[j] }
Placed(list, j) == \A i \in Matching(list) : i # j => SortKey(list)[i] # SortKey(list)[j]

\* A job that the walk c has not seen is on this page, or still to come after it.
ToCome(c, j) ==
    /\ j \in Matching(c.list)
    /\ Placed(c.list, j) /\ j \notin c.seen =>
         \/ c.pc = "rows" /\ Cardinality(Before(c.list, j)) >= c.offset
         \/ c.pc = "count" /\ j \in ToSet(c.rows)
         \/ /\ c.pc = "count" /\ Len(c.rows) = c.limit
            /\ Cardinality(Before(c.list, j)) >= c.offset + c.limit

Walk ==
    client.pc \in {"rows", "count"} /\ ~left =>
        \A j \in client.there : ToCome(client, j)

\* A page that has been read lies within the list as it is now.
Covered ==
    client.pc = "count" /\ client.rows # <<>> /\ ~left =>
        client.offset + Len(client.rows) <= Cardinality(Matching(client.list))

IInv == TypeOK /\ Explained /\ Walk /\ Covered
-----------------------------------------------------------------------------
LEMMA MatchingJobs ==
    ASSUME NEW list
    PROVE  /\ Matching(list) \subseteq Job /\ IsFiniteSet(Matching(list))
           /\ Cardinality(Matching(list)) \in Nat
<1>1. Matching(list) \subseteq Job  BY DEF Matching
<1> QED  BY <1>1, ReadApiAssumption, FS_Subset, FS_CardinalityType DEF ReadApiAssumption

LEMMA KeyType ==
    ASSUME TypeOK, NEW list
    PROVE  SortKey(list) \in [Job -> Nat]
BY DEF TypeOK, SortKey

\* Every matching row is somewhere in the order, and once.
LEMMA SortedRows ==
    ASSUME TypeOK, NEW list, NEW s \in Sorted(list)
    PROVE  /\ s \in Seq(Job) /\ Len(s) = Cardinality(Matching(list))
           /\ \A p \in 1 .. Len(s) : s[p] \in Matching(list)
           /\ \A p, q \in 1 .. Len(s) : p # q => s[p] # s[q]
           /\ \A p, q \in 1 .. Len(s) : p < q => SortKey(list)[s[p]] >= SortKey(list)[s[q]]
           /\ \A j \in Matching(list) : \E p \in 1 .. Len(s) : s[p] = j
<1> DEFINE n == Cardinality(Matching(list))
<1>1. n \in Nat /\ Matching(list) \subseteq Job /\ IsFiniteSet(Matching(list))
  BY MatchingJobs
<1> HIDE DEF n
<1>2. /\ s \in [1 .. n -> Matching(list)]
      /\ \A p, q \in 1 .. n : p # q => s[p] # s[q]
      /\ \A p, q \in 1 .. n : p < q => SortKey(list)[s[p]] >= SortKey(list)[s[q]]
  BY DEF Sorted, SetToSeqs, n
<1>3. s \in Seq(Job) /\ Len(s) = n  BY <1>1, <1>2
<1>4. s \in Injection(1 .. n, Matching(list))  BY <1>2 DEF Injection, IsInjective
<1>5. IsFiniteSet(1 .. n) /\ Cardinality(1 .. n) = n  BY <1>1, FS_Interval
<1>6. s \in Surjection(1 .. n, Matching(list))
  BY <1>1, <1>4, <1>5, FS_Injection DEF n
<1>7. \A j \in Matching(list) : \E p \in 1 .. n : s[p] = j  BY <1>6 DEF Surjection
<1> QED  BY <1>2, <1>3, <1>7 DEF n

\* A job that shares its second with no other of the list has one place in it.
LEMMA PlaceOfJob ==
    ASSUME TypeOK, NEW list, NEW s \in Sorted(list), NEW j \in Matching(list), Placed(list, j),
           NEW p \in 1 .. Len(s), s[p] = j
    PROVE  Cardinality(Before(list, j)) = p - 1
<1> DEFINE key == SortKey(list)
           B == Before(list, j)
           f == [q \in 1 .. p - 1 |-> s[q]]
<1>1. key \in [Job -> Nat] /\ Matching(list) \subseteq Job  BY KeyType, MatchingJobs
<1>2. /\ \A q \in 1 .. Len(s) : s[q] \in Matching(list)
      /\ \A q, r \in 1 .. Len(s) : q # r => s[q] # s[r]
      /\ \A q, r \in 1 .. Len(s) : q < r => key[s[q]] >= key[s[r]]
      /\ \A i \in Matching(list) : \E q \in 1 .. Len(s) : s[q] = i
      /\ Len(s) \in Nat
  BY SortedRows, MatchingJobs
<1>3. B = { i \in Matching(list) : key[i] > key[j] }
      /\ \A i \in Matching(list) : i # j => key[i] # key[j]
  BY DEF Before, Placed
<1> HIDE DEF key, B
<1>4. \A q \in 1 .. p - 1 : s[q] \in B
  <2> SUFFICES ASSUME NEW q \in 1 .. p - 1  PROVE s[q] \in B  OBVIOUS
  <2>1. q \in 1 .. Len(s) /\ q < p  BY <1>2
  <2>2. s[q] # j /\ s[q] \in Matching(list) /\ key[s[q]] >= key[j]  BY <1>2, <2>1
  <2>3. key[s[q]] \in Nat /\ key[j] \in Nat  BY <1>1, <2>2
  <2> QED  BY <1>3, <2>2, <2>3
<1>5. \A i \in B : \E q \in 1 .. p - 1 : s[q] = i
  <2> SUFFICES ASSUME NEW i \in B  PROVE \E q \in 1 .. p - 1 : s[q] = i  OBVIOUS
  <2>1. i \in Matching(list) /\ key[i] > key[j]  BY <1>3
  <2>2. key[i] \in Nat /\ key[j] \in Nat  BY <1>1, <2>1
  <2>3. PICK q \in 1 .. Len(s) : s[q] = i  BY <1>2, <2>1
  <2>4. ~(p < q)  BY <1>2, <2>1, <2>2, <2>3
  <2>5. q # p  BY <2>1, <2>2, <2>3
  <2> QED  BY <1>2, <2>3, <2>4, <2>5
<1>6. f \in Bijection(1 .. p - 1, B)
  <2>1. f \in [1 .. p - 1 -> B]  BY <1>4
  <2>2. \A q, r \in 1 .. p - 1 : q # r => f[q] # f[r]  BY <1>2
  <2>3. \A i \in B : \E q \in 1 .. p - 1 : f[q] = i  BY <1>5
  <2> QED  BY <2>1, <2>2, <2>3 DEF Bijection, Injection, Surjection, IsInjective
<1>7. ExistsBijection(1 .. p - 1, B)  BY <1>6 DEF ExistsBijection
<1>8. p - 1 \in Nat  BY <1>2
<1>9. Cardinality(B) = p - 1  BY <1>7, <1>8, FS_CountingElements
<1> QED  BY <1>9 DEF B

\* LIMIT and OFFSET.
LEMMA CutRows ==
    ASSUME NEW s \in Seq(Job), NEW limit \in Nat \ {0}, NEW offset \in Nat
    PROVE  /\ Cut(s, limit, offset) \in Seq(Job)
           /\ Cut(s, limit, offset) # <<>> => offset + Len(Cut(s, limit, offset)) <= Len(s)
           /\ Len(s) >= offset + limit => Len(Cut(s, limit, offset)) = limit
           /\ \A p \in 1 .. Len(s) :
                 p > offset /\ p <= offset + limit => s[p] \in ToSet(Cut(s, limit, offset))
<1> DEFINE m == IF Len(s) < offset + limit THEN Len(s) ELSE offset + limit
           rows == SubSeq(s, offset + 1, m)
<1>1. Len(s) \in Nat /\ m \in Nat /\ m <= Len(s) /\ m <= offset + limit  OBVIOUS
<1>2. rows \in Seq(Job)
      /\ Len(rows) = (IF offset + 1 <= m THEN m - offset ELSE 0)
      /\ \A p \in 1 .. m - offset : rows[p] = s[offset + p]
  BY <1>1
<1> HIDE DEF m, rows
<1>3. Len(s) >= offset + limit => m = offset + limit  BY <1>1 DEF m
<1>4. Len(s) < offset + limit => m = Len(s)  BY <1>1 DEF m
<1>5. ASSUME NEW p \in 1 .. Len(s), p > offset, p <= offset + limit
      PROVE  s[p] \in ToSet(rows)
  <2>1. p - offset \in 1 .. Len(rows) /\ p - offset \in 1 .. m - offset
    BY <1>1, <1>2, <1>3, <1>4, <1>5
  <2>2. rows[p - offset] = s[p]  BY <1>2, <2>1
  <2>3. DOMAIN rows = 1 .. Len(rows)  BY <1>2
  <2> QED  BY <2>1, <2>2, <2>3 DEF ToSet
<1>6. rows # <<>> => offset + Len(rows) <= Len(s)
  BY <1>1, <1>2
<1>7. Cut(s, limit, offset) = rows  BY DEF Cut, rows, m
<1> QED  BY <1>1, <1>2, <1>3, <1>5, <1>6, <1>7
-----------------------------------------------------------------------------
\* What a change makes of a job.
Becomes(j, stage) ==
    /\ stage \in StageOf /\ life' = [life EXCEPT ![j] = stage]
    /\ stage.status # "ABSENT"
    /\ life[j].status = "DEAD" => stage.status # "DEAD"
    /\ life[j].status # "COMPLETED"

LEMMA StageType ==
    ASSUME NEW status \in Statuses, NEW generation \in Nat, NEW attempts \in Nat, NEW budget \in Nat
    PROVE  /\ Lifecycle!Stage(status, generation, attempts, budget) \in StageOf
           /\ Lifecycle!Stage(status, generation, attempts, budget).status = status
BY DEF Lifecycle!Stage, StageOf

LEMMA MoveOfJob ==
    ASSUME TypeOK, NEW j \in Job, NEW status \in Statuses \ {"ABSENT"}, NEW attempts \in Nat,
           life[j].status \in {"PENDING", "PROCESSING"}, Lifecycle!Move(j, status, attempts)
    PROVE  \E stage : Becomes(j, stage)
<1>1. life[j] \in StageOf  BY DEF TypeOK
<1> DEFINE stage == Lifecycle!Stage(status, life[j].generation, attempts, life[j].budget)
<1> HIDE DEF stage
<1>2. life[j].generation \in Nat /\ life[j].budget \in Nat /\ status \in Statuses
  BY <1>1 DEF StageOf
<1>3. stage \in StageOf /\ stage.status = status  BY <1>2, StageType DEF stage
<1>4. life' = [life EXCEPT ![j] = stage]  BY DEF Lifecycle!Move, Lifecycle!Become, stage
<1>5. Becomes(j, stage)  BY <1>3, <1>4 DEF Becomes
<1> QED  BY <1>5

\* A job changes alone, never back to being unknown, and a dead one only by a replay.
LEMMA ChangeOfJob ==
    ASSUME TypeOK, NEW j \in Job, Changes(j)
    PROVE  /\ life' \in [Job -> StageOf]
           /\ \A i \in Job : i # j => life'[i] = life[i]
           /\ life'[j].status # "ABSENT"
           /\ life[j].status = "DEAD" => life'[j].status # "DEAD"
           /\ life[j].status = "COMPLETED" => life'[j].status = "COMPLETED"
<1>1. life \in [Job -> StageOf] /\ life[j] \in StageOf  BY DEF TypeOK
<1>2. life[j].attempts \in Nat /\ life[j].generation \in Nat /\ life[j].budget \in Nat
  BY <1>1 DEF StageOf
<1>3. PICK stage : Becomes(j, stage)
  <2>1. ASSUME NEW b \in Budgets, Lifecycle!Accept(j, b)  PROVE \E stage : Becomes(j, stage)
    <3> DEFINE stage == Lifecycle!Stage("PENDING", 1, 0, b)
    <3>1. stage \in StageOf /\ stage.status = "PENDING"
      BY ReadApiAssumption, StageType DEF ReadApiAssumption, Statuses
    <3>2. Becomes(j, stage)  BY <2>1, <3>1 DEF Becomes, Lifecycle!Accept, Lifecycle!Become
    <3> QED  BY <3>2
  <2>2. CASE Lifecycle!Begin(j)
    <3>1. Lifecycle!Move(j, "PROCESSING", life[j].attempts + 1)  BY <2>2 DEF Lifecycle!Begin
    <3> QED  BY <1>2, <2>2, <3>1, MoveOfJob DEF Lifecycle!Begin, Statuses
  <2>3. CASE Lifecycle!Complete(j)
    BY <1>2, <2>3, MoveOfJob DEF Lifecycle!Complete, Statuses
  <2>4. CASE Lifecycle!Reschedule(j)
    BY <1>2, <2>4, MoveOfJob DEF Lifecycle!Reschedule, Statuses
  <2>5. CASE Lifecycle!Bury(j)
    BY <1>2, <2>5, MoveOfJob DEF Lifecycle!Bury, Statuses
  <2>6. CASE Lifecycle!Replay(j)
    <3> DEFINE next == life[j].generation + 1
               stage == Lifecycle!Stage("PENDING", next, 0, life[j].budget)
    <3>1. next \in Nat /\ 0 \in Nat /\ "PENDING" \in Statuses  BY <1>2 DEF Statuses
    <3>2. life' = [life EXCEPT ![j] = stage] /\ life[j].status \in {"DEAD", "FAILED"}
      BY <2>6 DEF Lifecycle!Replay, Lifecycle!Become
    <3> HIDE DEF next
    <3>3. stage \in StageOf /\ stage.status = "PENDING"  BY <1>2, <3>1, StageType
    <3>4. Becomes(j, stage)  BY <3>2, <3>3 DEF Becomes
    <3> QED  BY <3>4
  <2> QED  BY <2>1, <2>2, <2>3, <2>4, <2>5, <2>6 DEF Changes
<1>4. life'[j] = stage /\ \A i \in Job : i # j => life'[i] = life[i]
  BY <1>1, <1>3 DEF Becomes
<1> QED  BY <1>1, <1>3, <1>4 DEF Becomes

\* As long as none leaves it, a list keeps its entries and what it is ordered by.
LEMMA ListsGrow ==
    ASSUME TypeOK, NEW j \in Job, Change(j), NEW list \in List,
           j \notin Matching(list) \ Matching(list)'
    PROVE  /\ Matching(list) \subseteq Matching(list)'
           /\ \A i \in Matching(list) : SortKey(list)'[i] = SortKey(list)[i]
<1>1. /\ \A i \in Job : i # j => life'[i] = life[i]
      /\ life'[j].status # "ABSENT"
      /\ life[j].status = "DEAD" => life'[j].status # "DEAD"
  BY ChangeOfJob DEF Change
<1>2. /\ created' = IF life[j].status = "ABSENT" THEN [created EXCEPT ![j] = now] ELSE created
      /\ updated' = [updated EXCEPT ![j] = now]
  BY DEF Change
<1>3. \A i \in Matching(list) : i # j => i \in Matching(list)'
  BY <1>1 DEF Matching
<1>4. Matching(list) \subseteq Matching(list)'  BY <1>3
<1>5. \A i \in Matching(list) : life[i].status # "ABSENT" /\ i \in Job  BY DEF Matching
<1>6. \A i \in Matching(list) : created'[i] = created[i]  BY <1>2, <1>5 DEF TypeOK
<1>7. list = "dead" /\ j \in Matching(list) => j \notin Matching(list)'
  BY <1>1 DEF Matching
<1>8. list = "dead" => \A i \in Matching(list) : updated'[i] = updated[i]
  BY <1>2, <1>4, <1>5, <1>7 DEF TypeOK
<1> QED  BY <1>4, <1>6, <1>8 DEF SortKey

\* Then the entries before a job stay there, and a job placed now was placed before.
LEMMA PlacesKept ==
    ASSUME TypeOK, TypeOK', NEW list, NEW j \in Matching(list),
           Matching(list) \subseteq Matching(list)',
           \A i \in Matching(list) : SortKey(list)'[i] = SortKey(list)[i]
    PROVE  /\ Placed(list, j)' => Placed(list, j)
           /\ Cardinality(Before(list, j)) \in Nat
           /\ Cardinality(Before(list, j)') \in Nat
           /\ Cardinality(Before(list, j)) <= Cardinality(Before(list, j)')
<1>1. Placed(list, j)' => Placed(list, j)  BY DEF Placed
<1>2. Before(list, j) \subseteq Before(list, j)'  BY DEF Before
<1>3. Before(list, j) \subseteq Job /\ Before(list, j)' \subseteq Job
  BY DEF Before, Matching
<1>4. IsFiniteSet(Before(list, j)')  BY <1>3, ReadApiAssumption, FS_Subset DEF ReadApiAssumption
<1> QED  BY <1>1, <1>2, <1>4, FS_Subset, FS_CardinalityType
-----------------------------------------------------------------------------
LEMMA ClientOf ==
    ASSUME TypeOK
    PROVE  /\ client.pc \in {"rows", "count"} => client \in Walking
           /\ client.pc = "found" => client.job \in Job /\ client.status \in Statuses
BY DEF TypeOK, Walking, Idle

LEMMA BeforeType ==
    ASSUME NEW list, NEW j
    PROVE  Cardinality(Before(list, j)) \in Nat
<1>1. Before(list, j) \subseteq Job  BY DEF Before, Matching
<1>2. IsFiniteSet(Before(list, j))  BY <1>1, ReadApiAssumption, FS_Subset DEF ReadApiAssumption
<1> QED  BY <1>2, FS_CardinalityType

\* The count of a query is that of its rows.
LEMMA LengthOfSet ==
    ASSUME NEW S, IsFiniteSet(S)
    PROVE  Len(SetToSeq(S)) = Cardinality(S)
<1>1. Cardinality(S) \in Nat  BY FS_CardinalityType
<1>2. ExistsBijection(1 .. Cardinality(S), S)  BY FS_CardinalityType
<1>3. PICK f : f \in Bijection(1 .. Cardinality(S), S)  BY <1>2 DEF ExistsBijection
<1>4. f \in [1 .. Cardinality(S) -> S] /\ IsInjective(f)
  BY <1>3 DEF Bijection, Injection, IsInjective
<1>5. SetToSeq(S) \in [1 .. Cardinality(S) -> S]  BY <1>4 DEF SetToSeq
<1>6. SetToSeq(S) \in Seq(S) /\ Len(SetToSeq(S)) = Cardinality(S)  BY <1>1, <1>5
<1> QED  BY <1>6

LEMMA TotalIsCount ==
    Total = Cardinality(Matching(client.list)) /\ Total \in Nat
BY MatchingJobs, LengthOfSet DEF Total

LEMMA ClampType ==
    ASSUME NEW asked \in Asked
    PROVE  Clamp(asked) \in 1 .. MaxLimit
<1> DEFINE wanted == IF asked \in {NaN, 0} THEN DefaultLimit ELSE asked
<1>1. MaxLimit \in Nat /\ DefaultLimit \in 1 .. MaxLimit /\ asked \in Int \cup {NaN}
  BY ReadApiAssumption DEF ReadApiAssumption
<1>2. wanted \in Int /\ MaxLimit >= 1  BY <1>1
<1>3. Clamp(asked) = CASE wanted < 1 -> 1 [] wanted > MaxLimit -> MaxLimit [] OTHER -> wanted
  BY DEF Clamp
<1> HIDE DEF wanted
<1> QED  BY <1>1, <1>2, <1>3
-----------------------------------------------------------------------------
LEMMA InitInv == Init => IInv
<1> SUFFICES ASSUME Init  PROVE IInv  OBVIOUS
<1>1. life \in [Job -> { Lifecycle!Unknown } \cup Lifecycle!Inherited]
  BY DEF Init, Lifecycle!Init
<1>2. Lifecycle!Unknown \in StageOf /\ Lifecycle!Unknown.status = "ABSENT"
  BY StageType DEF Lifecycle!Unknown, Statuses
<1>3. Lifecycle!Inherited \subseteq StageOf
  <2> SUFFICES ASSUME NEW stage \in Lifecycle!Inherited  PROVE stage \in StageOf  OBVIOUS
  <2>1. PICK b \in Budgets :
            \/ \E n \in 0 .. b + 1 : stage = Lifecycle!Stage("PENDING", 1, n, b)
            \/ stage = Lifecycle!Stage("FAILED", 1, 0, b)
            \/ stage = Lifecycle!Stage("DEAD", 1, 0, b)
    BY DEF Lifecycle!Inherited
  <2>2. b \in Nat /\ "PENDING" \in Statuses /\ "FAILED" \in Statuses /\ "DEAD" \in Statuses
    BY ReadApiAssumption DEF ReadApiAssumption, Statuses
  <2>3. \A n \in 0 .. b + 1 : n \in Nat  BY <2>2
  <2> QED  BY <2>1, <2>2, <2>3, StageType
<1>4. life \in [Job -> StageOf]  BY <1>1, <1>2, <1>3
<1>5. \A j \in Job : life[j].status \in Statuses  BY <1>4 DEF StageOf
<1>6. TypeOK
  <2>1. now \in Nat /\ changes \in Nat /\ client = Idle /\ left \in BOOLEAN  BY DEF Init
  <2>2. created \in [Job -> Nat] /\ updated \in [Job -> Nat]  BY DEF Init
  <2>3. logged \in [Job -> SUBSET Statuses]  BY <1>5 DEF Init
  <2> QED  BY <1>4, <2>1, <2>2, <2>3 DEF TypeOK
<1>7. Explained  BY <1>2 DEF Init, Explained, Existing, Idle
<1>8. Walk /\ Covered  BY DEF Init, Walk, Covered, Idle
<1> QED  BY <1>6, <1>7, <1>8 DEF IInv
-----------------------------------------------------------------------------
\* While nothing leaves the list, what is to come stays so.
LEMMA ChangeKeepsToCome ==
    ASSUME TypeOK, TypeOK', NEW j \in Job, Change(j), NEW c \in Walking,
           j \notin Matching(c.list) \ Matching(c.list)', NEW i, ToCome(c, i)
    PROVE  ToCome(c, i)'
<1> PICK list \in List : list = c.list  BY DEF Walking
<1>1. i \in Matching(list)  BY DEF ToCome
<1>2. /\ Matching(list) \subseteq Matching(list)'
      /\ \A k \in Matching(list) : SortKey(list)'[k] = SortKey(list)[k]
  BY ListsGrow
<1>3. /\ Placed(list, i)' => Placed(list, i)
      /\ Cardinality(Before(list, i)) \in Nat
      /\ Cardinality(Before(list, i)') \in Nat
      /\ Cardinality(Before(list, i)) <= Cardinality(Before(list, i)')
  BY <1>1, <1>2, PlacesKept
<1>4. c.offset \in Nat /\ c.limit \in Nat  BY DEF Walking
<1>5. Cardinality(Before(list, i))' = Cardinality(Before(list, i)')  OBVIOUS
<1> QED  BY <1>1, <1>2, <1>3, <1>4, <1>5 DEF ToCome

LEMMA ChangeInv ==
    ASSUME IInv, NEW j \in Job, Change(j)
    PROVE  IInv'
<1> USE DEF IInv
<1>1. /\ life' \in [Job -> StageOf]
      /\ \A i \in Job : i # j => life'[i] = life[i]
      /\ life'[j] \in StageOf /\ life'[j].status \in Statuses
  BY ChangeOfJob DEF Change, StageOf
<1>2. client' = client /\ now' = now  BY DEF Change
<1>3. logged' = [logged EXCEPT ![j] = @ \cup { life'[j].status }]  BY DEF Change, Log
<1>4. TypeOK'
  BY <1>1, <1>2, <1>3 DEF Change, TypeOK
<1>5. \A i \in Job : logged[i] \subseteq logged'[i]  BY <1>3 DEF TypeOK
<1>6. life'[j].status \in logged'[j]  BY <1>3 DEF TypeOK
<1>7. Explained'
  BY <1>1, <1>2, <1>5, <1>6, ClientOf DEF Explained
<1>8. ASSUME client.pc \in {"rows", "count"}, ~left'
      PROVE  ~left /\ client \in Walking
             /\ \A c : c = client => j \notin Matching(c.list) \ Matching(c.list)'
  <2>1. ~left /\ j \notin Matching(client.list) \ Matching(client.list)'  BY <1>8 DEF Change
  <2>2. ASSUME NEW c, c = client  PROVE Matching(client.list)' = Matching(c.list)'
    BY <1>2, <2>2 DEF Matching
  <2> QED  BY <1>8, <2>1, <2>2, ClientOf
<1>9. Walk'
  <2> SUFFICES ASSUME client.pc \in {"rows", "count"}, ~left', NEW i \in client.there
               PROVE  ToCome(client, i)'
    BY <1>2 DEF Walk
  <2> PICK c \in Walking : c = client  BY <1>8
  <2>1. ToCome(c, i)  BY <1>8 DEF Walk
  <2>2. ToCome(c, i)'  BY <1>4, <1>8, <2>1, ChangeKeepsToCome
  <2>3. client' = c  BY <1>2
  <2> QED  BY <2>2, <2>3 DEF ToCome, Placed, Before, Matching, SortKey
<1>10. Covered'
  <2> SUFFICES ASSUME client.pc = "count", client.rows # <<>>, ~left'
               PROVE  client.offset + Len(client.rows) <= Cardinality(Matching(client.list))'
    BY <1>2 DEF Covered
  <2> PICK c \in Walking : c = client  BY <1>8
  <2>1. c.offset + Len(c.rows) <= Cardinality(Matching(c.list))  BY <1>8 DEF Covered
  <2>2. Matching(c.list) \subseteq Matching(c.list)'
    <3>1. c.list \in List  BY DEF Walking
    <3> QED  BY <1>8, <3>1, ListsGrow
  <2>3. Matching(client.list)' = Matching(c.list)'  BY <1>2 DEF Matching
  <2>4. Matching(c.list)' \subseteq Job  BY DEF Matching
  <2>5. IsFiniteSet(Matching(c.list)')
    BY <2>4, ReadApiAssumption, FS_Subset DEF ReadApiAssumption
  <2>6. /\ Cardinality(Matching(c.list)) \in Nat /\ Cardinality(Matching(c.list)') \in Nat
        /\ Cardinality(Matching(c.list)) <= Cardinality(Matching(c.list)')
    BY <2>2, <2>5, FS_Subset, FS_CardinalityType
  <2>7. c.offset \in Nat /\ Len(c.rows) \in Nat  BY DEF Walking
  <2>8. client.offset + Len(client.rows) <= Cardinality(Matching(c.list)')
    BY <2>1, <2>6, <2>7
  <2> QED  BY <2>3, <2>8
<1> QED  BY <1>4, <1>7, <1>9, <1>10

\* What is to come of a walk depends on the jobs alone.
Same == UNCHANGED <<life, created, updated>>

LEMMA SameLists ==
    ASSUME Same, NEW c, NEW i
    PROVE  /\ ToCome(c, i)' <=> ToCome(c, i)
           /\ Matching(c.list)' = Matching(c.list)
<1>1. /\ Matching(c.list)' = Matching(c.list) /\ SortKey(c.list)' = SortKey(c.list)
  BY DEF Same, Matching, SortKey
<1>2. Placed(c.list, i)' <=> Placed(c.list, i)  BY <1>1 DEF Placed
<1>3. Before(c.list, i)' = Before(c.list, i)  BY <1>1 DEF Before
<1> QED  BY <1>1, <1>2, <1>3 DEF ToCome

\* A step that leaves the client and the logs as they are, too.
LEMMA QuietInv ==
    ASSUME IInv, Same, UNCHANGED <<logged, client, left>>, now' \in Nat, changes' \in Nat
    PROVE  IInv'
<1>1. TypeOK'  BY DEF IInv, TypeOK, Same
<1>2. Explained'  BY DEF IInv, Explained, Same
<1>3. Walk'
  <2> SUFFICES ASSUME client.pc \in {"rows", "count"}, ~left, NEW i \in client.there
               PROVE  ToCome(client, i)'
    BY DEF Walk
  <2> PICK c : c = client  OBVIOUS
  <2>1. ToCome(c, i)  BY DEF IInv, Walk
  <2>2. ToCome(c, i)'  BY <2>1, SameLists
  <2>3. client' = c  OBVIOUS
  <2> QED  BY <2>2, <2>3 DEF ToCome, Placed, Before, Matching, SortKey
<1>4. Covered'  BY DEF IInv, Covered, Matching, Same
<1> QED  BY <1>1, <1>2, <1>3, <1>4 DEF IInv

\* A read leaves the database alone.
Read == UNCHANGED <<life, created, updated, logged, now, changes, left>>

LEMMA ReadInv ==
    ASSUME IInv, Read, NEW c \in Walking, client' = c,
           c.pc \in {"rows", "count"} /\ ~left => \A i \in c.there : ToCome(c, i),
           c.pc = "count" /\ c.rows # <<>> /\ ~left =>
               c.offset + Len(c.rows) <= Cardinality(Matching(c.list))
    PROVE  IInv'
<1>1. TypeOK'  BY DEF IInv, TypeOK, Read
<1>2. Explained'  BY DEF IInv, Explained, Read, Walking
<1>3. Walk'
  <2> SUFFICES ASSUME c.pc \in {"rows", "count"}, ~left, NEW i \in c.there
               PROVE  ToCome(client, i)'
    BY DEF Walk, Read
  <2>1. ToCome(c, i)'  BY SameLists DEF Read, Same
  <2> QED  BY <2>1 DEF ToCome, Placed, Before, Matching, SortKey
<1>4. Covered'
  <2>1. Matching(client.list)' = Matching(c.list)  BY DEF Read, Matching
  <2> QED  BY <2>1 DEF Covered, Read
<1> QED  BY <1>1, <1>2, <1>3, <1>4 DEF IInv

LEMMA StartWalkInv ==
    ASSUME IInv, NEW list \in List, NEW asked \in Asked, StartWalk(list, asked)
    PROVE  IInv'
<1> DEFINE c == [pc |-> "rows", list |-> list, limit |-> Clamp(asked), offset |-> 0,
                 rows |-> <<>>, total |-> 0, seen |-> {}, there |-> Matching(list)]
<1>1. client' = c /\ Read  BY DEF StartWalk, Read
<1>2. c \in Walking  BY ClampType, MatchingJobs DEF Walking
<1>3. \A i \in c.there : ToCome(c, i)
  <2> SUFFICES ASSUME NEW i \in Matching(list)  PROVE ToCome(c, i)  OBVIOUS
  <2>1. Cardinality(Before(list, i)) >= 0  BY BeforeType
  <2> QED  BY <2>1 DEF ToCome
<1>4. c.pc = "rows"  OBVIOUS
<1> HIDE DEF c
<1> QED  BY <1>1, <1>2, <1>3, <1>4, ReadInv

\* A page holds every job that is placed within its limit, and any other comes later.
LEMMA ReadRowsInv ==
    ASSUME IInv, ReadRows
    PROVE  IInv'
<1>1. client \in Walking /\ client.pc = "rows" /\ Read  BY ClientOf DEF IInv, ReadRows, Read
<1> PICK w \in Walking : w = client  BY <1>1
<1>2. PICK s \in Sorted(w.list) :
          client' = [w EXCEPT !.pc = "count", !.rows = Cut(s, w.limit, w.offset)]
  BY DEF ReadRows
<1> DEFINE rows == Cut(s, w.limit, w.offset)
           c == [w EXCEPT !.pc = "count", !.rows = rows]
<1>3. /\ s \in Seq(Job) /\ Len(s) = Cardinality(Matching(w.list))
      /\ \A j \in Matching(w.list) : \E p \in 1 .. Len(s) : s[p] = j
  BY SortedRows DEF IInv
<1>4. w.limit \in Nat \ {0} /\ w.offset \in Nat  BY ReadApiAssumption DEF Walking, ReadApiAssumption
<1>5. /\ rows \in Seq(Job)
      /\ rows # <<>> => w.offset + Len(rows) <= Len(s)
      /\ Len(s) >= w.offset + w.limit => Len(rows) = w.limit
      /\ \A p \in 1 .. Len(s) :
            p > w.offset /\ p <= w.offset + w.limit => s[p] \in ToSet(rows)
  BY <1>3, <1>4, CutRows
<1> HIDE DEF rows
<1>6. /\ c \in Walking /\ c.pc = "count" /\ c.rows = rows
      /\ c.list = w.list /\ c.limit = w.limit /\ c.offset = w.offset
      /\ c.seen = w.seen /\ c.there = w.there
  BY <1>5 DEF Walking
<1>7. ASSUME ~left, NEW i \in w.there  PROVE ToCome(c, i)
  <2>1. ToCome(w, i)  BY <1>1, <1>7 DEF IInv, Walk
  <2>2. i \in Matching(w.list)  BY <2>1 DEF ToCome
  <2>3. ASSUME Placed(w.list, i), i \notin w.seen
        PROVE  \/ i \in ToSet(rows)
               \/ /\ Len(rows) = w.limit
                  /\ Cardinality(Before(w.list, i)) >= w.offset + w.limit
    <3>1. PICK p \in 1 .. Len(s) : s[p] = i  BY <1>3, <2>2
    <3>2. Cardinality(Before(w.list, i)) = p - 1  BY <2>2, <2>3, <3>1, PlaceOfJob DEF IInv
    <3>3. Cardinality(Before(w.list, i)) >= w.offset
      BY <1>1, <2>1, <2>3 DEF ToCome
    <3>4. p \in Nat /\ p > w.offset /\ Len(s) \in Nat /\ p <= Len(s)  BY <1>3, <1>4, <3>2, <3>3
    <3>5. CASE p <= w.offset + w.limit  BY <1>5, <3>1, <3>4, <3>5
    <3>6. CASE p > w.offset + w.limit
      BY <1>4, <1>5, <3>2, <3>4, <3>6
    <3> QED  BY <1>4, <3>4, <3>5, <3>6
  <2> QED  BY <1>6, <2>2, <2>3 DEF ToCome
<1>8. c.rows # <<>> => c.offset + Len(c.rows) <= Cardinality(Matching(c.list))
  BY <1>3, <1>5, <1>6
<1>9. client' = c  BY <1>2 DEF rows
<1> HIDE DEF c
<1> QED  BY <1>1, <1>6, <1>7, <1>8, <1>9, ReadInv

\* What the next page begins with is what was to come after this one.
LEMMA ReadTotalInv ==
    ASSUME IInv, ReadTotal
    PROVE  IInv'
<1>1. client \in Walking /\ client.pc = "count" /\ Read  BY ClientOf DEF IInv, ReadTotal, Read
<1> PICK w \in Walking : w = client  BY <1>1
<1>2. w.offset \in Nat /\ w.limit \in Nat /\ Len(w.rows) \in Nat /\ Total \in Nat
      /\ ToSet(w.rows) \subseteq Job
  BY TotalIsCount DEF Walking, ToSet
<1> DEFINE short == Len(w.rows) < w.limit
           total == Total
           seen  == w.seen \cup ToSet(w.rows)
           pc     == IF short THEN "done" ELSE "rows"
           offset == IF short THEN w.offset ELSE w.offset + w.limit
           c == [w EXCEPT !.pc = pc, !.total = total, !.seen = seen, !.offset = offset]
<1>3. client' = c
  <2>1. client' = [w EXCEPT !.pc = pc, !.total = total, !.seen = @ \cup ToSet(w.rows),
                            !.offset = IF short THEN @ ELSE @ + w.limit]
    BY DEF ReadTotal, Short
  <2> QED  BY <2>1 DEF Walking
<1>4. seen \in SUBSET Job /\ offset \in Nat /\ pc \in {"rows", "done"} /\ total \in Nat
  BY <1>2 DEF Walking
<1> HIDE DEF total, seen, pc, offset
<1>5. /\ c \in Walking
      /\ c.pc = pc /\ c.offset = offset
      /\ c.list = w.list /\ c.there = w.there /\ c.seen = seen
  BY <1>4 DEF Walking
<1>6. /\ pc = (IF short THEN "done" ELSE "rows")
      /\ offset = (IF short THEN w.offset ELSE w.offset + w.limit)
  BY DEF pc, offset
<1>7. ASSUME ~short, ~left, NEW i \in w.there  PROVE ToCome(c, i)
  <2>1. ToCome(w, i)  BY <1>1, <1>7 DEF IInv, Walk
  <2>2. i \notin seen => i \notin w.seen /\ i \notin ToSet(w.rows)  BY DEF seen
  <2>3. c.pc = "rows" /\ c.offset = w.offset + w.limit  BY <1>5, <1>7, <1>6
  <2> QED  BY <1>1, <1>5, <2>1, <2>2, <2>3 DEF ToCome
<1>8. c.pc = "rows" => ~short  BY <1>5, <1>6
<1>9. c.pc # "count"  BY <1>4, <1>5
<1> HIDE DEF c, short
<1> QED  BY <1>1, <1>3, <1>5, <1>7, <1>8, <1>9, ReadInv

\* A job is read in a status its log has, and the log is never found empty.
LEMMA GetJobByIdInv ==
    ASSUME IInv, NEW j \in Job, GetJobById(j)
    PROVE  IInv'
<1>1. Read /\ client'.pc \in {"not_found", "found"}  BY DEF GetJobById, Read
<1>2. life[j].status \in Statuses  BY DEF IInv, TypeOK, StageOf
<1>3. TypeOK'  BY <1>1, <1>2 DEF IInv, TypeOK, Read, GetJobById
<1>4. Explained'  BY <1>1 DEF IInv, Explained, Read, GetJobById
<1>5. Walk' /\ Covered'  BY <1>1 DEF Walk, Covered
<1> QED  BY <1>3, <1>4, <1>5 DEF IInv

LEMMA GetJobLogsInv ==
    ASSUME IInv, GetJobLogs
    PROVE  IInv'
<1>1. Read /\ client.job \in Job /\ client.status \in logged[client.job]
  BY ClientOf DEF IInv, Explained, GetJobLogs, Read
<1>2. client' = [pc |-> "logs", job |-> client.job, status |-> client.status,
                 logs |-> logged[client.job]]
  BY <1>1 DEF GetJobLogs, Logs
<1>3. client.status \in Statuses /\ logged[client.job] \in SUBSET Statuses
  BY <1>1 DEF IInv, TypeOK
<1>4. TypeOK'  BY <1>1, <1>2, <1>3 DEF IInv, TypeOK, Read
<1>5. Explained'  BY <1>1, <1>2 DEF IInv, Explained, Read
<1>6. Walk' /\ Covered'  BY <1>2 DEF Walk, Covered
<1> QED  BY <1>4, <1>5, <1>6 DEF IInv

LEMMA NextInv == IInv /\ [Next]_vars => IInv'
<1> SUFFICES ASSUME IInv, [Next]_vars  PROVE IInv'  OBVIOUS
<1>1. CASE Tick  BY <1>1, QuietInv DEF Tick, Same, IInv, TypeOK
<1>2. ASSUME NEW j \in Job, Change(j)  PROVE IInv'  BY <1>2, ChangeInv
<1>3. ASSUME NEW j \in Job, GetJobById(j)  PROVE IInv'  BY <1>3, GetJobByIdInv
<1>4. ASSUME NEW list \in List, NEW asked \in Asked, StartWalk(list, asked)  PROVE IInv'
  BY <1>4, StartWalkInv
<1>5. CASE ReadRows  BY <1>5, ReadRowsInv
<1>6. CASE ReadTotal  BY <1>6, ReadTotalInv
<1>7. CASE GetJobLogs  BY <1>7, GetJobLogsInv
<1>8. CASE UNCHANGED vars  BY <1>8, QuietInv DEF vars, Same, IInv, TypeOK
<1> QED  BY <1>1, <1>2, <1>3, <1>4, <1>5, <1>6, <1>7, <1>8 DEF Next

\* The inductive invariant: types, what the logs explain, what is still to come of a
\* walk and what a page covers.
THEOREM Invariance == Spec => []IInv
BY InitInv, NextInv, PTL DEF Spec

\* The type invariant of the read API.
THEOREM TypeCorrect == Spec => []TypeOK
<1>1. IInv => TypeOK  BY DEF IInv
<1> QED  BY <1>1, Invariance, PTL

\* getJobLogs never comes back empty for a job that getJobById has found, and has the
\* entry of the status that was seen, whatever happens to the job in between.
THEOREM LogsExplain == Spec => []LogsExplainJob
<1>1. IInv => LogsExplainJob
  <2> SUFFICES ASSUME IInv  PROVE client.pc # "no_logs"  BY DEF IInv, Explained, LogsExplainJob
  <2> QED  BY DEF IInv, TypeOK, Walking, Idle
<1> QED  BY <1>1, Invariance, PTL

\* listJobs counts after it has read: the total covers the page, however many jobs come
\* and change between the two queries, as long as none leaves the list.
THEOREM TotalsCoverPages == Spec => TotalCoversPage
<1>1. IInv /\ [Next]_vars
        => [ReadTotal /\ client.rows # <<>> /\ ~left
              => client'.total >= client.offset + Len(client.rows)]_vars
  <2> SUFFICES ASSUME IInv, ReadTotal, client.rows # <<>>, ~left
               PROVE  client'.total >= client.offset + Len(client.rows)
    OBVIOUS
  <2>1. client \in Walking /\ client.pc = "count"  BY ClientOf DEF IInv, ReadTotal
  <2>2. client.offset + Len(client.rows) <= Cardinality(Matching(client.list))
    BY <2>1 DEF IInv, Covered
  <2>3. client'.total = Total  BY <2>1 DEF ReadTotal, Walking
  <2>4. Total = Cardinality(Matching(client.list)) /\ Total \in Nat  BY TotalIsCount
  <2>5. client.offset \in Nat /\ Len(client.rows) \in Nat  BY <2>1 DEF Walking
  <2> QED  BY <2>2, <2>3, <2>4, <2>5
<1> QED  BY <1>1, Invariance, PTL DEF Spec, TotalCoversPage

\* Page after page gets further and skips no job that was in the list when the walk
\* began, for any limit asked for, any list and any jobs that come and change meanwhile.
THEOREM WalksSkipNothing == Spec => WalkSkipsNothing
<1>1. IInv /\ [Next]_vars
        => [ReadTotal =>
              \/ client'.pc = "rows" /\ client'.offset > client.offset
              \/ client'.pc = "done"
                 /\ (left \/ \A j \in client.there : Untied(j) => j \in client'.seen)]_vars
  <2> SUFFICES ASSUME IInv, ReadTotal
               PROVE  \/ client'.pc = "rows" /\ client'.offset > client.offset
                      \/ client'.pc = "done"
                         /\ (left \/ \A j \in client.there : Untied(j) => j \in client'.seen)
    OBVIOUS
  <2>1. client \in Walking /\ client.pc = "count"  BY ClientOf DEF IInv, ReadTotal
  <2>2. client.offset \in Nat /\ client.limit \in 1 .. MaxLimit /\ Len(client.rows) \in Nat
        /\ MaxLimit \in Nat
    BY <2>1, ReadApiAssumption DEF Walking, ReadApiAssumption
  <2>3. /\ client'.pc = (IF Short THEN "done" ELSE "rows")
        /\ client'.seen = client.seen \cup ToSet(client.rows)
        /\ client'.offset = (IF Short THEN client.offset ELSE client.offset + client.limit)
    BY <2>1 DEF ReadTotal, Walking
  <2>4. CASE ~Short  BY <2>2, <2>3, <2>4
  <2>5. CASE Short
    <3> SUFFICES ASSUME ~left, NEW j \in client.there, Untied(j)  PROVE j \in client'.seen
      BY <2>3, <2>5
    <3>1. ToCome(client, j)  BY <2>1 DEF IInv, Walk
    <3>2. Placed(client.list, j)
      <4>1. \A i \in Matching(client.list) : i \in Job /\ life[i].status # "ABSENT"
        BY DEF Matching
      <4> QED  BY <4>1 DEF Placed, Untied
    <3>3. Len(client.rows) # client.limit  BY <2>2, <2>5 DEF Short
    <3> QED  BY <2>1, <2>3, <3>1, <3>2, <3>3 DEF ToCome
  <2> QED  BY <2>4, <2>5
<1> QED  BY <1>1, Invariance, PTL DEF Spec, WalkSkipsNothing
=============================================================================
