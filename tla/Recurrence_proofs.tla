------------------------- MODULE Recurrence_proofs -------------------------
(***************************************************************************)
(* Recurring tasks, for any definitions, rules, calendar, limits, batches  *)
(* and bounds.                                                             *)
(***************************************************************************)
EXTENDS Recurrence, FiniteSetTheorems, TLAPS

\* The records a step writes: definitions, occurrences and tasks.
Typed ==
  /\ definition \in [Definitions -> DefinitionType]
  /\ occurrence \in [Definitions -> RowType]
  /\ tasks \in [Definitions -> MadeType]
  /\ \A i \in Definitions : FitsIn(occurrence[i], tasks[i])

\* The clock, the worker and what is counted or remembered.
WorldType ==
  /\ today \in Days /\ late \in BOOLEAN
  /\ gone \in SUBSET Definitions /\ up \in BOOLEAN /\ left \in SUBSET Definitions
  /\ spent \in [acts : 0 .. MaxActs, crashes : 0 .. MaxCrashes]
  /\ since \in [Definitions -> 0 .. MaxDay + 1]
  /\ active \in [Definitions -> SUBSET Days]

LEMMA Halves == TypeOK <=> Typed /\ WorldType
BY Zenon DEF TypeOK, Typed, WorldType

LEMMA OccurrenceTyped ==
  ASSUME Typed, NEW i \in Definitions, NEW d \in Days
  PROVE  occurrence[i][d] \in OccurrenceType
BY DEF Typed, RowType

LEMMA TasksTyped ==
  ASSUME Typed, NEW i \in Definitions, NEW d \in Days
  PROVE  /\ tasks[i][d] \in Seq(TaskType)
         /\ occurrence[i][d].task <= Len(tasks[i][d]) /\ Len(tasks[i][d]) <= MaxTasks
BY DEF Typed, MadeType, FitsIn

LEMMA DefinitionTyped ==
  ASSUME Typed, NEW i \in Definitions
  PROVE  definition[i] \in DefinitionType
BY DEF Typed

-----------------------------------------------------------------------------
\* What a tick makes of an occurrence there is.

LEMMA ReconciledTyped ==
  ASSUME Typed, NEW i \in Definitions, NEW d \in Days
  PROVE  /\ Reconciled(i, d) \in OccurrenceType
         /\ Reconciled(i, d).task = occurrence[i][d].task
         /\ Reconciled(i, d).rule = occurrence[i][d].rule
<1>1. PICK o \in OccurrenceType : o = occurrence[i][d]
  BY OccurrenceTyped
<1>2. CASE Expired(i, d)
  <2>1. Reconciled(i, d) = [o EXCEPT !.status = "MISSED"]
    BY <1>1, <1>2 DEF Reconciled, Expired
  <2> QED BY <1>1, <2>1 DEF OccurrenceType
<1>3. CASE ~Expired(i, d) /\ Waiting(o) /\ Finished(i, d)
  <2>1. Reconciled(i, d) = [o EXCEPT !.status = "COMPLETED", !.done = TRUE]
    BY <1>1, <1>3 DEF Reconciled, Expired
  <2> QED BY <1>1, <2>1 DEF OccurrenceType
<1>4. CASE ~Expired(i, d) /\ ~(Waiting(o) /\ Finished(i, d))
  <2>1. Reconciled(i, d) = o
    BY <1>1, <1>4 DEF Reconciled
  <2> QED BY <1>1, <2>1
<1> QED BY <1>2, <1>3, <1>4

LEMMA ChangedTask ==
  ASSUME NEW s \in Seq(TaskType), NEW n \in DOMAIN s, NEW x \in TaskType
  PROVE  [s EXCEPT ![n] = x] \in Seq(TaskType) /\ Len([s EXCEPT ![n] = x]) = Len(s)
OBVIOUS

LEMMA ClosedTyped ==
  ASSUME Typed, NEW i \in Definitions, NEW d \in Days
  PROVE  Closed(i, d) \in Seq(TaskType) /\ Len(Closed(i, d)) = Len(tasks[i][d])
<1>1. PICK o \in OccurrenceType : o = occurrence[i][d]
  BY OccurrenceTyped
<1>2. PICK s \in Seq(TaskType) : s = tasks[i][d]
  BY TasksTyped
<1>3. CASE Expired(i, d) /\ Found(i, d) /\ Closes[o.rule]
  <2>1. o.task \in 1 .. Len(s)
    BY <1>1, <1>2, <1>3, TasksTyped DEF Found, OccurrenceType
  <2>2. PICK x \in TaskType : x = s[o.task]
    BY <2>1
  <2>3. [x EXCEPT !.status = "CANCELED", !.archived = TRUE] \in TaskType
    BY DEF TaskType
  <2>4. PICK y \in TaskType : y = [x EXCEPT !.status = "CANCELED", !.archived = TRUE]
    BY <2>3
  <2>5. Closed(i, d) = [s EXCEPT ![o.task] = y]
    BY <1>1, <1>2, <1>3, <2>2, <2>4, Zenon DEF Closed
  <2> QED BY <1>2, <2>1, <2>5, ChangedTask
<1>4. CASE ~(Expired(i, d) /\ Found(i, d) /\ Closes[o.rule])
  <2>1. Closed(i, d) = s
    BY <1>1, <1>2, <1>4, Zenon DEF Closed
  <2> QED BY <1>2, <2>1
<1> QED BY <1>3, <1>4

LEMMA RowTyped ==
  ASSUME Typed, NEW i \in Definitions
  PROVE  Row(i) \in RowType /\ Made(i) \in MadeType /\ FitsIn(Row(i), Made(i))
<1>1. \A d \in Days :
        /\ Row(i)[d] \in OccurrenceType /\ Row(i)[d].task = occurrence[i][d].task
        /\ Made(i)[d] \in Seq(TaskType) /\ Len(Made(i)[d]) = Len(tasks[i][d])
  BY ReconciledTyped, ClosedTyped DEF Row, Made
<1>2. Row(i) \in RowType /\ Made(i) \in MadeType
  BY <1>1 DEF Row, Made, RowType, MadeType
<1>3. FitsIn(Row(i), Made(i))
  BY <1>1, TasksTyped DEF FitsIn
<1> QED BY <1>2, <1>3

LEMMA NewTask == Task("TODO") \in TaskType /\ Task("DONE") \in TaskType
BY DEF Task, TaskType

LEMMA GeneratedTyped ==
  ASSUME Typed, NEW i \in Definitions, NEW r \in Rules, NEW from, NEW to,
         NEW row \in RowType, NEW made \in MadeType, FitsIn(row, made)
  PROVE  /\ Generated(i, r, from, to, row) \in RowType
         /\ GeneratedTasks(i, r, from, to, made) \in MadeType
         /\ FitsIn(Generated(i, r, from, to, row), GeneratedTasks(i, r, from, to, made))
<1>1. PICK g : g = Generated(i, r, from, to, row)
  OBVIOUS
<1>2. PICK t : t = GeneratedTasks(i, r, from, to, made)
  OBVIOUS
<1>3. ASSUME NEW d \in Days
      PROVE  /\ g[d] \in OccurrenceType /\ t[d] \in Seq(TaskType)
             /\ g[d].task <= Len(t[d]) /\ Len(t[d]) <= MaxTasks
  <2>1. row[d] \in OccurrenceType /\ made[d] \in Seq(TaskType)
        /\ row[d].task <= Len(made[d]) /\ Len(made[d]) <= MaxTasks
    BY DEF RowType, MadeType, FitsIn
  <2>2. CASE d \notin Fresh(i, r, from, to)
    <3>1. g[d] = row[d] /\ t[d] = made[d]
      BY <1>1, <1>2, <2>2, Zenon DEF Generated, GeneratedTasks, Opened
    <3> QED BY <2>1, <3>1
  <2>3. CASE d \in Fresh(i, r, from, to) /\ Over(r, d)
    <3>1. g[d] = [status |-> "MISSED", rule |-> r, task |-> 0, done |-> FALSE]
      BY <1>1, <2>3, Zenon DEF Generated
    <3>2. t[d] = made[d]
      BY <1>2, <2>3, Zenon DEF GeneratedTasks, Opened
    <3>3. g[d] \in OccurrenceType /\ g[d].task = 0
      BY <3>1, BoundsAssumption DEF OccurrenceType
    <3> QED BY <2>1, <3>2, <3>3
  <2>4. CASE d \in Fresh(i, r, from, to) /\ ~Over(r, d)
    <3>1. g[d] = [status |-> "OPEN", rule |-> r, task |-> 1, done |-> FALSE]
      BY <1>1, <2>4, Zenon DEF Generated
    <3>2. t[d] = <<Task("TODO")>>
      BY <1>2, <2>4, Zenon DEF GeneratedTasks, Opened
    <3>3. g[d] \in OccurrenceType /\ g[d].task = 1
      BY <3>1, BoundsAssumption DEF OccurrenceType
    <3>4. t[d] \in Seq(TaskType) /\ Len(t[d]) = 1
      BY <3>2, NewTask
    <3> QED BY <3>3, <3>4, BoundsAssumption
  <2> QED BY <2>2, <2>3, <2>4
<1>4. g \in RowType
  BY <1>1, <1>3 DEF Generated, RowType
<1>5. t \in MadeType
  BY <1>2, <1>3 DEF GeneratedTasks, MadeType
<1>6. FitsIn(g, t)
  BY <1>3 DEF FitsIn
<1> QED BY <1>1, <1>2, <1>4, <1>5, <1>6

-----------------------------------------------------------------------------
\* What each action makes of the records.

LEMMA PutTyped ==
  ASSUME Typed, NEW i \in Definitions, NEW row \in RowType, NEW made \in MadeType,
         FitsIn(row, made), Put(i, row, made), definition' \in [Definitions -> DefinitionType]
  PROVE  Typed'
<1>1. occurrence' \in [Definitions -> RowType] /\ tasks' \in [Definitions -> MadeType]
  BY DEF Put, Typed
<1>2. ASSUME NEW k \in Definitions PROVE FitsIn(occurrence'[k], tasks'[k])
  <2>1. CASE k = i
    BY <2>1 DEF Put, Typed
  <2>2. CASE k # i
    <3>1. occurrence'[k] = occurrence[k] /\ tasks'[k] = tasks[k]
      BY <2>2 DEF Put, Typed
    <3> QED BY <3>1 DEF Typed
  <2> QED BY <2>1, <2>2
<1> QED BY <1>1, <1>2 DEF Typed, FitsIn

\* One occurrence and the tasks of its day.
LEMMA PointTyped ==
  ASSUME Typed, NEW i \in Definitions, NEW d \in Days,
         NEW o \in OccurrenceType, NEW s \in Seq(TaskType),
         o.task <= Len(s), Len(s) <= MaxTasks, definition' = definition,
         \/ occurrence' = [occurrence EXCEPT ![i][d] = o]
         \/ occurrence' = occurrence /\ o = occurrence[i][d],
         \/ tasks' = [tasks EXCEPT ![i][d] = s]
         \/ tasks' = tasks /\ s = tasks[i][d]
  PROVE  Typed'
<1>1. PICK row : row = [occurrence[i] EXCEPT ![d] = o]
  OBVIOUS
<1>2. PICK made : made = [tasks[i] EXCEPT ![d] = s]
  OBVIOUS
<1>3. occurrence[i] \in RowType /\ tasks[i] \in MadeType /\ definition' \in [Definitions -> DefinitionType]
  BY DEF Typed
<1>4. row \in RowType /\ \A e \in Days : row[e] = IF e = d THEN o ELSE occurrence[i][e]
  BY <1>1, <1>3 DEF RowType
<1>5. made \in MadeType /\ \A e \in Days : made[e] = IF e = d THEN s ELSE tasks[i][e]
  BY <1>2, <1>3 DEF MadeType
<1>6. FitsIn(row, made)
  <2>1. ASSUME NEW e \in Days
        PROVE  row[e].task <= Len(made[e]) /\ Len(made[e]) <= MaxTasks
    BY <1>4, <1>5, TasksTyped
  <2> QED BY <2>1 DEF FitsIn
<1>7. occurrence' = [occurrence EXCEPT ![i] = row]
  <2>1. CASE occurrence' = [occurrence EXCEPT ![i][d] = o]
    BY <1>1, <2>1, Zenon
  <2>2. CASE occurrence' = occurrence /\ o = occurrence[i][d]
    <3>1. row = occurrence[i]
      BY <1>1, <1>3, <2>2 DEF RowType
    <3> QED BY <2>2, <3>1 DEF Typed
  <2> QED BY <2>1, <2>2
<1>8. tasks' = [tasks EXCEPT ![i] = made]
  <2>1. CASE tasks' = [tasks EXCEPT ![i][d] = s]
    BY <1>2, <2>1, Zenon
  <2>2. CASE tasks' = tasks /\ s = tasks[i][d]
    <3>1. made = tasks[i]
      BY <1>2, <1>3, <2>2 DEF MadeType
    <3> QED BY <2>2, <3>1 DEF Typed
  <2> QED BY <2>1, <2>2
<1>9. Put(i, row, made)
  BY <1>7, <1>8, Zenon DEF Put
<1> QED BY <1>3, <1>4, <1>5, <1>6, <1>9, PutTyped

LEMMA Defined ==
  ASSUME Typed, NEW i \in Definitions, NEW x \in DefinitionType,
         definition' = [definition EXCEPT ![i] = x]
  PROVE  /\ definition' \in [Definitions -> DefinitionType] /\ definition'[i] = x
         /\ \A k \in Definitions : k # i => definition'[k] = definition[k]
BY DEF Typed

LEMMA DefineTyped ==
  ASSUME Typed, NEW i \in Definitions, NEW state \in States, NEW r \in Rules,
         NEW limit \in Limits, Define(i, state, r, limit)
  PROVE  definition' \in [Definitions -> DefinitionType]
<1>1. PICK x : x = [state |-> state, deleted |-> FALSE, rule |-> r, limit |-> limit,
                    through |-> Unset]
  OBVIOUS
<1>2. x \in DefinitionType
  BY <1>1 DEF DefinitionType
<1>3. definition' = [definition EXCEPT ![i] = x]
  BY <1>1, Zenon DEF Define
<1> QED BY <1>2, <1>3, Defined

LEMMA CreateTyped ==
  ASSUME Typed, NEW i \in Definitions, NEW state \in States, NEW r \in Rules,
         NEW limit \in Limits, Create(i, state, r, limit)
  PROVE  Typed'
<1>1. Define(i, state, r, limit) /\ occurrence' = occurrence /\ tasks' = tasks
  BY Zenon DEF Create
<1>2. definition' \in [Definitions -> DefinitionType]
  BY <1>1, DefineTyped
<1> QED BY <1>1, <1>2, Zenon DEF Typed

LEMMA DraftTyped ==
  ASSUME Typed, NEW i \in Definitions, NEW state \in States, NEW r \in Rules,
         NEW limit \in Limits, Draft(i, state, r, limit)
  PROVE  Typed'
<1>1. Define(i, state, r, limit)
  BY Zenon DEF Draft
<1>2. definition' \in [Definitions -> DefinitionType]
  BY <1>1, DefineTyped
<1>3. CASE state = "ACTIVE"
  <2>1. occurrence[i] \in RowType /\ tasks[i] \in MadeType /\ FitsIn(occurrence[i], tasks[i])
    BY DEF Typed
  <2>2. PICK row \in RowType, made \in MadeType :
          /\ FitsIn(row, made)
          /\ row = Generated(i, r, today, today, occurrence[i])
          /\ made = GeneratedTasks(i, r, today, today, tasks[i])
    BY <2>1, GeneratedTyped, Zenon
  <2>3. Put(i, row, made)
    BY <1>3, <2>2, Zenon DEF Draft
  <2> QED BY <1>2, <2>2, <2>3, PutTyped
<1>4. CASE state # "ACTIVE"
  <2>1. occurrence' = occurrence /\ tasks' = tasks
    BY <1>4, Zenon DEF Draft
  <2> QED BY <1>2, <2>1, Zenon DEF Typed
<1> QED BY <1>3, <1>4

LEMMA ConvertTyped ==
  ASSUME Typed, NEW i \in Definitions, NEW state \in States, NEW r \in Rules,
         NEW limit \in Limits, NEW status \in {"TODO", "DONE"},
         Convert(i, state, r, limit, status)
  PROVE  Typed'
<1>1. definition' \in [Definitions -> DefinitionType]
  BY DefineTyped DEF Convert
<1>2. PICK d \in Days : d = Start[r]
  BY CalendarAssumption
<1>3. PICK o : o = [status |-> IF status = "DONE" THEN "COMPLETED" ELSE "OPEN",
                    rule |-> r, task |-> 1, done |-> status = "DONE"]
  OBVIOUS
<1>4. o.task = 1 /\ o \in OccurrenceType
  BY <1>3, BoundsAssumption DEF OccurrenceType
<1>5. PICK s \in Seq(TaskType) : s = <<Task(status)>> /\ Len(s) = 1
  <2>1. PICK x \in TaskType : x = Task(status)
    BY NewTask
  <2>2. <<x>> \in Seq(TaskType) /\ Len(<<x>>) = 1
    OBVIOUS
  <2> QED BY <2>1, <2>2
<1>6. PICK row : row = [occurrence[i] EXCEPT ![d] = o]
  OBVIOUS
<1>7. PICK made : made = [tasks[i] EXCEPT ![d] = s]
  OBVIOUS
<1>8. row \in RowType /\ \A e \in Days : row[e] = IF e = d THEN o ELSE occurrence[i][e]
  BY <1>4, <1>6 DEF Typed, RowType
<1>9. made \in MadeType /\ \A e \in Days : made[e] = IF e = d THEN s ELSE tasks[i][e]
  BY <1>5, <1>7 DEF Typed, MadeType
<1>10. FitsIn(row, made)
  <2>1. ASSUME NEW e \in Days
        PROVE  row[e].task <= Len(made[e]) /\ Len(made[e]) <= MaxTasks
    <3>1. CASE e = d
      <4>1. row[e] = o /\ made[e] = s
        BY <1>8, <1>9, <3>1
      <4>2. Len(s) = 1
        BY <1>5
      <4> QED BY <1>4, <4>1, <4>2, BoundsAssumption
    <3>2. CASE e # d
      <4>1. row[e] = occurrence[i][e] /\ made[e] = tasks[i][e]
        BY <1>8, <1>9, <3>2
      <4> QED BY <4>1, TasksTyped
    <3> QED BY <3>1, <3>2
  <2> QED BY <2>1 DEF FitsIn
<1>11. Put(i, row, made)
  BY <1>2, <1>3, <1>5, <1>6, <1>7, Zenon DEF Convert
<1> QED BY <1>1, <1>8, <1>9, <1>10, <1>11, PutTyped

LEMMA CursorTyped ==
  ASSUME Typed, today \in Days, NEW i \in Definitions, NEW state
  PROVE  Cursor(i, state) \in 0 .. MaxDay
BY DefinitionTyped, BoundsAssumption DEF Cursor, DefinitionType, Days, Unset

LEMMA SaveTyped ==
  ASSUME Typed, today \in Days, NEW i \in Definitions, NEW state \in States, NEW r \in Rules,
         NEW limit \in Limits, NEW deleted \in BOOLEAN, Save(i, state, r, limit, deleted)
  PROVE  Typed'
<1>1. PICK c \in 0 .. MaxDay : c = Cursor(i, state)
  BY CursorTyped
<1>2. PICK x : x = [state |-> state, deleted |-> deleted, rule |-> r, limit |-> limit,
                    through |-> c]
  OBVIOUS
<1>3. x \in DefinitionType
  BY <1>2 DEF DefinitionType
<1>4. definition' = [definition EXCEPT ![i] = x] /\ occurrence' = occurrence /\ tasks' = tasks
  BY <1>1, <1>2, Zenon DEF Save
<1>5. definition' \in [Definitions -> DefinitionType]
  BY <1>3, <1>4, Defined
<1> QED BY <1>4, <1>5, Zenon DEF Typed

LEMMA GenerateTyped ==
  ASSUME Typed, NEW i \in Definitions, NEW from \in Days, NEW to \in Days,
         Generate(i, from, to)
  PROVE  Typed'
<1>1. PICK r \in Rules : r = definition[i].rule
  BY DefinitionTyped DEF DefinitionType
<1>2. occurrence[i] \in RowType /\ tasks[i] \in MadeType /\ FitsIn(occurrence[i], tasks[i])
  BY DEF Typed
<1>3. PICK row \in RowType, made \in MadeType :
        /\ FitsIn(row, made)
        /\ row = Generated(i, r, from, to, occurrence[i])
        /\ made = GeneratedTasks(i, r, from, to, tasks[i])
  BY <1>2, GeneratedTyped, Zenon
<1>4. Put(i, row, made) /\ definition' = definition
  BY <1>1, <1>3, Zenon DEF Generate
<1>5. definition' \in [Definitions -> DefinitionType]
  BY <1>4 DEF Typed
<1> QED BY <1>3, <1>4, <1>5, PutTyped

LEMMA SkipTyped ==
  ASSUME Typed, NEW i \in Definitions, NEW d \in Days, SkipOccurrence(i, d)
  PROVE  Typed'
<1>1. PICK o \in OccurrenceType : o = occurrence[i][d]
  BY OccurrenceTyped
<1>2. PICK s \in Seq(TaskType) : s = tasks[i][d] /\ o.task <= Len(s) /\ Len(s) <= MaxTasks
  BY <1>1, TasksTyped
<1>3. PICK p \in OccurrenceType : p = [o EXCEPT !.status = "SKIPPED"] /\ p.task = o.task
  <2>1. [o EXCEPT !.status = "SKIPPED"] \in OccurrenceType
        /\ [o EXCEPT !.status = "SKIPPED"].task = o.task
    BY DEF OccurrenceType
  <2> QED BY <2>1
<1>4. occurrence' = [occurrence EXCEPT ![i][d] = p]
  BY <1>1, <1>3, Zenon DEF SkipOccurrence
<1>5. definition' = definition
  BY Zenon DEF SkipOccurrence
<1>6. CASE o.task > 0
  <2>1. o.task \in DOMAIN s
    BY <1>2, <1>6 DEF OccurrenceType
  <2>2. PICK x \in TaskType : x = [s[o.task] EXCEPT !.status = "CANCELED"]
    <3>1. PICK y \in TaskType : y = s[o.task]
      BY <2>1
    <3>2. [y EXCEPT !.status = "CANCELED"] \in TaskType
      BY DEF TaskType
    <3> QED BY <3>1, <3>2
  <2>3. PICK z \in Seq(TaskType) : z = [s EXCEPT ![o.task] = x] /\ Len(z) = Len(s)
    BY <2>1, ChangedTask
  <2>4. tasks' = [tasks EXCEPT ![i][d][o.task].status = "CANCELED"]
    BY <1>1, <1>6, Zenon DEF SkipOccurrence
  <2>5. tasks' = [tasks EXCEPT ![i][d] = z]
    BY <1>2, <2>2, <2>3, <2>4, Zenon
  <2>6. p.task <= Len(z) /\ Len(z) <= MaxTasks
    BY <1>2, <1>3, <2>3
  <2> QED BY <1>4, <1>5, <2>5, <2>6, PointTyped
<1>7. CASE ~(o.task > 0)
  <2>1. tasks' = tasks
    BY <1>1, <1>7, Zenon DEF SkipOccurrence
  <2> QED BY <1>2, <1>3, <1>4, <1>5, <2>1, PointTyped
<1> QED BY <1>6, <1>7

LEMMA BackfillTyped ==
  ASSUME Typed, NEW i \in Definitions, NEW d \in Days, NEW done \in BOOLEAN,
         Backfill(i, d, done)
  PROVE  Typed'
<1>1. PICK o \in OccurrenceType : o = occurrence[i][d]
  BY OccurrenceTyped
<1>2. PICK s \in Seq(TaskType) : s = tasks[i][d]
  BY TasksTyped
<1>3. PICK n \in Nat : n = Len(s) + 1
  OBVIOUS
<1>4. n <= MaxTasks /\ n > 0 /\ definition' = definition
  <2>1. n <= MaxTasks /\ definition' = definition
    BY <1>2, <1>3, Zenon DEF Backfill
  <2> QED BY <1>3, <2>1
<1>5. PICK p : p = [o EXCEPT !.status = "BACKFILLED", !.task = n, !.done = done]
  OBVIOUS
<1>6. p \in OccurrenceType /\ p.task = n
  <2>1. n \in 0 .. MaxTasks
    BY <1>4, BoundsAssumption
  <2>2. PICK m \in 0 .. MaxTasks, v \in BOOLEAN : m = n /\ v = done
    BY <2>1
  <2>3. p = [o EXCEPT !.status = "BACKFILLED", !.task = m, !.done = v]
    BY <1>5, <2>2, Zenon
  <2> QED BY <2>2, <2>3 DEF OccurrenceType
<1>7. PICK x \in TaskType : x = Task(IF done THEN "DONE" ELSE "TODO")
  BY NewTask, Zenon
<1>8. PICK z \in Seq(TaskType) : z = Append(s, x) /\ Len(z) = n
  <2>1. Append(s, x) \in Seq(TaskType) /\ Len(Append(s, x)) = n
    BY <1>3
  <2> QED BY <2>1
<1>9. occurrence' = [occurrence EXCEPT ![i][d] = p]
  BY <1>1, <1>2, <1>3, <1>5, Zenon DEF Backfill
<1>10. tasks' = [tasks EXCEPT ![i][d] = z]
  BY <1>2, <1>7, <1>8, Zenon DEF Backfill
<1>11. p.task <= Len(z) /\ Len(z) <= MaxTasks
  BY <1>4, <1>6, <1>8
<1> QED BY <1>4, <1>6, <1>8, <1>9, <1>10, <1>11, PointTyped

LEMMA SetStatusTyped ==
  ASSUME Typed, NEW i \in Definitions, NEW d \in Days, NEW n,
         NEW status \in {"TODO", "DONE", "CANCELED"}, SetStatus(i, d, n, status)
  PROVE  Typed'
<1>1. PICK o \in OccurrenceType : o = occurrence[i][d]
  BY OccurrenceTyped
<1>2. PICK s \in Seq(TaskType) : s = tasks[i][d] /\ o.task <= Len(s) /\ Len(s) <= MaxTasks
  BY <1>1, TasksTyped
<1>3. n \in DOMAIN s /\ definition' = definition /\ occurrence' = occurrence
  BY <1>2, Zenon DEF SetStatus, TaskAct
<1>4. PICK x \in TaskType : x = [s[n] EXCEPT !.status = status]
  <2>1. PICK y \in TaskType : y = s[n]
    BY <1>3
  <2>2. [y EXCEPT !.status = status] \in TaskType
    BY DEF TaskType
  <2> QED BY <2>1, <2>2
<1>5. PICK z \in Seq(TaskType) : z = [s EXCEPT ![n] = x] /\ Len(z) = Len(s)
  BY <1>3, ChangedTask
<1>6. tasks' = [tasks EXCEPT ![i][d][n].status = status]
  BY Zenon DEF SetStatus
<1>7. tasks' = [tasks EXCEPT ![i][d] = z]
  BY <1>2, <1>4, <1>5, <1>6, Zenon
<1>8. o.task <= Len(z) /\ Len(z) <= MaxTasks
  BY <1>2, <1>5
<1> QED BY <1>1, <1>3, <1>7, <1>8, PointTyped

LEMMA SetDeletedTyped ==
  ASSUME Typed, NEW i \in Definitions, NEW d \in Days, NEW n,
         NEW deleted \in BOOLEAN, SetDeleted(i, d, n, deleted)
  PROVE  Typed'
<1>1. PICK o \in OccurrenceType : o = occurrence[i][d]
  BY OccurrenceTyped
<1>2. PICK s \in Seq(TaskType) : s = tasks[i][d] /\ o.task <= Len(s) /\ Len(s) <= MaxTasks
  BY <1>1, TasksTyped
<1>3. n \in DOMAIN s /\ definition' = definition /\ occurrence' = occurrence
  BY <1>2, Zenon DEF SetDeleted, TaskAct
<1>4. PICK x \in TaskType : x = [s[n] EXCEPT !.deleted = deleted]
  <2>1. PICK y \in TaskType : y = s[n]
    BY <1>3
  <2>2. PICK v \in BOOLEAN : v = deleted
    OBVIOUS
  <2>3. [y EXCEPT !.deleted = v] \in TaskType
    BY DEF TaskType
  <2> QED BY <2>1, <2>2, <2>3, Zenon
<1>5. PICK z \in Seq(TaskType) : z = [s EXCEPT ![n] = x] /\ Len(z) = Len(s)
  BY <1>3, ChangedTask
<1>6. tasks' = [tasks EXCEPT ![i][d][n].deleted = deleted]
  BY Zenon DEF SetDeleted
<1>7. tasks' = [tasks EXCEPT ![i][d] = z]
  BY <1>2, <1>4, <1>5, <1>6, Zenon
<1>8. o.task <= Len(z) /\ Len(z) <= MaxTasks
  BY <1>2, <1>5
<1> QED BY <1>1, <1>3, <1>7, <1>8, PointTyped

LEMMA PurgeTyped ==
  ASSUME Typed, NEW i \in Definitions, NEW d \in Days, NEW n, Purge(i, d, n)
  PROVE  Typed'
<1>1. PICK o \in OccurrenceType : o = occurrence[i][d]
  BY OccurrenceTyped
<1>2. PICK s \in Seq(TaskType) : s = tasks[i][d] /\ o.task <= Len(s) /\ Len(s) <= MaxTasks
  BY <1>1, TasksTyped
<1>3. n \in DOMAIN s /\ definition' = definition
  BY <1>2, Zenon DEF Purge, TaskAct
<1>4. PICK x \in TaskType : x = [s[n] EXCEPT !.status = "PURGED"]
  <2>1. PICK y \in TaskType : y = s[n]
    BY <1>3
  <2>2. [y EXCEPT !.status = "PURGED"] \in TaskType
    BY DEF TaskType
  <2> QED BY <2>1, <2>2
<1>5. PICK z \in Seq(TaskType) : z = [s EXCEPT ![n] = x] /\ Len(z) = Len(s)
  BY <1>3, ChangedTask
<1>6. tasks' = [tasks EXCEPT ![i][d][n].status = "PURGED"]
  BY Zenon DEF Purge
<1>7. tasks' = [tasks EXCEPT ![i][d] = z]
  BY <1>2, <1>4, <1>5, <1>6, Zenon
<1>8. CASE o.task = n
  <2>1. PICK p \in OccurrenceType : p = [o EXCEPT !.task = 0] /\ p.task = 0
    <3>1. [o EXCEPT !.task = 0] \in OccurrenceType /\ [o EXCEPT !.task = 0].task = 0
      BY BoundsAssumption DEF OccurrenceType
    <3> QED BY <3>1
  <2>2. occurrence' = [occurrence EXCEPT ![i][d].task = 0]
    BY <1>1, <1>8, Zenon DEF Purge
  <2>3. occurrence' = [occurrence EXCEPT ![i][d] = p]
    BY <1>1, <2>1, <2>2, Zenon
  <2>4. p.task <= Len(z) /\ Len(z) <= MaxTasks
    BY <1>2, <1>5, <2>1
  <2> QED BY <1>3, <1>7, <2>3, <2>4, PointTyped
<1>9. CASE o.task # n
  <2>1. occurrence' = occurrence
    BY <1>1, <1>9, Zenon DEF Purge
  <2>2. o.task <= Len(z) /\ Len(z) <= MaxTasks
    BY <1>2, <1>5
  <2> QED BY <1>1, <1>3, <1>7, <2>1, <2>2, PointTyped
<1> QED BY <1>8, <1>9

\* A tick that generates moves the cursor to a day that has come.
LEMMA BatchDays ==
  ASSUME Typed, today \in Days, NEW i \in Definitions, Generates(i)
  PROVE  /\ definition[i].rule \in Rules /\ definition[i].through \in {Unset} \cup 0 .. MaxDay
         /\ From(i) \in Days /\ To(i) \in Days /\ From(i) <= To(i) /\ To(i) <= today
<1>1. definition[i].rule \in Rules /\ definition[i].through \in {Unset} \cup 0 .. MaxDay
  BY DefinitionTyped DEF DefinitionType
<1>2. Start[definition[i].rule] \in Days
  BY <1>1, CalendarAssumption
<1>3. From(i) \in Nat /\ From(i) >= 1
  BY <1>1, <1>2 DEF From, Days, Unset
<1>4. From(i) <= today
  BY Zenon DEF Generates
<1>5. Scan \in Nat /\ Scan >= 1 /\ MaxDay \in Nat
  BY BoundsAssumption
<1>6. PICK f \in Nat : f = From(i)
  BY <1>3
<1>7. To(i) = IF f + Scan - 1 < today THEN f + Scan - 1 ELSE today
  BY <1>6 DEF To
<1> QED BY <1>1, <1>3, <1>4, <1>5, <1>6, <1>7 DEF Days

LEMMA TickTyped ==
  ASSUME Typed, today \in Days, NEW i \in Definitions, Tick(i)
  PROVE  Typed'
<1>1. CASE TickNothing(i)
  <2>1. definition' = definition /\ occurrence' = occurrence /\ tasks' = tasks
    BY <1>1, Zenon DEF TickNothing
  <2> QED BY <2>1, Zenon DEF Typed
<1>2. CASE TickCloses(i)
  <2>1. Put(i, Row(i), Made(i)) /\ definition' = definition
    BY <1>2, Zenon DEF TickCloses
  <2>2. definition' \in [Definitions -> DefinitionType]
    BY <2>1 DEF Typed
  <2> QED BY <2>1, <2>2, RowTyped, PutTyped
<1>3. CASE TickEnds(i)
  <2>1. Put(i, Row(i), Made(i)) /\ definition' = [definition EXCEPT ![i].state = "ENDED"]
    BY <1>3, Zenon DEF TickEnds
  <2>2. PICK x \in DefinitionType : x = [definition[i] EXCEPT !.state = "ENDED"]
    <3>1. PICK y \in DefinitionType : y = definition[i]
      BY DefinitionTyped
    <3>2. [y EXCEPT !.state = "ENDED"] \in DefinitionType
      BY DEF DefinitionType, States
    <3> QED BY <3>1, <3>2
  <2>3. definition' = [definition EXCEPT ![i] = x]
    BY <2>1, <2>2, Zenon
  <2>4. definition' \in [Definitions -> DefinitionType]
    BY <2>3, Defined
  <2> QED BY <2>1, <2>4, RowTyped, PutTyped
<1>4. CASE TickGenerates(i)
  <2>1. Generates(i)
    BY <1>4, Zenon DEF TickGenerates
  <2>2. PICK r \in Rules : r = definition[i].rule
    BY <2>1, BatchDays
  <2>3. PICK row \in RowType, made \in MadeType :
          /\ FitsIn(row, made)
          /\ row = Generated(i, r, From(i), To(i), Row(i))
          /\ made = GeneratedTasks(i, r, From(i), To(i), Made(i))
    BY RowTyped, GeneratedTyped, Zenon
  <2>4. Put(i, row, made) /\ definition' = [definition EXCEPT ![i].through = To(i)]
    BY <1>4, <2>2, <2>3, Zenon DEF TickGenerates
  <2>5. PICK x \in DefinitionType : x = [definition[i] EXCEPT !.through = To(i)]
    <3>1. PICK y \in DefinitionType : y = definition[i]
      BY DefinitionTyped
    <3>2. PICK t \in 0 .. MaxDay : t = To(i)
      BY <2>1, BatchDays DEF Days
    <3>3. [y EXCEPT !.through = t] \in DefinitionType
      BY DEF DefinitionType
    <3> QED BY <3>1, <3>2, <3>3
  <2>6. definition' = [definition EXCEPT ![i] = x]
    BY <2>4, <2>5, Zenon
  <2>7. definition' \in [Definitions -> DefinitionType]
    BY <2>6, Defined
  <2> QED BY <2>3, <2>4, <2>7, PutTyped
<1> QED BY <1>1, <1>2, <1>3, <1>4, Zenon DEF Tick

LEMMA Kept ==
  ASSUME Typed, definition' = definition, occurrence' = occurrence, tasks' = tasks
  PROVE  Typed'
BY Zenon DEF Typed

LEMMA PersonTyped ==
  ASSUME Typed, today \in Days, NEW i \in Definitions, Person(i)
  PROVE  Typed'
<1>1. ASSUME NEW state \in States, NEW r \in Rules, NEW limit \in Limits,
             \/ Create(i, state, r, limit) \/ Draft(i, state, r, limit)
             \/ \E status \in {"TODO", "DONE"} : Convert(i, state, r, limit, status)
             \/ \E deleted \in BOOLEAN : Save(i, state, r, limit, deleted)
      PROVE  Typed'
  BY <1>1, CreateTyped, DraftTyped, ConvertTyped, SaveTyped, Zenon
<1>2. ASSUME NEW from \in Days, NEW to \in Days, Generate(i, from, to)
      PROVE  Typed'
  BY <1>2, GenerateTyped, Zenon
<1>3. ASSUME NEW d \in Days, SkipOccurrence(i, d) \/ \E done \in BOOLEAN : Backfill(i, d, done)
      PROVE  Typed'
  BY <1>3, SkipTyped, BackfillTyped, Zenon
<1>4. ASSUME NEW d \in Days, NEW n \in 1 .. MaxTasks,
             \/ \E status \in {"TODO", "DONE", "CANCELED"} : SetStatus(i, d, n, status)
             \/ \E deleted \in BOOLEAN : SetDeleted(i, d, n, deleted)
             \/ Purge(i, d, n)
      PROVE  Typed'
  BY <1>4, SetStatusTyped, SetDeletedTyped, PurgeTyped, Zenon
<1>5. CASE DeleteProject(i) \/ RestoreProject(i)
  <2>1. definition' = definition /\ occurrence' = occurrence /\ tasks' = tasks
    BY <1>5, Zenon DEF DeleteProject, RestoreProject
  <2> QED BY <2>1, Kept
<1> QED BY <1>1, <1>2, <1>3, <1>4, <1>5, Zenon DEF Person

\* What the rest of a step may write: a person acts once, the worker and the
\* clock leave the records alone.
PersonWorld(i) ==
  /\ Act
  /\ gone' \in {gone, gone \cup {i}, gone \ {i}}
  /\ \/ since' = since
     \/ since' = [since EXCEPT ![i] = 1]
     \/ \E state \in States : since' = [since EXCEPT ![i] = Cursor(i, state) + 1]

LEMMA PersonFrame ==
  ASSUME WorldType, NEW i \in Definitions, Person(i)
  PROVE  PersonWorld(i)
<1>1. ASSUME NEW state \in States, NEW r \in Rules, NEW limit \in Limits, Define(i, state, r, limit)
      PROVE  PersonWorld(i)
  BY <1>1, Zenon DEF Define, PersonWorld
<1>2. ASSUME NEW state \in States, NEW r \in Rules, NEW limit \in Limits, NEW deleted \in BOOLEAN,
             Save(i, state, r, limit, deleted)
      PROVE  PersonWorld(i)
  <2>1. Act /\ gone' = gone
    BY <1>2, Zenon DEF Save
  <2>2. CASE definition[i].rule = r /\ definition[i].through = Cursor(i, state)
    <3>1. since' = [since EXCEPT ![i] = @]
      BY <1>2, <2>2, Zenon DEF Save
    <3>2. since' = since
      BY <3>1 DEF WorldType
    <3> QED BY <2>1, <3>2, Zenon DEF PersonWorld
  <2>3. CASE ~(definition[i].rule = r /\ definition[i].through = Cursor(i, state))
    <3>1. since' = [since EXCEPT ![i] = Cursor(i, state) + 1]
      BY <1>2, <2>3, Zenon DEF Save
    <3> QED BY <2>1, <3>1, Zenon DEF PersonWorld
  <2> QED BY <2>2, <2>3
<1>3. ASSUME Act, gone' \in {gone, gone \cup {i}, gone \ {i}}, since' = since
      PROVE  PersonWorld(i)
  BY <1>3, Zenon DEF PersonWorld
<1>4. ASSUME NEW from, NEW to, Generate(i, from, to)
      PROVE  PersonWorld(i)
  BY <1>3, <1>4, Zenon DEF Generate
<1>5. ASSUME NEW d, SkipOccurrence(i, d) \/ \E done \in BOOLEAN : Backfill(i, d, done)
      PROVE  PersonWorld(i)
  BY <1>3, <1>5, Zenon DEF SkipOccurrence, Backfill
<1>6. ASSUME NEW d, NEW n,
             \/ \E status \in {"TODO", "DONE", "CANCELED"} : SetStatus(i, d, n, status)
             \/ \E deleted \in BOOLEAN : SetDeleted(i, d, n, deleted)
             \/ Purge(i, d, n)
      PROVE  PersonWorld(i)
  BY <1>3, <1>6, Zenon DEF SetStatus, SetDeleted, Purge, TaskAct
<1>7. CASE DeleteProject(i) \/ RestoreProject(i)
  BY <1>3, <1>7, Zenon DEF DeleteProject, RestoreProject
<1> QED BY <1>1, <1>2, <1>4, <1>5, <1>6, <1>7, Zenon DEF Person, Create, Draft, Convert

LEMMA PersonWorldTyped ==
  ASSUME Typed, WorldType, NEW i \in Definitions, Person(i)
  PROVE  /\ today' = today /\ late' = late /\ up' = up /\ left' = left
         /\ gone' \in SUBSET Definitions
         /\ spent' \in [acts : 0 .. MaxActs, crashes : 0 .. MaxCrashes]
         /\ since' \in [Definitions -> 0 .. MaxDay + 1]
<1>1. PersonWorld(i) /\ Act
  BY PersonFrame DEF PersonWorld
<1>2. today' = today /\ late' = late /\ up' = up /\ left' = left
  BY <1>1, Zenon DEF Act, clock
<1>3. gone' \in SUBSET Definitions
  BY <1>1 DEF PersonWorld, WorldType
<1>4. spent' \in [acts : 0 .. MaxActs, crashes : 0 .. MaxCrashes]
  BY <1>1, BoundsAssumption DEF Act, WorldType
<1>5. since' \in [Definitions -> 0 .. MaxDay + 1]
  <2>1. since \in [Definitions -> 0 .. MaxDay + 1] /\ today \in Days /\ 1 \in 0 .. MaxDay + 1
    BY BoundsAssumption DEF WorldType
  <2>2. \A state : Cursor(i, state) + 1 \in 0 .. MaxDay + 1
    BY <2>1, CursorTyped, BoundsAssumption
  <2> QED BY <1>1, <2>1, <2>2 DEF PersonWorld
<1> QED BY <1>2, <1>3, <1>4, <1>5

LEMMA WorkerFrame ==
  ASSUME WorldType, (\E i \in Definitions : Tick(i)) \/ List \/ Crash \/ Boot \/ TimePasses
  PROVE  /\ today' \in Days /\ late' \in BOOLEAN /\ up' \in BOOLEAN
         /\ left' \in SUBSET Definitions /\ gone' = gone /\ since' = since
         /\ spent' \in [acts : 0 .. MaxActs, crashes : 0 .. MaxCrashes] /\ spent'.acts = spent.acts
<1>0. /\ today \in Days /\ late \in BOOLEAN /\ up \in BOOLEAN /\ left \in SUBSET Definitions
      /\ spent \in [acts : 0 .. MaxActs, crashes : 0 .. MaxCrashes]
  BY Zenon DEF WorldType
<1>1. CASE \E i \in Definitions : Tick(i)
  <2>1. PICK i \in Definitions : Pass(i)
    BY <1>1, Zenon DEF Tick, TickNothing, TickCloses, TickEnds, TickGenerates
  <2>2. /\ today' = today /\ late' = late /\ up' = up /\ spent' = spent
        /\ gone' = gone /\ since' = since /\ left' = left \ {i}
    BY <2>1, Zenon DEF Pass, clock
  <2>3. left' \in SUBSET Definitions
    BY <1>0, <2>2
  <2> QED BY <1>0, <2>2, <2>3, Zenon
<1>2. CASE List
  <2>1. /\ today' = today /\ late' = late /\ up' = up /\ spent' = spent
        /\ gone' = gone /\ since' = since /\ left' = {i \in Definitions : Current(i)}
    BY <1>2, Zenon DEF List, clock, records
  <2>2. left' \in SUBSET Definitions
    BY <2>1
  <2> QED BY <1>0, <2>1, <2>2, Zenon
<1>3. CASE Crash
  <2>1. /\ today' = today /\ late' = late /\ up' = FALSE /\ gone' = gone /\ since' = since /\ left' = {}
    BY <1>3, Zenon DEF Crash, clock, records
  <2>2. left' \in SUBSET Definitions
    BY <2>1
  <2>3. spent' \in [acts : 0 .. MaxActs, crashes : 0 .. MaxCrashes] /\ spent'.acts = spent.acts
    BY <1>0, <1>3, BoundsAssumption DEF Crash
  <2> QED BY <1>0, <2>1, <2>2, <2>3, Zenon
<1>4. CASE Boot
  <2>1. /\ today' = today /\ late' = late /\ up' = TRUE /\ spent' = spent /\ gone' = gone
        /\ since' = since /\ left' = left
    BY <1>4, Zenon DEF Boot, clock, records
  <2> QED BY <1>0, <2>1, Zenon
<1>5. CASE TimePasses
  <2>1. /\ up' = up /\ spent' = spent /\ gone' = gone /\ since' = since /\ left' = left
        /\ late' = ~late /\ (today' = today \/ (today < MaxDay /\ today' = today + 1))
    BY <1>5, Zenon DEF TimePasses, records, world
  <2>2. today' \in Days
    BY <1>0, <2>1, BoundsAssumption DEF Days
  <2>3. late' \in BOOLEAN
    BY <1>0, <2>1, Zenon
  <2> QED BY <1>0, <2>1, <2>2, <2>3, Zenon
<1> QED BY <1>1, <1>2, <1>3, <1>4, <1>5

LEMMA ActiveTyped ==
  ASSUME WorldType, today' \in Days, Remembers
  PROVE  active' \in [Definitions -> SUBSET Days]
<1>1. 1 .. today \in SUBSET Days /\ {today'} \in SUBSET Days
  BY BoundsAssumption DEF WorldType, Days
<1> QED BY <1>1 DEF Remembers, WorldType

LEMMA TypedNext ==
  ASSUME TypeOK, [Next]_vars
  PROVE  TypeOK'
<1>0. Typed /\ WorldType /\ today \in Days
  BY Halves, Zenon DEF WorldType
<1>1. ASSUME NEW i \in Definitions, Person(i), Remembers
      PROVE  TypeOK'
  <2>1. Typed'
    BY <1>0, <1>1, PersonTyped
  <2>2. WorldType'
    BY <1>0, <1>1, PersonWorldTyped, ActiveTyped, Zenon DEF WorldType
  <2> QED BY <2>1, <2>2, Zenon DEF TypeOK, Typed, WorldType
<1>2. ASSUME (\E i \in Definitions : Tick(i)) \/ List \/ Crash \/ Boot \/ TimePasses, Remembers
      PROVE  TypeOK'
  <2>1. Typed'
    <3>1. CASE \E i \in Definitions : Tick(i)
      BY <1>0, <3>1, TickTyped
    <3>2. CASE List \/ Crash \/ Boot \/ TimePasses
      <4>1. definition' = definition /\ occurrence' = occurrence /\ tasks' = tasks
        BY <3>2, Zenon DEF List, Crash, Boot, TimePasses, records
      <4> QED BY <1>0, <4>1, Kept
    <3> QED BY <1>2, <3>1, <3>2
  <2>2. WorldType'
    BY <1>0, <1>2, WorkerFrame, ActiveTyped, Zenon DEF WorldType
  <2> QED BY <2>1, <2>2, Zenon DEF TypeOK, Typed, WorldType
<1>3. CASE UNCHANGED vars
  <2>1. /\ definition' = definition /\ occurrence' = occurrence /\ tasks' = tasks
        /\ today' = today /\ late' = late /\ gone' = gone /\ up' = up /\ left' = left
        /\ spent' = spent /\ since' = since /\ active' = active
    BY <1>3, Zenon DEF vars, clock, records, world, ghosts
  <2> QED BY <2>1, Zenon DEF TypeOK
<1> QED BY <1>1, <1>2, <1>3, Zenon DEF Next

LEMMA TypedInit ==
  ASSUME Init PROVE TypeOK
<1>1. NoDefinition \in DefinitionType
  BY BoundsAssumption DEF NoDefinition, DefinitionType, Unset
<1>2. NoOccurrence \in OccurrenceType /\ NoOccurrence.task = 0
  BY BoundsAssumption DEF NoOccurrence, OccurrenceType
<1>3. PICK row \in RowType : row = [d \in Days |-> NoOccurrence]
  BY <1>2 DEF RowType
<1>4. PICK made \in MadeType : made = [d \in Days |-> <<>>]
  <2>1. <<>> \in Seq(TaskType)
    OBVIOUS
  <2> QED BY <2>1 DEF MadeType
<1>5. FitsIn(row, made)
  BY <1>2, <1>3, <1>4, BoundsAssumption DEF FitsIn
<1>6. /\ definition \in [Definitions -> DefinitionType]
      /\ occurrence \in [Definitions -> RowType] /\ tasks \in [Definitions -> MadeType]
      /\ \A i \in Definitions : occurrence[i] = row /\ tasks[i] = made
  BY <1>1, <1>3, <1>4 DEF Init
<1>7. \A i \in Definitions : FitsIn(occurrence[i], tasks[i])
  BY <1>5, <1>6
<1>8. /\ today \in Days /\ spent \in [acts : 0 .. MaxActs, crashes : 0 .. MaxCrashes]
      /\ since \in [Definitions -> 0 .. MaxDay + 1] /\ active \in [Definitions -> SUBSET Days]
      /\ gone \in SUBSET Definitions /\ left \in SUBSET Definitions
  BY BoundsAssumption DEF Init, Days
<1>9. late \in BOOLEAN /\ up \in BOOLEAN
  BY Zenon DEF Init
<1> QED BY <1>6, <1>7, <1>8, <1>9, Zenon DEF TypeOK

\* Every variable keeps its type, and an occurrence only names a task that was
\* made for its day.
THEOREM TypeCorrect == Spec => []TypeOK
BY TypedInit, TypedNext, PTL DEF Spec

-----------------------------------------------------------------------------
\* What a step makes of an occurrence: it stays, forgets a purged task, comes to
\* be, is made good, or ends, as its task says.
Fate(i, d) ==
  LET o == occurrence[i][d]  p == occurrence'[i][d] IN
  \/ p = o \/ p = [o EXCEPT !.task = 0]
  \/ o.status = "NONE" /\ p.status # "NONE" /\ definition'[i].state # "NONE"
  \/ o.status = "MISSED" /\ p.status = "BACKFILLED" /\ p.rule = o.rule
  \/ Waiting(o) /\ ~Finished(i, d) /\ p.status \in {"SKIPPED", "MISSED"} /\ p.rule = o.rule
  \/ Waiting(o) /\ Finished(i, d) /\ p.status = "COMPLETED" /\ p.rule = o.rule

\* A definition that was not made yet has no occurrence.
Blank ==
  \A i \in Definitions, d \in Days :
    definition[i].state = "NONE" => occurrence[i][d].status = "NONE"

LEMMA PutAt ==
  ASSUME Typed, NEW i \in Definitions, NEW row, NEW made, Put(i, row, made), NEW k \in Definitions
  PROVE  /\ occurrence'[k] = IF k = i THEN row ELSE occurrence[k]
         /\ tasks'[k] = IF k = i THEN made ELSE tasks[k]
BY DEF Typed, Put

LEMMA ReconciledFate ==
  ASSUME Typed, NEW i \in Definitions, NEW d \in Days
  PROVE  LET o == occurrence[i][d]  p == Reconciled(i, d) IN
         \/ p = o
         \/ Waiting(o) /\ ~Finished(i, d) /\ p.status = "MISSED" /\ p.rule = o.rule
         \/ Waiting(o) /\ Finished(i, d) /\ p.status = "COMPLETED" /\ p.rule = o.rule
<1>1. PICK o \in OccurrenceType : o = occurrence[i][d]
  BY OccurrenceTyped
<1>2. CASE Expired(i, d)
  <2>1. Reconciled(i, d) = [o EXCEPT !.status = "MISSED"]
    BY <1>1, <1>2 DEF Reconciled, Expired
  <2>2. Reconciled(i, d).status = "MISSED" /\ Reconciled(i, d).rule = o.rule
    BY <2>1 DEF OccurrenceType
  <2> QED BY <1>1, <1>2, <2>2, Zenon DEF Expired
<1>3. CASE ~Expired(i, d) /\ Waiting(o) /\ Finished(i, d)
  <2>1. Reconciled(i, d) = [o EXCEPT !.status = "COMPLETED", !.done = TRUE]
    BY <1>1, <1>3 DEF Reconciled
  <2>2. Reconciled(i, d).status = "COMPLETED" /\ Reconciled(i, d).rule = o.rule
    BY <2>1 DEF OccurrenceType
  <2> QED BY <1>1, <1>3, <2>2, Zenon
<1>4. CASE ~Expired(i, d) /\ ~(Waiting(o) /\ Finished(i, d))
  <2>1. Reconciled(i, d) = o
    BY <1>1, <1>4 DEF Reconciled
  <2> QED BY <1>1, <2>1
<1> QED BY <1>2, <1>3, <1>4

LEMMA GeneratedAt ==
  ASSUME NEW i \in Definitions, NEW r, NEW from, NEW to, NEW row, NEW made, NEW d \in Days
  PROVE  /\ d \notin Fresh(i, r, from, to) =>
              /\ Generated(i, r, from, to, row)[d] = row[d]
              /\ GeneratedTasks(i, r, from, to, made)[d] = made[d]
         /\ d \in Fresh(i, r, from, to) =>
              /\ occurrence[i][d].status = "NONE"
              /\ Generated(i, r, from, to, row)[d].status \in {"MISSED", "OPEN"}
<1>1. CASE d \notin Fresh(i, r, from, to)
  BY <1>1, Zenon DEF Generated, GeneratedTasks, Opened
<1>2. CASE d \in Fresh(i, r, from, to) /\ Over(r, d)
  <2>1. Generated(i, r, from, to, row)[d] =
          [status |-> "MISSED", rule |-> r, task |-> 0, done |-> FALSE]
    BY <1>2, Zenon DEF Generated
  <2> QED BY <1>2, <2>1 DEF Fresh
<1>3. CASE d \in Fresh(i, r, from, to) /\ ~Over(r, d)
  <2>1. Generated(i, r, from, to, row)[d] =
          [status |-> "OPEN", rule |-> r, task |-> 1, done |-> FALSE]
    BY <1>3, Zenon DEF Generated
  <2> QED BY <1>3, <2>1 DEF Fresh
<1> QED BY <1>1, <1>2, <1>3

-----------------------------------------------------------------------------
\* How a step changes a definition and what its cursor accounts for.

DefinedMoves(i) ==
  /\ definition[i].state = "NONE" /\ definition'[i].state \in States
  /\ definition'[i].through = Unset /\ today' = today

SavedMoves(i) ==
  \E state \in States, r \in Rules :
    /\ definition[i].state # "NONE" /\ today' = today
    /\ definition'[i].state = state /\ definition'[i].rule = r
    /\ definition'[i].through = Cursor(i, state)
    /\ since'[i] = IF definition[i].rule = r /\ definition[i].through = Cursor(i, state)
                   THEN since[i] ELSE Cursor(i, state) + 1

EndedMoves(i) ==
  /\ definition[i].state # "NONE"
  /\ definition'[i].state = "ENDED" /\ definition'[i].rule = definition[i].rule
  /\ definition'[i].through = definition[i].through /\ since'[i] = since[i]

GeneratedMoves(i) ==
  /\ TickGenerates(i) /\ today' = today
  /\ definition'[i].state = definition[i].state /\ definition'[i].rule = definition[i].rule
  /\ definition'[i].through = To(i) /\ since'[i] = since[i]

DefinitionMoves(i) ==
  \/ definition'[i] = definition[i] /\ since'[i] = since[i]
  \/ DefinedMoves(i) \/ SavedMoves(i) \/ EndedMoves(i) \/ GeneratedMoves(i)

\* What a person's request on one definition does to each of them.
LEMMA DefineMoves ==
  ASSUME Typed, WorldType, NEW i \in Definitions, NEW state \in States, NEW r \in Rules,
         NEW limit \in Limits, Define(i, state, r, limit), NEW k \in Definitions
  PROVE  DefinitionMoves(k)
<1>1. PICK x : x = [state |-> state, deleted |-> FALSE, rule |-> r, limit |-> limit,
                    through |-> Unset]
  OBVIOUS
<1>2. definition' = [definition EXCEPT ![i] = x] /\ since' = [since EXCEPT ![i] = 1]
  BY <1>1, Zenon DEF Define
<1>3. definition[i].state = "NONE" /\ today' = today
  BY Zenon DEF Define, Act, clock
<1>4. x.state \in States /\ x.through = Unset
  BY <1>1
<1>5. CASE k = i
  <2>1. definition'[k] = x
    BY <1>2, <1>5 DEF Typed
  <2> QED BY <1>3, <1>4, <1>5, <2>1, Zenon DEF DefinitionMoves, DefinedMoves
<1>6. CASE k # i
  <2>1. definition'[k] = definition[k] /\ since'[k] = since[k]
    BY <1>2, <1>6 DEF Typed, WorldType
  <2> QED BY <2>1, Zenon DEF DefinitionMoves
<1> QED BY <1>5, <1>6

LEMMA SaveMoves ==
  ASSUME Typed, WorldType, NEW i \in Definitions, NEW state \in States, NEW r \in Rules,
         NEW limit \in Limits, NEW deleted \in BOOLEAN,
         Save(i, state, r, limit, deleted), NEW k \in Definitions
  PROVE  DefinitionMoves(k)
<1>1. PICK c : c = Cursor(i, state)
  OBVIOUS
<1>2. PICK x : x = [state |-> state, deleted |-> deleted, rule |-> r, limit |-> limit,
                    through |-> c]
  OBVIOUS
<1>3. PICK y : y = IF definition[i].rule = r /\ definition[i].through = c
                   THEN since[i] ELSE c + 1
  OBVIOUS
<1>4. definition' = [definition EXCEPT ![i] = x] /\ since' = [since EXCEPT ![i] = y]
  BY <1>1, <1>2, <1>3, Zenon DEF Save
<1>5. definition[i].state # "NONE" /\ today' = today
  BY Zenon DEF Save, Act, clock
<1>6. x.state = state /\ x.rule = r /\ x.through = c
  BY <1>2
<1>7. CASE k = i
  <2>1. definition'[i] = x /\ since'[i] = y
    BY <1>4 DEF Typed, WorldType
  <2>2. SavedMoves(i)
    BY <1>1, <1>3, <1>5, <1>6, <2>1, Zenon DEF SavedMoves
  <2> QED BY <1>7, <2>2, Zenon DEF DefinitionMoves
<1>8. CASE k # i
  <2>1. definition'[k] = definition[k] /\ since'[k] = since[k]
    BY <1>4, <1>8 DEF Typed, WorldType
  <2> QED BY <2>1, Zenon DEF DefinitionMoves
<1> QED BY <1>7, <1>8

LEMMA TickMoves ==
  ASSUME Typed, WorldType, NEW i \in Definitions, Tick(i), NEW k \in Definitions
  PROVE  DefinitionMoves(k)
<1>1. since' = since /\ today' = today
  BY Zenon DEF Tick, TickNothing, TickCloses, TickEnds, TickGenerates, Pass, clock
<1>2. CASE definition' = definition
  BY <1>1, <1>2, Zenon DEF DefinitionMoves
<1>3. CASE TickEnds(i)
  <2>1. definition' = [definition EXCEPT ![i].state = "ENDED"] /\ definition[i].state = "ACTIVE"
    BY <1>3, Zenon DEF TickEnds, Active
  <2>2. CASE k = i
    <3>1. /\ definition'[i].state = "ENDED" /\ definition'[i].rule = definition[i].rule
          /\ definition'[i].through = definition[i].through
      BY <2>1, DefinitionTyped DEF Typed, DefinitionType
    <3>2. EndedMoves(i)
      BY <1>1, <2>1, <3>1 DEF EndedMoves
    <3> QED BY <2>2, <3>2, Zenon DEF DefinitionMoves
  <2>3. CASE k # i
    <3>1. definition'[k] = definition[k]
      BY <2>1, <2>3 DEF Typed
    <3> QED BY <1>1, <3>1, Zenon DEF DefinitionMoves
  <2> QED BY <2>2, <2>3
<1>4. CASE TickGenerates(i)
  <2>1. definition' = [definition EXCEPT ![i].through = To(i)]
    BY <1>4, Zenon DEF TickGenerates
  <2>2. CASE k = i
    <3>1. /\ definition'[i].state = definition[i].state /\ definition'[i].rule = definition[i].rule
          /\ definition'[i].through = To(i)
      BY <2>1, DefinitionTyped DEF Typed, DefinitionType
    <3>2. GeneratedMoves(i)
      BY <1>1, <1>4, <3>1, Zenon DEF GeneratedMoves
    <3> QED BY <2>2, <3>2, Zenon DEF DefinitionMoves
  <2>3. CASE k # i
    <3>1. definition'[k] = definition[k]
      BY <2>1, <2>3 DEF Typed
    <3> QED BY <1>1, <3>1, Zenon DEF DefinitionMoves
  <2> QED BY <2>2, <2>3
<1> QED BY <1>2, <1>3, <1>4, Zenon DEF Tick, TickNothing, TickCloses

LEMMA AllDefinitionMoves ==
  ASSUME TypeOK, [Next]_vars, NEW k \in Definitions
  PROVE  DefinitionMoves(k)
<1>0. Typed /\ WorldType
  BY Halves, Zenon
<1>1. CASE definition' = definition /\ since' = since
  BY <1>1, Zenon DEF DefinitionMoves
<1>2. ASSUME NEW i \in Definitions, Person(i)
      PROVE  DefinitionMoves(k)
  <2>1. ASSUME NEW state \in States, NEW r \in Rules, NEW limit \in Limits, Define(i, state, r, limit)
        PROVE  DefinitionMoves(k)
    BY <1>0, <2>1, DefineMoves, Zenon
  <2>2. ASSUME NEW state \in States, NEW r \in Rules, NEW limit \in Limits, NEW deleted \in BOOLEAN,
               Save(i, state, r, limit, deleted)
        PROVE  DefinitionMoves(k)
    BY <1>0, <2>2, SaveMoves, Zenon
  <2>3. ASSUME NEW from, NEW to, Generate(i, from, to)
        PROVE  DefinitionMoves(k)
    BY <1>1, <2>3, Zenon DEF Generate
  <2>4. ASSUME NEW d, SkipOccurrence(i, d) \/ \E done \in BOOLEAN : Backfill(i, d, done)
        PROVE  DefinitionMoves(k)
    BY <1>1, <2>4, Zenon DEF SkipOccurrence, Backfill
  <2>5. ASSUME NEW d, NEW n,
               \/ \E status \in {"TODO", "DONE", "CANCELED"} : SetStatus(i, d, n, status)
               \/ \E deleted \in BOOLEAN : SetDeleted(i, d, n, deleted)
               \/ Purge(i, d, n)
        PROVE  DefinitionMoves(k)
    BY <1>1, <2>5, Zenon DEF SetStatus, SetDeleted, Purge, TaskAct
  <2>6. CASE DeleteProject(i) \/ RestoreProject(i)
    BY <1>1, <2>6, Zenon DEF DeleteProject, RestoreProject
  <2> QED BY <1>2, <2>1, <2>2, <2>3, <2>4, <2>5, <2>6, Zenon DEF Person, Create, Draft, Convert
<1>3. ASSUME NEW i \in Definitions, Tick(i)
      PROVE  DefinitionMoves(k)
  BY <1>0, <1>3, TickMoves, Zenon
<1>4. CASE List \/ Crash \/ Boot \/ TimePasses \/ UNCHANGED vars
  BY <1>1, <1>4, Zenon DEF List, Crash, Boot, TimePasses, vars, records, ghosts
<1> QED BY <1>2, <1>3, <1>4, Zenon DEF Next

-----------------------------------------------------------------------------
\* How each step changes the occurrences.

LEMMA Same ==
  ASSUME NEW k, NEW e, occurrence'[k][e] = occurrence[k][e]
  PROVE  Fate(k, e)
BY Zenon DEF Fate

LEMMA DefinedState ==
  ASSUME Typed, NEW i \in Definitions, NEW state \in States, NEW r, NEW limit,
         Define(i, state, r, limit)
  PROVE  definition'[i].state # "NONE" /\ definition[i].state = "NONE"
<1>1. PICK x : x = [state |-> state, deleted |-> FALSE, rule |-> r, limit |-> limit,
                    through |-> Unset]
  OBVIOUS
<1>2. definition' = [definition EXCEPT ![i] = x] /\ definition[i].state = "NONE"
  BY <1>1, Zenon DEF Define
<1>3. definition'[i] = x
  BY <1>2 DEF Typed
<1>4. x.state # "NONE"
  BY <1>1 DEF States
<1> QED BY <1>2, <1>3, <1>4

\* The days a step generates, on the row it leaves as it is elsewhere.
LEMMA GeneratedFate ==
  ASSUME Typed, NEW i \in Definitions, NEW r, NEW from, NEW to, NEW made,
         Put(i, Generated(i, r, from, to, occurrence[i]), made),
         definition'[i].state # "NONE", NEW k \in Definitions, NEW e \in Days
  PROVE  Fate(k, e)
<1>1. CASE k = i /\ e \notin Fresh(i, r, from, to)
  <2>1. occurrence'[k][e] = occurrence[k][e]
    BY <1>1, PutAt, GeneratedAt
  <2> QED BY <2>1, Same
<1>2. CASE k = i /\ e \in Fresh(i, r, from, to)
  <2>1. occurrence[i][e].status = "NONE" /\ occurrence'[i][e].status \in {"MISSED", "OPEN"}
    BY <1>2, PutAt, GeneratedAt
  <2> QED BY <1>2, <2>1 DEF Fate
<1>3. CASE k # i
  <2>1. occurrence'[k][e] = occurrence[k][e]
    BY <1>3, PutAt
  <2> QED BY <2>1, Same
<1> QED BY <1>1, <1>2, <1>3

LEMMA ConvertFate ==
  ASSUME Typed, Blank, NEW i \in Definitions, NEW state \in States, NEW r \in Rules, NEW limit \in Limits,
         NEW status \in {"TODO", "DONE"}, Convert(i, state, r, limit, status),
         NEW k \in Definitions, NEW e \in Days
  PROVE  Fate(k, e)
<1>1. definition'[i].state # "NONE" /\ definition[i].state = "NONE"
  BY DefinedState, Zenon DEF Convert
<1>2. PICK d \in Days : d = Start[r]
  BY CalendarAssumption
<1>3. PICK p : p = [status |-> IF status = "DONE" THEN "COMPLETED" ELSE "OPEN",
                    rule |-> r, task |-> 1, done |-> status = "DONE"]
  OBVIOUS
<1>4. p.status # "NONE"
  BY <1>3
<1>5. occurrence' = [occurrence EXCEPT ![i] = [occurrence[i] EXCEPT ![d] = p]]
  BY <1>2, <1>3, Zenon DEF Convert, Put
<1>6. occurrence' = [occurrence EXCEPT ![i][d] = p]
  BY <1>5, Zenon
<1>7. CASE k = i /\ e = d
  <2>1. occurrence'[i][d] = p
    BY <1>6 DEF Typed, RowType
  <2>2. occurrence[k][e].status = "NONE"
    BY <1>1, <1>7 DEF Blank
  <2> QED BY <1>1, <1>4, <1>7, <2>1, <2>2, Zenon DEF Fate
<1>8. CASE ~(k = i /\ e = d)
  <2>1. occurrence'[k][e] = occurrence[k][e]
    BY <1>6, <1>8 DEF Typed, RowType
  <2> QED BY <2>1, Same
<1> QED BY <1>7, <1>8

LEMMA SkipFate ==
  ASSUME Typed, NEW i \in Definitions, NEW d \in Days, SkipOccurrence(i, d),
         NEW k \in Definitions, NEW e \in Days
  PROVE  Fate(k, e)
<1>1. PICK o \in OccurrenceType : o = occurrence[i][d]
  BY OccurrenceTyped
<1>2. PICK p : p = [o EXCEPT !.status = "SKIPPED"]
  OBVIOUS
<1>3. p.status = "SKIPPED" /\ p.rule = o.rule
  BY <1>2 DEF OccurrenceType
<1>4. occurrence' = [occurrence EXCEPT ![i][d] = p]
  BY <1>1, <1>2, Zenon DEF SkipOccurrence
<1>5. o.status = "OPEN" /\ ~Finished(i, d)
  <2>1. o.status = "OPEN" /\ (o.task > 0 => ~Finished(i, d))
    BY <1>1, Zenon DEF SkipOccurrence, Cancelable
  <2>2. Finished(i, d) => o.task > 0
    BY <1>1, Zenon DEF Finished, Found
  <2> QED BY <2>1, <2>2
<1>6. CASE k = i /\ e = d
  <2>1. occurrence'[i][d] = p
    BY <1>4 DEF Typed, RowType
  <2> QED BY <1>1, <1>3, <1>5, <1>6, <2>1 DEF Fate, Waiting
<1>7. CASE ~(k = i /\ e = d)
  <2>1. occurrence'[k][e] = occurrence[k][e]
    BY <1>4, <1>7 DEF Typed, RowType
  <2> QED BY <2>1, Same
<1> QED BY <1>6, <1>7

LEMMA BackfillFate ==
  ASSUME Typed, NEW i \in Definitions, NEW d \in Days, NEW done \in BOOLEAN, Backfill(i, d, done),
         NEW k \in Definitions, NEW e \in Days
  PROVE  Fate(k, e)
<1>1. PICK o \in OccurrenceType : o = occurrence[i][d]
  BY OccurrenceTyped
<1>2. PICK p : p = [o EXCEPT !.status = "BACKFILLED", !.task = Len(tasks[i][d]) + 1, !.done = done]
  OBVIOUS
<1>3. p.status = "BACKFILLED" /\ p.rule = o.rule
  BY <1>2 DEF OccurrenceType
<1>4. occurrence' = [occurrence EXCEPT ![i][d] = p] /\ o.status = "MISSED"
  BY <1>1, <1>2, Zenon DEF Backfill
<1>5. CASE k = i /\ e = d
  <2>1. occurrence'[i][d] = p
    BY <1>4 DEF Typed, RowType
  <2> QED BY <1>1, <1>3, <1>4, <1>5, <2>1 DEF Fate
<1>6. CASE ~(k = i /\ e = d)
  <2>1. occurrence'[k][e] = occurrence[k][e]
    BY <1>4, <1>6 DEF Typed, RowType
  <2> QED BY <2>1, Same
<1> QED BY <1>5, <1>6

LEMMA PurgeFate ==
  ASSUME Typed, NEW i \in Definitions, NEW d \in Days, NEW n, Purge(i, d, n),
         NEW k \in Definitions, NEW e \in Days
  PROVE  Fate(k, e)
<1>1. PICK p : p = [occurrence[i][d] EXCEPT !.task = 0]
  OBVIOUS
<1>2. CASE occurrence' = occurrence
  BY <1>2, Same, Zenon
<1>3. CASE occurrence' = [occurrence EXCEPT ![i][d].task = 0]
  <2>1. occurrence' = [occurrence EXCEPT ![i][d] = p]
    BY <1>1, <1>3, Zenon
  <2>2. CASE k = i /\ e = d
    <3>1. occurrence'[i][d] = p
      BY <2>1 DEF Typed, RowType
    <3> QED BY <1>1, <2>2, <3>1, Zenon DEF Fate
  <2>3. CASE ~(k = i /\ e = d)
    <3>1. occurrence'[k][e] = occurrence[k][e]
      BY <2>1, <2>3 DEF Typed, RowType
    <3> QED BY <3>1, Same
  <2> QED BY <2>2, <2>3
<1> QED BY <1>2, <1>3, Zenon DEF Purge

LEMMA PersonFate ==
  ASSUME Typed, Blank, NEW i \in Definitions, Person(i), NEW k \in Definitions, NEW e \in Days
  PROVE  Fate(k, e)
<1>1. CASE occurrence' = occurrence
  BY <1>1, Same, Zenon
<1>2. ASSUME NEW state \in States, NEW r \in Rules, NEW limit \in Limits, Draft(i, state, r, limit)
      PROVE  Fate(k, e)
  <2>1. CASE occurrence' = occurrence
    BY <1>1, <2>1
  <2>2. CASE Put(i, Generated(i, r, today, today, occurrence[i]),
                 GeneratedTasks(i, r, today, today, tasks[i]))
    <3>1. definition'[i].state # "NONE"
      BY <1>2, DefinedState, Zenon DEF Draft
    <3> QED BY <2>2, <3>1, GeneratedFate, Zenon
  <2> QED BY <1>2, <2>1, <2>2, Zenon DEF Draft
<1>3. ASSUME NEW state \in States, NEW r \in Rules, NEW limit \in Limits,
             \E status \in {"TODO", "DONE"} : Convert(i, state, r, limit, status)
      PROVE  Fate(k, e)
  BY <1>3, ConvertFate, Zenon
<1>4. ASSUME NEW state, NEW r, NEW limit,
             Create(i, state, r, limit) \/ \E deleted \in BOOLEAN : Save(i, state, r, limit, deleted)
      PROVE  Fate(k, e)
  BY <1>1, <1>4, Zenon DEF Create, Save
<1>5. ASSUME NEW from, NEW to, Generate(i, from, to)
      PROVE  Fate(k, e)
  <2>1. definition[i].state = "ACTIVE" /\ definition' = definition
    BY <1>5, Zenon DEF Generate
  <2>2. definition'[i].state # "NONE"
    BY <2>1
  <2>3. Put(i, Generated(i, definition[i].rule, from, to, occurrence[i]),
            GeneratedTasks(i, definition[i].rule, from, to, tasks[i]))
    BY <1>5, Zenon DEF Generate
  <2> QED BY <2>2, <2>3, GeneratedFate, Zenon
<1>6. ASSUME NEW d \in Days, SkipOccurrence(i, d) \/ \E done \in BOOLEAN : Backfill(i, d, done)
      PROVE  Fate(k, e)
  BY <1>6, SkipFate, BackfillFate, Zenon
<1>7. ASSUME NEW d \in Days, NEW n,
             \/ \E status \in {"TODO", "DONE", "CANCELED"} : SetStatus(i, d, n, status)
             \/ \E deleted \in BOOLEAN : SetDeleted(i, d, n, deleted)
             \/ Purge(i, d, n)
      PROVE  Fate(k, e)
  BY <1>1, <1>7, PurgeFate, Zenon DEF SetStatus, SetDeleted
<1>8. CASE DeleteProject(i) \/ RestoreProject(i)
  BY <1>1, <1>8, Zenon DEF DeleteProject, RestoreProject
<1> QED BY <1>2, <1>3, <1>4, <1>5, <1>6, <1>7, <1>8, Zenon DEF Person

LEMMA RowAt ==
  ASSUME NEW i, NEW d \in Days
  PROVE  Row(i)[d] = Reconciled(i, d) /\ Made(i)[d] = Closed(i, d)
BY Zenon DEF Row, Made

LEMMA ReconciledIsFate ==
  ASSUME Typed, NEW i \in Definitions, NEW e \in Days, occurrence'[i][e] = Reconciled(i, e)
  PROVE  Fate(i, e)
BY ReconciledFate DEF Fate

\* A tick generates only for an active definition.
LEMMA TickGeneratesFor ==
  ASSUME Typed, NEW i \in Definitions, TickGenerates(i)
  PROVE  /\ Generates(i) /\ definition[i].state = "ACTIVE"
         /\ definition'[i].state = "ACTIVE"
         /\ Put(i, Generated(i, definition[i].rule, From(i), To(i), Row(i)),
                GeneratedTasks(i, definition[i].rule, From(i), To(i), Made(i)))
<1>1. Generates(i) /\ definition[i].state = "ACTIVE"
  BY Zenon DEF TickGenerates, Generates, Active
<1>2. definition' = [definition EXCEPT ![i].through = To(i)]
  BY Zenon DEF TickGenerates
<1>3. definition'[i].state = definition[i].state
  BY <1>2, DefinitionTyped DEF Typed, DefinitionType
<1>4. Put(i, Generated(i, definition[i].rule, From(i), To(i), Row(i)),
          GeneratedTasks(i, definition[i].rule, From(i), To(i), Made(i)))
  BY Zenon DEF TickGenerates
<1> QED BY <1>1, <1>3, <1>4

LEMMA TickFate ==
  ASSUME Typed, NEW i \in Definitions, Tick(i), NEW k \in Definitions, NEW e \in Days
  PROVE  Fate(k, e)
<1>1. CASE occurrence' = occurrence
  BY <1>1, Same, Zenon
<1>2. CASE TickCloses(i) \/ TickEnds(i)
  <2>1. Put(i, Row(i), Made(i))
    BY <1>2, Zenon DEF TickCloses, TickEnds
  <2>2. CASE k = i
    <3>1. occurrence'[i][e] = Reconciled(i, e)
      BY <2>1, PutAt, RowAt
    <3> QED BY <2>2, <3>1, ReconciledIsFate
  <2>3. CASE k # i
    <3>1. occurrence'[k][e] = occurrence[k][e]
      BY <2>1, <2>3, PutAt
    <3> QED BY <3>1, Same
  <2> QED BY <2>2, <2>3
<1>3. CASE TickGenerates(i)
  <2>1. definition'[i].state # "NONE"
    BY <1>3, TickGeneratesFor
  <2>2. PICK r, row : row = Generated(i, r, From(i), To(i), Row(i)) /\ r = definition[i].rule
    OBVIOUS
  <2>3. PICK made : Put(i, row, made)
    BY <1>3, <2>2, TickGeneratesFor
  <2>4. CASE k = i /\ e \notin Fresh(i, r, From(i), To(i))
    <3>1. occurrence'[i][e] = Row(i)[e]
      BY <2>2, <2>3, <2>4, PutAt, GeneratedAt
    <3>2. occurrence'[i][e] = Reconciled(i, e)
      BY <3>1, RowAt
    <3> QED BY <2>4, <3>2, ReconciledIsFate
  <2>5. CASE k = i /\ e \in Fresh(i, r, From(i), To(i))
    <3>1. occurrence[i][e].status = "NONE" /\ occurrence'[i][e].status \in {"MISSED", "OPEN"}
      BY <2>2, <2>3, <2>5, PutAt, GeneratedAt
    <3> QED BY <2>1, <2>5, <3>1 DEF Fate
  <2>6. CASE k # i
    <3>1. occurrence'[k][e] = occurrence[k][e]
      BY <2>3, <2>6, PutAt
    <3> QED BY <3>1, Same
  <2> QED BY <2>4, <2>5, <2>6
<1> QED BY <1>1, <1>2, <1>3, Zenon DEF Tick, TickNothing

LEMMA AllFates ==
  ASSUME TypeOK, Blank, [Next]_vars, NEW k \in Definitions, NEW e \in Days
  PROVE  Fate(k, e)
<1>1. Typed
  BY Halves, Zenon
<1>2. CASE List \/ Crash \/ Boot \/ TimePasses \/ UNCHANGED vars
  <2>1. occurrence' = occurrence
    BY <1>2, Zenon DEF List, Crash, Boot, TimePasses, vars, records
  <2> QED BY <2>1, Same, Zenon
<1>3. ASSUME NEW i \in Definitions, Person(i) \/ Tick(i)
      PROVE  Fate(k, e)
  BY <1>1, <1>3, PersonFate, TickFate, Zenon
<1> QED BY <1>2, <1>3, Zenon DEF Next

-----------------------------------------------------------------------------
\* The invariant: a definition not made has no occurrence, the cursor accounts
\* for what it passed, and an active definition answers for every day since.

Answered ==
  \A i \in Definitions, d \in Days :
    definition[i].state = "ACTIVE" /\ definition[i].through < d /\ d <= today => d \in active[i]

Sound == TypeOK /\ Blank /\ Accounted /\ Answered

LEMMA BlankNext ==
  ASSUME TypeOK, Blank, [Next]_vars
  PROVE  Blank'
<1>1. SUFFICES ASSUME NEW i \in Definitions, NEW d \in Days, definition'[i].state = "NONE"
               PROVE  occurrence'[i][d].status = "NONE"
  BY DEF Blank
<1>2. PICK o \in OccurrenceType : o = occurrence[i][d]
  BY Halves, OccurrenceTyped
<1>3. definition[i].state = "NONE"
  BY <1>1, AllDefinitionMoves, TickGeneratesFor, Halves
     DEF DefinitionMoves, DefinedMoves, SavedMoves, EndedMoves, GeneratedMoves, States
<1>4. o.status = "NONE"
  BY <1>2, <1>3 DEF Blank
<1>5. [o EXCEPT !.task = 0].status = "NONE"
  BY <1>4 DEF OccurrenceType
<1>6. Fate(i, d)
  BY AllFates
<1> QED BY <1>1, <1>2, <1>4, <1>5, <1>6, Zenon DEF Fate, Waiting

\* No step takes an occurrence back.
LEMMA NeverNoneAgain ==
  ASSUME TypeOK, Blank, [Next]_vars, NEW i \in Definitions, NEW d \in Days,
         occurrence[i][d].status # "NONE"
  PROVE  occurrence'[i][d].status # "NONE"
<1>1. PICK o \in OccurrenceType : o = occurrence[i][d]
  BY Halves, OccurrenceTyped
<1>2. PICK p : p = [o EXCEPT !.task = 0]
  OBVIOUS
<1>3. p.status = o.status
  BY <1>2 DEF OccurrenceType
<1>4. Fate(i, d)
  BY AllFates
<1> QED BY <1>1, <1>2, <1>3, <1>4 DEF Fate

\* A tick that generates leaves no due day of its batch without an occurrence.
LEMMA BatchFilled ==
  ASSUME Typed, NEW i \in Definitions, TickGenerates(i), NEW d \in Days,
         d \in Due[definition[i].rule], From(i) <= d, d <= To(i),
         occurrence[i][d].status = "NONE"
  PROVE  occurrence'[i][d].status # "NONE"
<1>1. PICK r, row : row = Generated(i, r, From(i), To(i), Row(i)) /\ r = definition[i].rule
  OBVIOUS
<1>2. PICK made : Put(i, row, made)
  BY <1>1, TickGeneratesFor
<1>3. d \in Fresh(i, r, From(i), To(i))
  BY <1>1 DEF Fresh
<1>4. Generated(i, r, From(i), To(i), Row(i))[d].status \in {"MISSED", "OPEN"}
  BY <1>3, GeneratedAt
<1>5. occurrence'[i][d] = row[d]
  BY <1>2, PutAt
<1> QED BY <1>1, <1>4, <1>5

LEMMA AccountedNext ==
  ASSUME TypeOK, Blank, Accounted, [Next]_vars
  PROVE  Accounted'
<1>0. Typed /\ WorldType /\ Typed' /\ WorldType' /\ today \in Days
  <2>1. TypeOK'
    BY TypedNext
  <2>2. TypeOK' => Typed' /\ WorldType'
    BY Zenon DEF TypeOK, Typed, WorldType
  <2> QED BY <2>1, <2>2, Halves, Zenon DEF WorldType
<1>1. SUFFICES ASSUME NEW i \in Definitions, NEW d \in Due[definition'[i].rule],
                      since'[i] <= d, d <= definition'[i].through
               PROVE  occurrence'[i][d].status # "NONE"
  BY DEF Accounted
<1>2. /\ definition[i].rule \in Rules /\ definition[i].through \in {Unset} \cup 0 .. MaxDay
      /\ definition'[i].rule \in Rules /\ definition'[i].through \in {Unset} \cup 0 .. MaxDay
  BY <1>0 DEF Typed, DefinitionType
<1>3. d \in Days /\ d >= Start[definition'[i].rule]
  BY <1>1, <1>2, CalendarAssumption
<1>4. since[i] \in 0 .. MaxDay + 1 /\ since'[i] \in 0 .. MaxDay + 1
  BY <1>0 DEF WorldType
<1>5. ASSUME definition'[i].rule = definition[i].rule, since[i] <= d, d <= definition[i].through
      PROVE  occurrence'[i][d].status # "NONE"
  <2>1. occurrence[i][d].status # "NONE"
    BY <1>1, <1>5 DEF Accounted
  <2> QED BY <1>3, <2>1, NeverNoneAgain
<1>6. CASE definition'[i] = definition[i] /\ since'[i] = since[i]
  BY <1>1, <1>5, <1>6
<1>7. CASE DefinedMoves(i)
  BY <1>1, <1>3, <1>7 DEF DefinedMoves, Unset, Days
<1>8. CASE SavedMoves(i)
  <2>1. PICK state, r :
          /\ definition'[i].rule = r /\ definition'[i].through = Cursor(i, state)
          /\ since'[i] = IF definition[i].rule = r /\ definition[i].through = Cursor(i, state)
                         THEN since[i] ELSE Cursor(i, state) + 1
    BY <1>8 DEF SavedMoves
  <2>2. PICK c \in 0 .. MaxDay : c = Cursor(i, state)
    BY <1>0, CursorTyped
  <2>3. CASE definition[i].rule = r /\ definition[i].through = c
    BY <1>1, <1>5, <2>1, <2>2, <2>3
  <2>4. CASE ~(definition[i].rule = r /\ definition[i].through = c)
    <3>1. since'[i] = c + 1 /\ definition'[i].through = c
      BY <2>1, <2>2, <2>4
    <3> QED BY <1>1, <1>3, <3>1, BoundsAssumption DEF Days
  <2> QED BY <2>3, <2>4
<1>9. CASE EndedMoves(i)
  BY <1>1, <1>5, <1>9 DEF EndedMoves
<1>10. CASE GeneratedMoves(i)
  <2>1. /\ TickGenerates(i) /\ definition'[i].rule = definition[i].rule
        /\ definition'[i].through = To(i) /\ since'[i] = since[i]
    BY <1>10, Zenon DEF GeneratedMoves
  <2>2. CASE d <= definition[i].through
    BY <1>1, <1>5, <2>1, <2>2
  <2>3. CASE ~(d <= definition[i].through)
    <3>1. From(i) <= d
      BY <1>2, <1>3, <2>1, <2>3, BoundsAssumption DEF From, Days, Unset
    <3>2. d <= To(i) /\ d \in Due[definition[i].rule]
      BY <1>1, <2>1
    <3> QED BY <1>0, <1>3, <2>1, <3>1, <3>2, BatchFilled, NeverNoneAgain
  <2> QED BY <2>2, <2>3
<1>11. DefinitionMoves(i)
  BY AllDefinitionMoves
<1> QED BY <1>6, <1>7, <1>8, <1>9, <1>10, <1>11, Zenon DEF DefinitionMoves

\* What a step makes of the clock and of the days a definition answers for.
LEMMA ActiveMoves ==
  ASSUME TypeOK, [Next]_vars, NEW i \in Definitions, definition'[i].state = "ACTIVE"
  PROVE  /\ today' = today \/ (today' = today + 1 /\ definition' = definition)
         /\ definition[i].state = "NONE" => active'[i] = 1 .. today
         /\ definition[i].state # "NONE" => active[i] \subseteq active'[i]
         /\ definition[i].state # "NONE" /\ ~UNCHANGED vars => today' \in active'[i]
<1>1. today' = today \/ (today' = today + 1 /\ definition' = definition)
  <2>1. CASE \E k \in Definitions : Person(k)
    BY <2>1, Halves, PersonWorldTyped
  <2>2. CASE \E k \in Definitions : Tick(k)
    BY <2>2, Zenon DEF Tick, TickNothing, TickCloses, TickEnds, TickGenerates, Pass, clock
  <2>3. CASE List \/ Crash \/ Boot \/ UNCHANGED vars
    BY <2>3, Zenon DEF List, Crash, Boot, vars, clock
  <2>4. CASE TimePasses
    BY <2>4, Zenon DEF TimePasses, records
  <2> QED BY <2>1, <2>2, <2>3, <2>4, Zenon DEF Next
<1>2. CASE Remembers
  <2>1. active'[i] = IF definition[i].state = "NONE" THEN 1 .. today ELSE active[i] \cup {today'}
    BY <1>2 DEF Remembers
  <2> QED BY <1>1, <2>1
<1>3. CASE UNCHANGED vars
  <2>1. definition' = definition /\ active' = active
    BY <1>3, Zenon DEF vars, records, ghosts
  <2>2. definition[i].state # "NONE"
    BY <2>1
  <2> QED BY <1>1, <1>3, <2>1, <2>2
<1> QED BY <1>2, <1>3 DEF Next

LEMMA AnsweredNext ==
  ASSUME TypeOK, Answered, [Next]_vars
  PROVE  Answered'
<1>0. Typed /\ WorldType /\ today \in Days
  BY Halves, Zenon DEF WorldType
<1>1. SUFFICES ASSUME NEW i \in Definitions, NEW d \in Days, definition'[i].state = "ACTIVE",
                      definition'[i].through < d, d <= today'
               PROVE  d \in active'[i]
  BY DEF Answered
<1>2. definition[i].through \in {Unset} \cup 0 .. MaxDay
  BY <1>0 DEF Typed, DefinitionType
<1>3. /\ today' = today \/ (today' = today + 1 /\ definition' = definition)
      /\ definition[i].state = "NONE" => active'[i] = 1 .. today
      /\ definition[i].state # "NONE" => active[i] \subseteq active'[i]
      /\ definition[i].state # "NONE" /\ ~UNCHANGED vars => today' \in active'[i]
  BY <1>1, ActiveMoves
<1>4. ASSUME definition[i].state = "ACTIVE", definition[i].through < d, d <= today
      PROVE  d \in active'[i]
  <2>1. d \in active[i]
    BY <1>4 DEF Answered
  <2> QED BY <1>3, <1>4, <2>1
<1>5. CASE definition'[i] = definition[i]
  <2>1. CASE d <= today
    BY <1>1, <1>4, <1>5, <2>1
  <2>2. CASE ~(d <= today)
    <3>1. d = today' /\ today' # today
      BY <1>0, <1>1, <1>3, <2>2 DEF Days
    <3>2. ~UNCHANGED vars
      BY <3>1, Zenon DEF vars, clock
    <3> QED BY <1>1, <1>3, <1>5, <3>1, <3>2
  <2> QED BY <2>1, <2>2
<1>6. CASE DefinedMoves(i)
  <2>1. definition[i].state = "NONE" /\ today' = today
    BY <1>6 DEF DefinedMoves
  <2> QED BY <1>0, <1>1, <1>3, <2>1 DEF Days
<1>7. CASE SavedMoves(i)
  <2>1. PICK state : /\ definition[i].state # "NONE" /\ today' = today
                     /\ definition'[i].state = state /\ definition'[i].through = Cursor(i, state)
    BY <1>7 DEF SavedMoves
  <2>2. state = "ACTIVE"
    BY <1>1, <2>1
  <2>3. CASE definition[i].state = "ACTIVE" /\ definition[i].through # Unset
    <3>1. definition'[i].through = definition[i].through
      BY <2>1, <2>2, <2>3 DEF Cursor
    <3> QED BY <1>1, <1>4, <2>1, <2>3, <3>1
  <2>4. CASE ~(definition[i].state = "ACTIVE" /\ definition[i].through # Unset)
    <3>1. definition'[i].through = today - 1
      BY <2>1, <2>2, <2>4 DEF Cursor
    <3>2. d = today
      BY <1>0, <1>1, <2>1, <3>1 DEF Days
    <3>3. CASE UNCHANGED vars
      <4>1. definition' = definition
        BY <3>3, Zenon DEF vars, records
      <4> QED BY <1>5, <4>1
    <3>4. CASE ~UNCHANGED vars
      BY <1>3, <2>1, <3>2, <3>4
    <3> QED BY <3>3, <3>4
  <2> QED BY <2>3, <2>4
<1>8. CASE EndedMoves(i)
  BY <1>1, <1>8 DEF EndedMoves
<1>9. CASE GeneratedMoves(i)
  <2>1. /\ TickGenerates(i) /\ today' = today /\ definition[i].state = "ACTIVE"
        /\ definition'[i].through = To(i)
    BY <1>1, <1>9 DEF GeneratedMoves
  <2>2. Generates(i)
    BY <1>0, <2>1, TickGeneratesFor
  <2>3. From(i) \in Days /\ To(i) \in Days /\ From(i) <= To(i)
    BY <1>0, <2>2, BatchDays
  <2>4. definition[i].through < From(i)
    BY <1>2, <2>3 DEF From, Unset, Days
  <2>5. definition[i].through < d
    BY <1>1, <1>2, <2>1, <2>3, <2>4 DEF Days, Unset
  <2> QED BY <1>1, <1>4, <2>1, <2>5
<1>10. DefinitionMoves(i)
  BY AllDefinitionMoves
<1> QED BY <1>5, <1>6, <1>7, <1>8, <1>9, <1>10, Zenon DEF DefinitionMoves

\* The invariant holds in every state.
THEOREM AlwaysSound == Spec => []Sound
<1>1. Init => Sound
  <2>1. SUFFICES ASSUME Init PROVE Sound
    OBVIOUS
  <2>2. TypeOK
    BY <2>1, TypedInit
  <2>3. \A i \in Definitions :
          /\ definition[i].state = "NONE" /\ definition[i].through = -1
          /\ \A d \in Days : occurrence[i][d].status = "NONE"
    BY <2>1 DEF Init, NoDefinition, NoOccurrence, Unset
  <2>4. Blank /\ Answered
    BY <2>3 DEF Blank, Answered
  <2>5. Accounted
    <3>1. \A i \in Definitions : definition[i].rule \in Rules /\ since[i] = 1
      BY <2>1, BoundsAssumption DEF Init, NoDefinition
    <3> QED BY <2>3, <3>1, CalendarAssumption DEF Accounted, Days
  <2> QED BY <2>2, <2>4, <2>5 DEF Sound
<1>2. Sound /\ [Next]_vars => Sound'
  BY TypedNext, BlankNext, AccountedNext, AnsweredNext DEF Sound
<1> QED BY <1>1, <1>2, PTL DEF Spec

\* The cursor never passes a due day without an occurrence, for any calendar.
THEOREM AlwaysAccounted == Spec => []Accounted
<1>1. Sound => Accounted
  BY DEF Sound
<1> QED BY <1>1, AlwaysSound, PTL

-----------------------------------------------------------------------------
\* What was completed or skipped stays, a missed day changes only by a backfill,
\* and an occurrence keeps the rule it was made from, whatever people and the
\* worker do.
THEOREM HistoryAlwaysStands == Spec => HistoryStands
<1>1. ASSUME Sound, [Next]_vars, NEW i \in Definitions, NEW d \in Days
      PROVE  LET o == occurrence[i][d]  p == occurrence'[i][d] IN
             /\ Completed(o) \/ o.status = "SKIPPED" => p.status = o.status /\ p.done = o.done
             /\ o.status = "MISSED" => p.status \in {"MISSED", "BACKFILLED"}
             /\ o.status # "NONE" => p.status # "NONE" /\ p.rule = o.rule
  <2>1. PICK o \in OccurrenceType : o = occurrence[i][d]
    BY <1>1, Halves, OccurrenceTyped DEF Sound
  <2>2. PICK q : q = [o EXCEPT !.task = 0]
    OBVIOUS
  <2>3. q.status = o.status /\ q.done = o.done /\ q.rule = o.rule
    BY <2>2 DEF OccurrenceType
  <2>4. PICK p : p = occurrence'[i][d]
    OBVIOUS
  <2>5. \/ p = o \/ p = q
        \/ o.status = "NONE" /\ p.status # "NONE"
        \/ o.status = "MISSED" /\ p.status = "BACKFILLED" /\ p.rule = o.rule
        \/ Waiting(o) /\ p.status \in {"SKIPPED", "MISSED"} /\ p.rule = o.rule
        \/ Waiting(o) /\ p.status = "COMPLETED" /\ p.rule = o.rule
    BY <1>1, <2>1, <2>2, <2>4, AllFates, Zenon DEF Fate, Sound
  <2>6. /\ Completed(o) \/ o.status = "SKIPPED" => p.status = o.status /\ p.done = o.done
        /\ o.status = "MISSED" => p.status \in {"MISSED", "BACKFILLED"}
        /\ o.status # "NONE" => p.status # "NONE" /\ p.rule = o.rule
    <3>1. Completed(o) \/ o.status \in {"SKIPPED", "MISSED", "NONE"} => ~Waiting(o)
      BY Zenon DEF Completed, Waiting
    <3>2. Completed(o) => o.status \notin {"NONE", "MISSED"}
      BY Zenon DEF Completed
    <3> QED BY <2>3, <2>5, <3>1, <3>2, Zenon DEF Waiting
  <2> QED BY <2>1, <2>4, <2>6, Zenon
<1>2. Sound /\ [Next]_vars =>
        [\A i \in Definitions, d \in Days :
           LET o == occurrence[i][d]  p == occurrence'[i][d] IN
           /\ Completed(o) \/ o.status = "SKIPPED" => p.status = o.status /\ p.done = o.done
           /\ o.status = "MISSED" => p.status \in {"MISSED", "BACKFILLED"}
           /\ o.status # "NONE" => p.status # "NONE" /\ p.rule = o.rule]_vars
  BY <1>1, Zenon
<1> QED BY <1>2, AlwaysSound, PTL DEF Spec, HistoryStands

-----------------------------------------------------------------------------
\* While an occurrence is open and its task is done, a tick leaves the task.
LEMMA TickKeepsTask ==
  ASSUME Typed, NEW k \in Definitions, Tick(k), NEW i \in Definitions, NEW d \in Days,
         occurrence[i][d].status = "OPEN", Finished(i, d)
  PROVE  occurrence'[i][d].task = occurrence[i][d].task /\ tasks'[i][d] = tasks[i][d]
<1>1. CASE TickNothing(k)
  <2>1. occurrence' = occurrence /\ tasks' = tasks
    BY <1>1, Zenon DEF TickNothing
  <2> QED BY <2>1
<1>2. Row(i)[d].task = occurrence[i][d].task /\ Made(i)[d] = tasks[i][d]
  <2>1. Made(i)[d] = tasks[i][d]
    BY RowAt, Zenon DEF Closed, Expired
  <2> QED BY <2>1, RowAt, ReconciledTyped
<1>3. ASSUME NEW row, NEW made, Put(k, row, made),
             k = i => row[d].task = occurrence[i][d].task /\ made[d] = tasks[i][d]
      PROVE  occurrence'[i][d].task = occurrence[i][d].task /\ tasks'[i][d] = tasks[i][d]
  BY <1>3, PutAt
<1>4. CASE TickCloses(k) \/ TickEnds(k)
  <2>1. Put(k, Row(k), Made(k))
    BY <1>4, Zenon DEF TickCloses, TickEnds
  <2> QED BY <1>2, <1>3, <2>1
<1>5. CASE TickGenerates(k)
  <2>1. PICK r, row, made :
          /\ row = Generated(k, r, From(k), To(k), Row(k))
          /\ made = GeneratedTasks(k, r, From(k), To(k), Made(k))
          /\ Put(k, row, made)
    BY <1>5, TickGeneratesFor
  <2>2. ASSUME k = i
        PROVE  row[d].task = occurrence[i][d].task /\ made[d] = tasks[i][d]
    <3>1. d \notin Fresh(k, r, From(k), To(k))
      BY <2>2 DEF Fresh
    <3>2. row[d] = Row(k)[d] /\ made[d] = Made(k)[d]
      <4>1. /\ Generated(k, r, From(k), To(k), Row(k))[d] = Row(k)[d]
            /\ GeneratedTasks(k, r, From(k), To(k), Made(k))[d] = Made(k)[d]
        BY <3>1, Zenon DEF Generated, GeneratedTasks, Opened
      <4> QED BY <2>1, <4>1
    <3> QED BY <1>2, <2>2, <3>2
  <2> QED BY <1>3, <2>1, <2>2
<1> QED BY <1>1, <1>4, <1>5, Zenon DEF Tick

LEMMA ActCounts ==
  ASSUME WorldType, Act
  PROVE  spent'.acts # spent.acts
BY DEF WorldType, Act

\* While an occurrence is open and its task is done, only a person changes the
\* task, and the occurrence can only become completed.
THEOREM DoneAlwaysKept == Spec => DoneKept
<1>1. ASSUME Sound, [Next]_vars, NEW i \in Definitions, NEW d \in Days,
             occurrence[i][d].status = "OPEN", Finished(i, d)
      PROVE  /\ occurrence'[i][d].status \in {"OPEN", "COMPLETED"}
             /\ TaskOf(i, d).status = TaskOf(i, d)'.status \/ spent'.acts # spent.acts
  <2>0. TypeOK /\ Typed /\ WorldType /\ Blank
    BY <1>1, Halves DEF Sound
  <2>1. PICK o \in OccurrenceType : o = occurrence[i][d]
    BY <2>0, OccurrenceTyped
  <2>2. occurrence'[i][d].status \in {"OPEN", "COMPLETED"}
    <3>1. PICK q : q = [o EXCEPT !.task = 0]
      OBVIOUS
    <3>2. q.status = o.status
      BY <3>1 DEF OccurrenceType
    <3>3. PICK p : p = occurrence'[i][d]
      OBVIOUS
    <3>4. \/ p = o \/ p = q \/ o.status = "NONE" \/ o.status = "MISSED" \/ p.status = "COMPLETED"
      BY <1>1, <2>0, <2>1, <3>1, <3>3, AllFates, Zenon DEF Fate
    <3> QED BY <1>1, <2>1, <3>2, <3>3, <3>4, Zenon
  <2>3. TaskOf(i, d).status = TaskOf(i, d)'.status \/ spent'.acts # spent.acts
    <3>1. CASE occurrence' = occurrence /\ tasks' = tasks
      BY <3>1, Zenon DEF TaskOf
    <3>2. CASE \E k \in Definitions : Person(k)
      <4>1. Act
        BY <2>0, <3>2, PersonFrame, Zenon DEF PersonWorld
      <4> QED BY <2>0, <4>1, ActCounts
    <3>3. CASE \E k \in Definitions : Tick(k)
      <4>1. occurrence'[i][d].task = occurrence[i][d].task /\ tasks'[i][d] = tasks[i][d]
        BY <1>1, <2>0, <3>3, TickKeepsTask
      <4> QED BY <4>1, Zenon DEF TaskOf
    <3>4. CASE List \/ Crash \/ Boot \/ TimePasses \/ UNCHANGED vars
      BY <3>1, <3>4, Zenon DEF List, Crash, Boot, TimePasses, vars, records
    <3> QED BY <1>1, <3>2, <3>3, <3>4, Zenon DEF Next
  <2> QED BY <2>2, <2>3
<1>2. Sound /\ [Next]_vars =>
        [\A i \in Definitions, d \in Days :
           occurrence[i][d].status = "OPEN" /\ Finished(i, d) =>
             /\ occurrence'[i][d].status \in {"OPEN", "COMPLETED"}
             /\ TaskOf(i, d).status = TaskOf(i, d)'.status \/ spent'.acts # spent.acts]_vars
  BY <1>1, Zenon
<1> QED BY <1>2, AlwaysSound, PTL DEF Spec, DoneKept

-----------------------------------------------------------------------------
\* Only a tick that generates makes occurrences, those of the days of its batch.
LEMMA NewAreFresh ==
  ASSUME Typed, NEW i \in Definitions, Tick(i), NEW d \in New(i)
  PROVE  TickGenerates(i) /\ d \in Days /\ From(i) <= d /\ d <= To(i)
<1>1. d \in Days /\ occurrence[i][d].status = "NONE" /\ occurrence'[i][d].status # "NONE"
  BY DEF New
<1>2. CASE TickNothing(i)
  <2>1. occurrence' = occurrence
    BY <1>2, Zenon DEF TickNothing
  <2> QED BY <1>1, <2>1
<1>3. Reconciled(i, d).status = "NONE"
  BY <1>1, ReconciledFate DEF Waiting
<1>4. CASE TickCloses(i) \/ TickEnds(i)
  <2>1. Put(i, Row(i), Made(i))
    BY <1>4, Zenon DEF TickCloses, TickEnds
  <2>2. occurrence'[i][d] = Reconciled(i, d)
    BY <1>1, <2>1, PutAt, RowAt
  <2> QED BY <1>1, <1>3, <2>2
<1>5. CASE TickGenerates(i)
  <2>1. PICK r, row, made :
          row = Generated(i, r, From(i), To(i), Row(i)) /\ Put(i, row, made)
    BY <1>5, TickGeneratesFor
  <2>2. occurrence'[i][d] = row[d]
    BY <2>1, PutAt
  <2>3. d \in Fresh(i, r, From(i), To(i))
    <3>1. SUFFICES ASSUME d \notin Fresh(i, r, From(i), To(i)) PROVE FALSE
      OBVIOUS
    <3>2. row[d] = Row(i)[d]
      BY <1>1, <2>1, <3>1, GeneratedAt
    <3> QED BY <1>1, <1>3, <2>2, <3>2, RowAt
  <2> QED BY <1>1, <1>5, <2>3 DEF Fresh
<1> QED BY <1>2, <1>4, <1>5, Zenon DEF Tick

\* The worker makes no occurrence for a day on which the definition was paused
\* or ended all day.
THEOREM PauseAlwaysMakesNothing == Spec => PauseMakesNothing
<1>1. ASSUME Sound, NEW i \in Definitions, Tick(i), NEW d \in New(i)
      PROVE  d \in active[i]
  <2>0. Typed /\ WorldType /\ today \in Days
    BY <1>1, Halves, Zenon DEF Sound, WorldType
  <2>1. TickGenerates(i) /\ d \in Days /\ From(i) <= d /\ d <= To(i)
    BY <1>1, <2>0, NewAreFresh
  <2>2. Generates(i) /\ definition[i].state = "ACTIVE"
    BY <2>0, <2>1, TickGeneratesFor
  <2>3. /\ From(i) \in Days /\ To(i) \in Days /\ To(i) <= today
        /\ definition[i].through \in {Unset} \cup 0 .. MaxDay
    BY <2>0, <2>2, BatchDays
  <2>4. definition[i].through < From(i)
    BY <2>3 DEF From, Unset, Days
  <2>5. definition[i].through < d /\ d <= today
    BY <2>0, <2>1, <2>3, <2>4 DEF Days, Unset
  <2> QED BY <1>1, <2>1, <2>2, <2>5 DEF Sound, Answered
<1>2. Sound /\ [Next]_vars =>
        [\A i \in Definitions : Tick(i) => New(i) \subseteq active[i]]_vars
  BY <1>1, Zenon
<1> QED BY <1>2, AlwaysSound, PTL DEF Spec, PauseMakesNothing

\* The worker opens nothing once the limit of completed occurrences is reached.
THEOREM LimitAlwaysHolds == Spec => LimitHolds
<1>1. ASSUME Sound, NEW i \in Definitions, Tick(i), New(i) # {}, definition[i].limit > 0
      PROVE  Cardinality({d \in Days : Completed(occurrence[i][d])
                            \/ (Waiting(occurrence[i][d]) /\ Finished(i, d))}) < definition[i].limit
  <2>0. Typed
    BY <1>1, Halves DEF Sound
  <2>1. PICK e \in New(i) : TickGenerates(i)
    BY <1>1, <2>0, NewAreFresh
  <2>2. ~LimitReached(i, Row(i))
    BY <2>0, <2>1, TickGeneratesFor DEF Generates, Ends
  <2>3. ASSUME NEW d \in Days
        PROVE  Completed(Row(i)[d]) <=>
                 Completed(occurrence[i][d]) \/ (Waiting(occurrence[i][d]) /\ Finished(i, d))
    <3>1. PICK o \in OccurrenceType : o = occurrence[i][d]
      BY <2>0, OccurrenceTyped
    <3>2. PICK p : p = Reconciled(i, d)
      OBVIOUS
    <3>3. \/ p = o /\ ~(Waiting(o) /\ Finished(i, d))
          \/ Waiting(o) /\ ~Finished(i, d) /\ p.status = "MISSED"
          \/ Waiting(o) /\ Finished(i, d) /\ p.status = "COMPLETED"
      <4>1. \/ p = o
            \/ Waiting(o) /\ ~Finished(i, d) /\ p.status = "MISSED"
            \/ Waiting(o) /\ Finished(i, d) /\ p.status = "COMPLETED"
        BY <2>0, <3>1, <3>2, ReconciledFate, Zenon
      <4>2. Waiting(o) /\ Finished(i, d) => p.status = "COMPLETED"
        <5>1. Waiting(o) /\ Finished(i, d) => p = [o EXCEPT !.status = "COMPLETED", !.done = TRUE]
          BY <3>1, <3>2 DEF Reconciled, Expired
        <5> QED BY <5>1 DEF OccurrenceType
      <4> QED BY <4>1, <4>2, Zenon
    <3>4. Completed(p) <=> Completed(o) \/ (Waiting(o) /\ Finished(i, d))
      <4>1. Waiting(o) => ~Completed(o)
        BY Zenon DEF Waiting, Completed
      <4>2. p.status = "COMPLETED" => Completed(p)
        BY Zenon DEF Completed
      <4>3. p.status = "MISSED" => ~Completed(p)
        BY Zenon DEF Completed
      <4> QED BY <3>3, <4>1, <4>2, <4>3, Zenon
    <3> QED BY <3>1, <3>2, <3>4, RowAt, Zenon
  <2>4. {d \in Days : Completed(Row(i)[d])} =
          {d \in Days : Completed(occurrence[i][d])
                          \/ (Waiting(occurrence[i][d]) /\ Finished(i, d))}
    BY <2>3, Zenon
  <2>5. Cardinality({d \in Days : Completed(Row(i)[d])}) \in Nat
    <3>1. IsFiniteSet(Days)
      BY FS_Interval, BoundsAssumption DEF Days
    <3>2. IsFiniteSet({d \in Days : Completed(Row(i)[d])})
      <4>1. {d \in Days : Completed(Row(i)[d])} \subseteq Days
        BY Zenon
      <4> QED BY <3>1, <4>1, FS_Subset, Zenon
    <3> QED BY <3>2, FS_CardinalityType, Zenon
  <2>6. ~(Cardinality({d \in Days : Completed(Row(i)[d])}) >= definition[i].limit)
    BY <1>1, <2>2, Zenon DEF LimitReached
  <2>7. definition[i].limit \in Nat
    <3>1. definition[i].limit \in Limits \cup {0}
      BY <2>0, DefinitionTyped DEF DefinitionType
    <3>2. 0 \in Nat
      OBVIOUS
    <3> QED BY <3>1, <3>2, BoundsAssumption, Zenon
  <2>8. PICK n \in Nat : n = Cardinality({d \in Days : Completed(Row(i)[d])})
    BY <2>5
  <2>9. n < definition[i].limit
    BY <2>6, <2>7, <2>8
  <2> QED BY <2>4, <2>8, <2>9, Zenon
<1>2. Sound /\ [Next]_vars =>
        [\A i \in Definitions : Tick(i) /\ New(i) # {} /\ definition[i].limit > 0 =>
           Cardinality({d \in Days : Completed(occurrence[i][d])
                          \/ (Waiting(occurrence[i][d]) /\ Finished(i, d))}) < definition[i].limit]_vars
  BY <1>1, Zenon
<1> QED BY <1>2, AlwaysSound, PTL DEF Spec, LimitHolds
=============================================================================
