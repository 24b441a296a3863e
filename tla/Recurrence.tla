----------------------------- MODULE Recurrence -----------------------------
(***************************************************************************)
(* Recurring tasks: definitions, their occurrences and tasks, and the      *)
(* worker of the host that opens and closes occurrences.                   *)
(*                                                                         *)
(* Every action is one transaction of the host.  A request that names      *)
(* another version than the stored one changes nothing and is left out.    *)
(* A calendar rule is what it says of each day; time is counted in days of *)
(* two parts, so that a window of some hours may close within its day.     *)
(***************************************************************************)
EXTENDS Integers, Sequences, FiniteSets

CONSTANTS
  Definitions,
  Rules,
  Due,         \* Due[r]: the days of rule r (occurrenceDays)
  Start,       \* Start[r]: its startDate
  Until,       \* Until[r][d]: the day on which the window of day d closes
  Closes,      \* Closes[r]: closeIncomplete
  Limits,      \* the limits endAfterCompleted takes; 0 stands for none
  Scan,        \* the days a tick generates at most (366)
  MaxDay, MaxTasks, MaxActs, MaxCrashes

Days == 1 .. MaxDay
Unset == -1

ASSUME CalendarAssumption ==
  /\ Due \in [Rules -> SUBSET Days]
  /\ Start \in [Rules -> Days]
  /\ Until \in [Rules -> [Days -> Nat]]
  /\ Closes \in [Rules -> BOOLEAN]
  /\ \A r \in Rules, d \in Days : Until[r][d] >= d /\ (d \in Due[r] => d >= Start[r])

ASSUME BoundsAssumption ==
  /\ Rules # {} /\ Limits \subseteq Nat
  /\ Scan \in Nat \ {0} /\ MaxDay \in Nat \ {0} /\ MaxTasks \in Nat \ {0}
  /\ MaxActs \in Nat /\ MaxCrashes \in Nat

VARIABLES
  today, late,   \* the day, and whether its first part is over
  definition,    \* definition[i]: the recurrence
  occurrence,    \* occurrence[i][d]: its occurrence of a day
  tasks,         \* tasks[i][d]: the tasks made for that day, in their order
  gone,          \* the definitions whose project is deleted
  up,            \* the host runs
  left,          \* the definitions that a pass of the worker has yet to tick
  spent,         \* what people did, and crashes (bounds)
  since,         \* since[i]: the day from which the cursor accounts (ghost)
  active         \* active[i]: the days definition i answers for (ghost)

clock == <<today, late>>
records == <<definition, occurrence, tasks, gone>>
world == <<up, left, spent>>
ghosts == <<since, active>>
vars == <<clock, records, world, ghosts>>

States == {"ACTIVE", "PAUSED", "ENDED"}
NoDefinition ==
  [state |-> "NONE", deleted |-> FALSE, rule |-> CHOOSE r \in Rules : TRUE,
   limit |-> 0, through |-> Unset]
NoOccurrence ==
  [status |-> "NONE", rule |-> CHOOSE r \in Rules : TRUE, task |-> 0, done |-> FALSE]

Task(status) == [status |-> status, deleted |-> FALSE, archived |-> FALSE]

-----------------------------------------------------------------------------
\* The window of a day is over (occurrenceExpiry).
Over(r, d) ==
  \/ today > Until[r][d]
  \/ today = Until[r][d] /\ (late \/ Until[r][d] > d)

Current(i) == definition[i].state # "NONE" /\ ~definition[i].deleted

\* tx.list leaves deleted tasks out, and a purged one is no longer named.
TaskOf(i, d) == tasks[i][d][occurrence[i][d].task]
Found(i, d) == occurrence[i][d].task > 0 /\ ~TaskOf(i, d).deleted
Finished(i, d) == Found(i, d) /\ TaskOf(i, d).status = "DONE"

Completed(o) == o.status = "COMPLETED" \/ (o.status = "BACKFILLED" /\ o.done)
Waiting(o) == o.status = "OPEN" \/ (o.status = "BACKFILLED" /\ ~o.done)

LimitReached(i, row) ==
  definition[i].limit > 0
  /\ Cardinality({d \in Days : Completed(row[d])}) >= definition[i].limit

\* What a tick makes of the occurrences there are: first what was done, then
\* what is over.
Expired(i, d) ==
  Waiting(occurrence[i][d]) /\ ~Finished(i, d) /\ Over(occurrence[i][d].rule, d)

Reconciled(i, d) ==
  LET o == occurrence[i][d] IN
  CASE Expired(i, d) -> [o EXCEPT !.status = "MISSED"]
    [] Waiting(o) /\ Finished(i, d) -> [o EXCEPT !.status = "COMPLETED", !.done = TRUE]
    [] OTHER -> o

Closed(i, d) ==
  LET o == occurrence[i][d] IN
  IF Expired(i, d) /\ Found(i, d) /\ Closes[o.rule]
  THEN [tasks[i][d] EXCEPT ![o.task] = [@ EXCEPT !.status = "CANCELED", !.archived = TRUE]]
  ELSE tasks[i][d]

\* The days of a rule without an occurrence yet: those whose window is open get
\* a task, the others are recorded as missed.
Fresh(i, r, from, to) ==
  {d \in Due[r] : from <= d /\ d <= to /\ occurrence[i][d].status = "NONE"}
Opened(i, r, from, to) == {d \in Fresh(i, r, from, to) : ~Over(r, d)}

Generated(i, r, from, to, row) ==
  [d \in Days |->
     IF d \notin Fresh(i, r, from, to) THEN row[d]
     ELSE IF Over(r, d) THEN [status |-> "MISSED", rule |-> r, task |-> 0, done |-> FALSE]
     ELSE [status |-> "OPEN", rule |-> r, task |-> 1, done |-> FALSE]]

GeneratedTasks(i, r, from, to, made) ==
  [d \in Days |-> IF d \in Opened(i, r, from, to) THEN <<Task("TODO")>> ELSE made[d]]

-----------------------------------------------------------------------------
(* What people do. *)

Act ==
  /\ up /\ spent.acts < MaxActs
  /\ spent' = [spent EXCEPT !.acts = @ + 1]
  /\ UNCHANGED <<clock, up, left>>

Put(i, row, made) ==
  /\ occurrence' = [occurrence EXCEPT ![i] = row]
  /\ tasks' = [tasks EXCEPT ![i] = made]

Define(i, state, r, limit) ==
  /\ Act /\ definition[i].state = "NONE" /\ i \notin gone
  /\ definition' = [definition EXCEPT ![i] =
       [state |-> state, deleted |-> FALSE, rule |-> r, limit |-> limit, through |-> Unset]]
  /\ since' = [since EXCEPT ![i] = 1]
  /\ UNCHANGED gone

Create(i, state, r, limit) ==
  Define(i, state, r, limit) /\ UNCHANGED <<occurrence, tasks>>

\* A new repeating task: the definition, and its occurrence of today if it has one.
Draft(i, state, r, limit) ==
  /\ Define(i, state, r, limit)
  /\ IF state = "ACTIVE"
     THEN Put(i, Generated(i, r, today, today, occurrence[i]),
                 GeneratedTasks(i, r, today, today, tasks[i]))
     ELSE UNCHANGED <<occurrence, tasks>>

\* A task there is becomes the first occurrence of a new definition.
Convert(i, state, r, limit, status) ==
  /\ Define(i, state, r, limit)
  /\ Put(i, [occurrence[i] EXCEPT ![Start[r]] =
               [status |-> IF status = "DONE" THEN "COMPLETED" ELSE "OPEN",
                rule |-> r, task |-> 1, done |-> status = "DONE"]],
            [tasks[i] EXCEPT ![Start[r]] = <<Task(status)>>])

CursorStays(i, state) ==
  IF definition[i].through # Unset THEN definition[i].through ELSE today - 1

\* The cursor stays while the state does, and otherwise restarts with today.
Cursor(i, state) ==
  IF definition[i].state = state /\ definition[i].through # Unset
  THEN definition[i].through ELSE today - 1

Save(i, state, r, limit, deleted) ==
  /\ Act /\ definition[i].state # "NONE" /\ i \notin gone
  /\ definition' = [definition EXCEPT ![i] =
       [state |-> state, deleted |-> deleted, rule |-> r, limit |-> limit,
        through |-> Cursor(i, state)]]
  /\ since' = [since EXCEPT ![i] =
       IF definition[i].rule = r /\ definition[i].through = Cursor(i, state)
       THEN @ ELSE Cursor(i, state) + 1]
  /\ UNCHANGED <<occurrence, tasks, gone>>

\* "Generate" for some days up to today, none of them after it.
Generate(i, from, to) ==
  LET r == definition[i].rule IN
  /\ Act /\ Current(i) /\ definition[i].state = "ACTIVE"
  /\ from <= to /\ to <= today /\ to - from < Scan
  /\ ~LimitReached(i, occurrence[i])
  /\ i \in gone => Opened(i, r, from, to) = {}
  /\ Put(i, Generated(i, r, from, to, occurrence[i]),
            GeneratedTasks(i, r, from, to, tasks[i]))
  /\ UNCHANGED <<definition, gone, since>>

CancelableAnyway(i, d) == TRUE
Cancelable(i, d) ==
  occurrence[i][d].task > 0 => Found(i, d) /\ ~Finished(i, d)

SkipOccurrence(i, d) ==
  LET o == occurrence[i][d] IN
  /\ Act /\ Current(i) /\ o.status = "OPEN" /\ Cancelable(i, d)
  /\ occurrence' = [occurrence EXCEPT ![i][d].status = "SKIPPED"]
  /\ tasks' = IF o.task > 0 THEN [tasks EXCEPT ![i][d][o.task].status = "CANCELED"] ELSE tasks
  /\ UNCHANGED <<definition, gone, since>>

\* A missed day is made good, done or still to be done, with a task of its own.
Backfill(i, d, done) ==
  LET o == occurrence[i][d]  n == Len(tasks[i][d]) + 1 IN
  /\ Act /\ Current(i) /\ o.status = "MISSED" /\ i \notin gone /\ n <= MaxTasks
  /\ occurrence' = [occurrence EXCEPT ![i][d] =
       [o EXCEPT !.status = "BACKFILLED", !.task = n, !.done = done]]
  /\ tasks' = [tasks EXCEPT ![i][d] = Append(@, Task(IF done THEN "DONE" ELSE "TODO"))]
  /\ UNCHANGED <<definition, gone, since>>

-----------------------------------------------------------------------------
(* What people do with the tasks and the project. *)

TaskAct(i, d, n) ==
  /\ Act /\ n \in DOMAIN tasks[i][d] /\ UNCHANGED <<definition, gone, since>>

SetStatus(i, d, n, status) ==
  /\ TaskAct(i, d, n) /\ ~tasks[i][d][n].deleted /\ tasks[i][d][n].status # status
  /\ tasks' = [tasks EXCEPT ![i][d][n].status = status]
  /\ UNCHANGED occurrence

SetDeleted(i, d, n, deleted) ==
  /\ TaskAct(i, d, n)
  /\ tasks[i][d][n].deleted # deleted /\ tasks[i][d][n].status # "PURGED"
  /\ tasks' = [tasks EXCEPT ![i][d][n].deleted = deleted]
  /\ UNCHANGED occurrence

\* The occurrence of a purged task no longer names it.
Purge(i, d, n) ==
  /\ TaskAct(i, d, n)
  /\ tasks[i][d][n].deleted /\ tasks[i][d][n].status # "PURGED"
  /\ tasks' = [tasks EXCEPT ![i][d][n].status = "PURGED"]
  /\ occurrence' = IF occurrence[i][d].task = n
                   THEN [occurrence EXCEPT ![i][d].task = 0] ELSE occurrence

DeleteProject(i) ==
  Act /\ i \notin gone /\ gone' = gone \cup {i}
  /\ UNCHANGED <<definition, occurrence, tasks, since>>
RestoreProject(i) ==
  Act /\ i \in gone /\ gone' = gone \ {i}
  /\ UNCHANGED <<definition, occurrence, tasks, since>>

-----------------------------------------------------------------------------
(* The worker: it lists the definitions, then ticks each of them. *)

List ==
  /\ up /\ left = {}
  /\ left' = {i \in Definitions : Current(i)}
  /\ UNCHANGED <<clock, records, up, spent, since>>

Pass(i) ==
  /\ up /\ i \in left /\ left' = left \ {i}
  /\ UNCHANGED <<clock, up, spent, gone, since>>

FromToday(i) ==
  IF definition[i].through = Unset THEN today ELSE definition[i].through + 1
From(i) ==
  IF definition[i].through = Unset THEN Start[definition[i].rule]
  ELSE definition[i].through + 1
To(i) == IF From(i) + Scan - 1 < today THEN From(i) + Scan - 1 ELSE today

RowOfActive(i) ==
  [d \in Days |-> IF definition[i].state = "ACTIVE" THEN Reconciled(i, d) ELSE occurrence[i][d]]
Row(i) == [d \in Days |-> Reconciled(i, d)]
Made(i) == [d \in Days |-> Closed(i, d)]
EndsAsStored(i) == LimitReached(i, occurrence[i])
\* Completion is reconciled before the limit is looked at.
Ends(i) == LimitReached(i, Row(i))
Active(i) == Current(i) /\ definition[i].state = "ACTIVE"
Generates(i) == Active(i) /\ ~Ends(i) /\ From(i) <= today
Throws(i) ==
  Generates(i) /\ i \in gone /\ Opened(i, definition[i].rule, From(i), To(i)) # {}

\* The error of one definition defers that definition alone.
TickNothing(i) ==
  Pass(i) /\ (~Current(i) \/ Throws(i)) /\ UNCHANGED <<definition, occurrence, tasks>>

TickCloses(i) ==
  /\ Pass(i) /\ Current(i) /\ ~Generates(i) /\ ~(Active(i) /\ Ends(i))
  /\ Put(i, Row(i), Made(i)) /\ UNCHANGED definition

TickEnds(i) ==
  /\ Pass(i) /\ Active(i) /\ Ends(i)
  /\ Put(i, Row(i), Made(i))
  /\ definition' = [definition EXCEPT ![i].state = "ENDED"]

TickGenerates(i) ==
  LET r == definition[i].rule IN
  /\ Pass(i) /\ Generates(i) /\ ~Throws(i)
  /\ Put(i, Generated(i, r, From(i), To(i), Row(i)),
            GeneratedTasks(i, r, From(i), To(i), Made(i)))
  /\ definition' = [definition EXCEPT ![i].through = To(i)]

Tick(i) == TickNothing(i) \/ TickCloses(i) \/ TickEnds(i) \/ TickGenerates(i)

Crash ==
  /\ up /\ spent.crashes < MaxCrashes
  /\ up' = FALSE /\ left' = {} /\ spent' = [spent EXCEPT !.crashes = @ + 1]
  /\ UNCHANGED <<clock, records, since>>

Boot == ~up /\ up' = TRUE /\ UNCHANGED <<clock, records, left, spent, since>>

TimePasses ==
  /\ IF late THEN today < MaxDay /\ today' = today + 1 ELSE UNCHANGED today
  /\ late' = ~late
  /\ UNCHANGED <<records, world, since>>

Init ==
  /\ today = 1 /\ late = FALSE
  /\ definition = [i \in Definitions |-> NoDefinition]
  /\ occurrence = [i \in Definitions |-> [d \in Days |-> NoOccurrence]]
  /\ tasks = [i \in Definitions |-> [d \in Days |-> <<>>]]
  /\ gone = {} /\ up = TRUE /\ left = {}
  /\ spent = [acts |-> 0, crashes |-> 0]
  /\ since = [i \in Definitions |-> 1]
  /\ active = [i \in Definitions |-> {}]

\* What the properties remember: the days a definition has answered for.
Remembers ==
  active' = [i \in Definitions |->
    IF definition'[i].state # "ACTIVE" THEN active[i]
    ELSE IF definition[i].state = "NONE" THEN 1 .. today
    ELSE active[i] \cup {today'}]

Person(i) ==
  \/ \E state \in States, r \in Rules, limit \in Limits :
       \/ Create(i, state, r, limit) \/ Draft(i, state, r, limit)
       \/ \E status \in {"TODO", "DONE"} : Convert(i, state, r, limit, status)
       \/ \E deleted \in BOOLEAN : Save(i, state, r, limit, deleted)
  \/ \E from, to \in Days : Generate(i, from, to)
  \/ \E d \in Days : SkipOccurrence(i, d) \/ \E done \in BOOLEAN : Backfill(i, d, done)
  \/ \E d \in Days : \E n \in 1 .. MaxTasks :
       \/ \E status \in {"TODO", "DONE", "CANCELED"} : SetStatus(i, d, n, status)
       \/ \E deleted \in BOOLEAN : SetDeleted(i, d, n, deleted)
       \/ Purge(i, d, n)
  \/ DeleteProject(i) \/ RestoreProject(i)

Next ==
  /\ \/ \E i \in Definitions : Person(i) \/ Tick(i)
     \/ List \/ Crash \/ Boot \/ TimePasses
  /\ Remembers

Spec == Init /\ [][Next]_vars

\* The worker runs every minute while the host is up, and the host is started
\* again; people and time need not move.
FairSpec ==
  /\ Spec /\ WF_vars(List /\ Remembers) /\ WF_vars(Boot /\ Remembers)
  /\ \A i \in Definitions : WF_vars(Tick(i) /\ Remembers)

-----------------------------------------------------------------------------
DefinitionType ==
  [state : States \cup {"NONE"}, deleted : BOOLEAN, rule : Rules, limit : Limits \cup {0},
   through : {Unset} \cup 0 .. MaxDay]
OccurrenceType ==
  [status : {"NONE", "OPEN", "COMPLETED", "MISSED", "SKIPPED", "BACKFILLED"},
   rule : Rules, task : 0 .. MaxTasks, done : BOOLEAN]
TaskType ==
  [status : {"TODO", "DONE", "CANCELED", "PURGED"}, deleted : BOOLEAN, archived : BOOLEAN]

RowType == [Days -> OccurrenceType]
MadeType == [Days -> Seq(TaskType)]

\* An occurrence names a task that was made for its day.
FitsIn(row, made) ==
  \A d \in Days : row[d].task <= Len(made[d]) /\ Len(made[d]) <= MaxTasks

TypeOK ==
  /\ definition \in [Definitions -> DefinitionType]
  /\ occurrence \in [Definitions -> RowType]
  /\ tasks \in [Definitions -> MadeType]
  /\ \A i \in Definitions : FitsIn(occurrence[i], tasks[i])
  /\ today \in Days /\ late \in BOOLEAN
  /\ gone \in SUBSET Definitions /\ up \in BOOLEAN /\ left \in SUBSET Definitions
  /\ spent \in [acts : 0 .. MaxActs, crashes : 0 .. MaxCrashes]
  /\ since \in [Definitions -> 0 .. MaxDay + 1]
  /\ active \in [Definitions -> SUBSET Days]

\* The cursor never passes a due day without an occurrence, whatever people
\* generate, skip or edit and wherever a pass of the worker is cut short.
Accounted ==
  \A i \in Definitions : \A d \in Due[definition[i].rule] :
    since[i] <= d /\ d <= definition[i].through => occurrence[i][d].status # "NONE"

\* What a person has done is kept: while an occurrence is open and its task is
\* done, nothing marks it missed or skipped, nor cancels the task, even when the
\* window closed before the tick.
DoneKept ==
  [][\A i \in Definitions, d \in Days :
       occurrence[i][d].status = "OPEN" /\ Finished(i, d) =>
         /\ occurrence'[i][d].status \in {"OPEN", "COMPLETED"}
         /\ TaskOf(i, d).status = TaskOf(i, d)'.status \/ spent'.acts # spent.acts]_vars

\* History stands: what was completed or skipped stays so, a missed day only
\* changes by a backfill, and every occurrence keeps the rule it was made from.
HistoryStands ==
  [][\A i \in Definitions, d \in Days :
       LET o == occurrence[i][d]  p == occurrence'[i][d] IN
       /\ Completed(o) \/ o.status = "SKIPPED" => p.status = o.status /\ p.done = o.done
       /\ o.status = "MISSED" => p.status \in {"MISSED", "BACKFILLED"}
       /\ o.status # "NONE" => p.status # "NONE" /\ p.rule = o.rule]_vars

New(i) ==
  {d \in Days : occurrence[i][d].status = "NONE" /\ occurrence'[i][d].status # "NONE"}

\* "A paused interval must not manufacture expected occurrences"
\* (docs/adr/0052): the worker makes none for a day on which the definition was
\* paused or ended all day.
PauseMakesNothing ==
  [][\A i \in Definitions : Tick(i) => New(i) \subseteq active[i]]_vars

\* The worker opens nothing once the limit of completed occurrences is reached,
\* counting those done just before the tick.
LimitHolds ==
  [][\A i \in Definitions : Tick(i) /\ New(i) # {} /\ definition[i].limit > 0 =>
       Cardinality({d \in Days : Completed(occurrence[i][d])
                      \/ (Waiting(occurrence[i][d]) /\ Finished(i, d))}) < definition[i].limit]_vars

\* The worker closes every open occurrence whose window is over, paused or not,
\* and opens every due day, however far behind it is and though the host restarts.
Behind(i, d) ==
  /\ Active(i) /\ d \in Due[definition[i].rule]
  /\ definition[i].through < d /\ d <= today /\ occurrence[i][d].status = "NONE"
WorkerCatchesUp ==
  \A i \in Definitions, d \in Days :
    /\ occurrence[i][d].status = "OPEN" /\ Over(occurrence[i][d].rule, d)
         ~> occurrence[i][d].status # "OPEN" \/ ~Current(i) \/ i \in gone
    /\ Behind(i, d) ~> ~Behind(i, d) \/ i \in gone

-----------------------------------------------------------------------------
\* "Backfill a missed occurrence explicitly when appropriate. An optional
\* historical completion time is stored" (docs/WORKFLOWS.md): a backfilled
\* occurrence stays backfilled until its task is done.
BackfillStands ==
  [][\A i \in Definitions, d \in Days :
       occurrence[i][d].status = "BACKFILLED" =>
         occurrence'[i][d].status \in {"BACKFILLED", "COMPLETED"}]_vars
=============================================================================
