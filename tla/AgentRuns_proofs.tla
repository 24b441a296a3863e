-------------------------- MODULE AgentRuns_proofs --------------------------
(***************************************************************************)
(* Facts of AgentRuns that hold for any runs, dispatchers, calls, answers, *)
(* limits and bounds: types, the end of a run, and one run at a time.      *)
(***************************************************************************)
EXTENDS AgentRuns, FiniteSetTheorems, TLAPS

\* Where a dispatcher works for a run in a conversation, and where it has a
\* step: the run whose attempt it spends.
Conversing == {"loop", "execute", "persist", "after"}
Stepping == Conversing \cup {"candidate", "sent", "release"}
Begun == {"NONE", "WAITING_APPROVAL"}      \* not approved yet

\* What a dispatcher x at work relies on in the runs rn: its run was approved by
\* a person and is not the child of another run.
Placed(x, rn) ==
  x.pc # "idle" =>
    /\ x.run \in Runs /\ rn[x.run].status \notin Begun /\ rn[x.run].parent = NoRun
    /\ x.pc \in Conversing => rn[x.run].session \in Sessions
    /\ x.pc \in Stepping => x.step \in Runs
    /\ x.pc = "execute" => x.h.pending # <<>>
    /\ x.pc = "finish" => x.out \in Final

\* A run whose harness was saved at an end or at a question.
Left(r) ==
  /\ run[r].status = "WAITING_APPROVAL" => run[r].parent = NoRun
  /\ harness[r].mode # "RUNNING" =>
       /\ run[r].status # "NONE" /\ run[r].parent = NoRun
       /\ run[r].session \in Sessions

Typed ==
  /\ TypeOK
  /\ \A j \in Jobs : Placed(job[j], run)
  /\ \A r \in Runs : Left(r)

\* What no step does to a run that was approved.
Kept ==
  \A r \in Runs : run[r].status \notin Begun =>
    /\ run'[r].status \notin Begun
    /\ run'[r].parent = run[r].parent /\ run'[r].session = run[r].session

-----------------------------------------------------------------------------
(* Types of the pieces the actions are built from. *)

LEMMA Constants ==
  /\ NewHarness \in HarnessType /\ NoAttempt \in AttemptType /\ NoJob \in JobType
  /\ NewRun \in RunType /\ NoJob.pc = "idle" /\ NoJob.out = "FAILED"
  /\ NoJob.run = NoRun /\ NoJob.req = NewRequest /\ NoJob.step = NoRun
<1>1. NewHarness \in HarnessType /\ NewRun \in RunType /\ NoAttempt \in AttemptType
  BY DEF NewHarness, HarnessType, NewRun, RunType, NoAttempt, AttemptType
<1>2. NoJob \in JobType
  BY <1>1 DEF NoJob, JobType, NewRequest, Final
<1> QED BY <1>1, <1>2 DEF NoJob

\* The fields of a run, a harness, an attempt and a dispatcher.
LEMMA Fields ==
  ASSUME TypeOK
  PROVE  /\ \A r \in Runs : run[r] \in RunType /\ harness[r] \in HarnessType
                            /\ verdict[r] \in VerdictType /\ attempt[r] \in AttemptType
         /\ \A j \in Jobs : job[j] \in JobType
         /\ \A s \in Sessions : session[s].version \in Nat /\ session[s].count \in Nat
BY DEF TypeOK

LEMMA ModeType ==
  ASSUME NEW h \in HarnessType,
         NEW mode \in Failing \cup {"RUNNING", "WAITING_APPROVAL", "FINAL"}
  PROVE  [h EXCEPT !.mode = mode] \in HarnessType
BY DEF HarnessType

LEMMA AfterCallType ==
  ASSUME NEW h \in HarnessType, h.pending # <<>>, NEW executed \in BOOLEAN
  PROVE  AfterCall(h, Head(h.pending), executed) \in HarnessType
<1>1. Head(h.pending) \in Calls /\ Tail(h.pending) \in Seq(Calls)
  BY DEF HarnessType
<1>2. PICK n \in Nat :
        n = IF executed /\ Head(h.pending) \in Writes THEN h.writes + 1 ELSE h.writes
  BY DEF HarnessType
<1>3. PICK p \in Seq(Calls) : p = Tail(h.pending)
  BY <1>1
<1>4. PICK c \in Calls : c = Head(h.pending)
  BY <1>1
<1>5. AfterCall(h, Head(h.pending), executed) =
        [h EXCEPT !.pending = p, !.answered = h.answered \cup {c}, !.writes = n]
  BY <1>2, <1>3, <1>4 DEF AfterCall
<1>6. [h EXCEPT !.pending = p, !.answered = h.answered \cup {c}, !.writes = n] \in HarnessType
  BY DEF HarnessType
<1> QED BY <1>5, <1>6

LEMMA QueuedType ==
  ASSUME NEW h \in HarnessType, NEW calls \in Answers
  PROVE  Queued(h, calls) \in HarnessType
<1>1. calls \in Seq(Calls) /\ Range(calls) \subseteq Calls
  BY RunsAssumption DEF Range
<1> QED BY <1>1 DEF HarnessType, Queued

LEMMA SettledType ==
  ASSUME NEW a \in AttemptType, NEW usage \in Nat, NEW notSent
  PROVE  Settled(a, usage, notSent) \in AttemptType
BY DEF Settled, AttemptType

LEMMA ReservedType == ASSUME TypeOK PROVE Reserved \in AttemptType
BY LimitsAssumption DEF TypeOK, Reserved, AttemptType

LEMMA AppendedType ==
  ASSUME TypeOK, NEW s, NEW n \in Nat, session' = Appended(s, n)
  PROVE  session' \in [Sessions -> [live : BOOLEAN, version : Nat, count : Nat]]
<1>1. CASE s \in Sessions
  <2>1. session[s].version + n \in Nat /\ session[s].count + n \in Nat
    BY <1>1, Fields
  <2>2. session' = [session EXCEPT ![s] = [session[s] EXCEPT !.version = session[s].version + n,
                                                            !.count = session[s].count + n]]
    BY DEF Appended
  <2> QED BY <1>1, <2>1, <2>2 DEF TypeOK
<1>2. CASE s \notin Sessions
  BY <1>2 DEF TypeOK, Appended
<1> QED BY <1>1, <1>2

LEMMA ReportsType ==
  ASSUME TypeOK, NEW r \in Runs, Reports(r, 1)
  PROVE  session' \in [Sessions -> [live : BOOLEAN, version : Nat, count : Nat]]
BY AppendedType DEF Reports, TypeOK

LEMMA ResultsType ==
  ASSUME TypeOK, NEW j \in Jobs
  PROVE  Results(j) \in Nat
<1> DEFINE new == job[j].h.answered \ harness[job[j].run].answered
<1>1. job[j].h.answered \subseteq Calls
  BY Fields DEF JobType, HarnessType
<1>2. IsFiniteSet(new)
  BY <1>1, RunsAssumption, FS_Subset
<1>3. Cardinality(new) \in Nat
  BY <1>2, FS_CardinalityType
<1> QED BY <1>3 DEF Results

LEMMA AllowType ==
  ASSUME TypeOK, NEW what \in DOMAIN Allowed, Allow(what)
  PROVE  spent' \in [DOMAIN Allowed -> Nat]
BY DEF TypeOK, Allow

LEMMA Kinds == DOMAIN Allowed = {"crash", "edit", "logout", "change", "midnight"}
BY DEF Allowed

\* A run that ends.
LEMMA FinishedType ==
  ASSUME TypeOK, NEW r \in Runs, NEW status \in Final, NEW usage \in Nat, NEW notSent,
         Finished(r, status, usage, notSent)
  PROVE  /\ run' \in [Runs -> RunType] /\ attempt' \in [Runs -> AttemptType]
         /\ run'[r].status = status
         /\ \A q \in Runs :
              /\ q # r => run'[q] = run[q] /\ attempt'[q] = attempt[q]
              /\ run'[q].session = run[q].session /\ run'[q].parent = run[q].parent
              /\ run'[q].sv = run[q].sv
<1>1. run[r] \in RunType /\ attempt[r] \in AttemptType
  BY Fields
<1>0. PICK v \in Nat : v = run[r].version + 1
  BY <1>1 DEF RunType
<1> DEFINE u == IF usage # 0 THEN usage ELSE attempt[r].usage
           new == [run[r] EXCEPT !.status = status, !.version = v]
<1>2. Settled(attempt[r], u, notSent) \in AttemptType
  <2>1. u \in Nat
    BY <1>1 DEF AttemptType
  <2> QED BY <1>1, <2>1, SettledType
<1>3. new \in RunType /\ new.status = status /\ new.session = run[r].session
      /\ new.parent = run[r].parent /\ new.sv = run[r].sv
  BY <1>1 DEF RunType
<1>4. run' = [run EXCEPT ![r] = new] /\ attempt' = [attempt EXCEPT ![r] = Settled(attempt[r], u, notSent)]
  BY <1>0 DEF Finished
<1> HIDE DEF new, u
<1> QED BY <1>2, <1>3, <1>4 DEF TypeOK

-----------------------------------------------------------------------------
(* What each kind of move does to a dispatcher. *)

\* Dispatcher j moves, and no other one does.
Moves(j) == job' \in [Jobs -> JobType] /\ \A k \in Jobs \ {j} : job'[k] = job[k]

LEMMA BecomesMoves ==
  ASSUME TypeOK, NEW j \in Jobs, NEW x \in JobType, Becomes(j, x)
  PROVE  Moves(j) /\ job'[j] = x
BY DEF Becomes, Moves, TypeOK

LEMMA DispatchMoves ==
  ASSUME TypeOK, NEW j \in Jobs, NEW r \in Runs, NEW version \in Nat, Dispatch(j, r, version)
  PROVE  /\ Moves(j) /\ job[j].pc = "idle" /\ access' \subseteq Jobs
         /\ job'[j].pc = "reserve" /\ job'[j].run = r /\ job'[j].ver = version
         /\ job'[j].req = NewRequest
<1> DEFINE x == [NoJob EXCEPT !.pc = "reserve", !.run = r, !.ver = version]
<1>1. x \in JobType /\ x.pc = "reserve" /\ x.run = r /\ x.ver = version /\ x.req = NewRequest
  BY Constants DEF JobType
<1>2. Becomes(j, x)
  BY DEF Dispatch
<1> HIDE DEF x
<1> QED BY <1>1, <1>2, BecomesMoves DEF Dispatch, TypeOK

LEMMA IdleMoves ==
  ASSUME TypeOK, NEW j \in Jobs, Idle(j)
  PROVE  Moves(j) /\ job'[j] = NoJob /\ job'[j].pc = "idle" /\ access' \subseteq Jobs
BY Constants, BecomesMoves DEF Idle, TypeOK

LEMMA GotoMoves ==
  ASSUME TypeOK, NEW j \in Jobs, NEW pc \in {"refused", "execute"}, Goto(j, pc)
  PROVE  /\ Moves(j) /\ job'[j].pc = pc
         /\ job'[j].run = job[j].run /\ job'[j].ver = job[j].ver /\ job'[j].h = job[j].h
         /\ job'[j].step = job[j].step /\ job'[j].req = job[j].req
<1> DEFINE x == [job[j] EXCEPT !.pc = pc]
<1>1. /\ x \in JobType /\ x.pc = pc /\ x.run = job[j].run /\ x.ver = job[j].ver
      /\ x.h = job[j].h /\ x.step = job[j].step /\ x.req = job[j].req
  BY Fields DEF JobType
<1> HIDE DEF x
<1> QED BY <1>1, BecomesMoves DEF Goto, x

LEMMA FailMoves ==
  ASSUME TypeOK, NEW j \in Jobs, NEW mode \in Failing \cup {"WAITING_APPROVAL"}, Fail(j, mode)
  PROVE  /\ Moves(j) /\ job'[j].pc = "persist"
         /\ job'[j].run = job[j].run /\ job'[j].ver = job[j].ver
         /\ job'[j].h = [job[j].h EXCEPT !.mode = mode]
         /\ job'[j].step = job[j].step /\ job'[j].req = NewRequest
<1> DEFINE g == [job[j].h EXCEPT !.mode = mode]
           x == [job[j] EXCEPT !.pc = "persist", !.h = g, !.req = NewRequest]
<1>1. job[j] \in JobType /\ job[j].h \in HarnessType
  BY Fields DEF JobType
<1>2. g \in HarnessType
  BY <1>1, ModeType
<1>3. Becomes(j, x)
  BY DEF Fail
<1> HIDE DEF g
<1>4. /\ x \in JobType /\ x.pc = "persist" /\ x.run = job[j].run /\ x.ver = job[j].ver
      /\ x.h = g /\ x.step = job[j].step /\ x.req = NewRequest
  BY <1>1, <1>2, Constants DEF JobType
<1> HIDE DEF x
<1> QED BY <1>3, <1>4, BecomesMoves DEF g

-----------------------------------------------------------------------------
(* What the actions do to the runs, their attempts and their harnesses, and    *)
(* that each of them keeps the types.                                          *)

\* A run becomes x.
LEMMA RunBecomes ==
  ASSUME TypeOK, NEW r \in Runs, NEW x \in RunType, run' = [run EXCEPT ![r] = x]
  PROVE  run' \in [Runs -> RunType] /\ run'[r] = x /\ \A q \in Runs \ {r} : run'[q] = run[q]
BY DEF TypeOK

LEMMA Bumped ==
  ASSUME TypeOK, NEW r \in Runs, run' = [run EXCEPT ![r].version = @ + 1]
  PROVE  /\ run' \in [Runs -> RunType] /\ \A q \in Runs \ {r} : run'[q] = run[q]
         /\ run'[r].version = run[r].version + 1 /\ run'[r].status = run[r].status
         /\ run'[r].session = run[r].session /\ run'[r].parent = run[r].parent
         /\ run'[r].sv = run[r].sv
<1>1. run[r] \in RunType
  BY Fields
<1>2. PICK v \in Nat : v = run[r].version + 1
  BY <1>1 DEF RunType
<1> DEFINE x == [run[r] EXCEPT !.version = v]
<1>3. /\ x \in RunType /\ x.version = v /\ x.status = run[r].status
      /\ x.session = run[r].session /\ x.parent = run[r].parent /\ x.sv = run[r].sv
  BY <1>1 DEF RunType
<1>4. run' = [run EXCEPT ![r] = x]
  BY <1>2
<1> HIDE DEF x
<1>5. run' \in [Runs -> RunType] /\ run'[r] = x /\ \A q \in Runs \ {r} : run'[q] = run[q]
  BY <1>3, <1>4, RunBecomes
<1> QED BY <1>2, <1>3, <1>5

LEMMA BumpedWith ==
  ASSUME TypeOK, NEW r \in Runs, NEW n \in Nat,
         run' = [run EXCEPT ![r].version = @ + 1, ![r].sv = n]
  PROVE  /\ run' \in [Runs -> RunType] /\ \A q \in Runs \ {r} : run'[q] = run[q]
         /\ run'[r].version = run[r].version + 1 /\ run'[r].status = run[r].status
         /\ run'[r].session = run[r].session /\ run'[r].parent = run[r].parent
         /\ run'[r].sv = n
<1>1. run[r] \in RunType
  BY Fields
<1>2. PICK v \in Nat : v = run[r].version + 1
  BY <1>1 DEF RunType
<1> DEFINE x == [run[r] EXCEPT !.version = v, !.sv = n]
<1>3. /\ x \in RunType /\ x.version = v /\ x.status = run[r].status
      /\ x.session = run[r].session /\ x.parent = run[r].parent /\ x.sv = n
  BY <1>1 DEF RunType
<1>4. run' = [run EXCEPT ![r] = x]
  BY <1>2
<1> HIDE DEF x
<1>5. run' \in [Runs -> RunType] /\ run'[r] = x /\ \A q \in Runs \ {r} : run'[q] = run[q]
  BY <1>3, <1>4, RunBecomes
<1> QED BY <1>2, <1>3, <1>5

LEMMA Judged ==
  ASSUME TypeOK, NEW r \in Runs, NEW status \in {"RUNNING", "REJECTED"}, NEW n \in Nat,
         \/ run' = [run EXCEPT ![r].status = status, ![r].version = @ + 1]
         \/ run' = [run EXCEPT ![r].status = status, ![r].version = @ + 1, ![r].approved = n]
  PROVE  /\ run' \in [Runs -> RunType] /\ \A q \in Runs \ {r} : run'[q] = run[q]
         /\ run'[r].version = run[r].version + 1 /\ run'[r].status = status
         /\ run'[r].session = run[r].session /\ run'[r].parent = run[r].parent
         /\ run'[r].sv = run[r].sv
<1>1. run[r] \in RunType /\ status \in Final \cup {"RUNNING"}
  BY Fields DEF Final
<1>2. PICK v \in Nat : v = run[r].version + 1
  BY <1>1 DEF RunType
<1>3. PICK a \in Nat :
        run' = [run EXCEPT ![r] = [run[r] EXCEPT !.status = status, !.version = v, !.approved = a]]
  <2>1. [run[r] EXCEPT !.status = status, !.version = v] =
          [run[r] EXCEPT !.status = status, !.version = v, !.approved = run[r].approved]
    BY <1>1 DEF RunType
  <2>2. run[r].approved \in Nat
    BY <1>1 DEF RunType
  <2>3. CASE run' = [run EXCEPT ![r].status = status, ![r].version = @ + 1]
    <3>1. run' = [run EXCEPT ![r] = [run[r] EXCEPT !.status = status, !.version = v]]
      BY <1>2, <2>3
    <3> QED BY <2>1, <2>2, <3>1
  <2>4. CASE run' = [run EXCEPT ![r].status = status, ![r].version = @ + 1, ![r].approved = n]
    BY <1>2, <2>4
  <2> QED BY <2>3, <2>4
<1> DEFINE x == [run[r] EXCEPT !.status = status, !.version = v, !.approved = a]
<1>4. /\ x \in RunType /\ x.version = v /\ x.status = status
      /\ x.session = run[r].session /\ x.parent = run[r].parent /\ x.sv = run[r].sv
  BY <1>1 DEF RunType
<1>5. run' = [run EXCEPT ![r] = x]
  BY <1>3
<1> HIDE DEF x
<1>6. run' \in [Runs -> RunType] /\ run'[r] = x /\ \A q \in Runs \ {r} : run'[q] = run[q]
  BY <1>4, <1>5, RunBecomes
<1> QED BY <1>2, <1>4, <1>6

\* The invariant after a step of dispatcher j.
LEMMA TypedStep ==
  ASSUME Typed, TypeOK', Kept, NEW j \in Jobs, \A k \in Jobs \ {j} : job'[k] = job[k],
         Placed(job'[j], run'), \A r \in Runs : Left(r)'
  PROVE  Typed'
<1>1. \A k \in Jobs : Placed(job[k], run')
  BY DEF Typed, Placed, Kept
<1> QED BY <1>1 DEF Typed

\* ... and after a step of nobody.
LEMMA TypedRest ==
  ASSUME Typed, TypeOK', Kept, job' = job, \A r \in Runs : Left(r)'
  PROVE  Typed'
BY DEF Typed, Placed, Kept

\* Runs that no step has changed, or only in status and version.
LEMMA LeftSame ==
  ASSUME Typed, NEW r \in Runs, harness'[r] = harness[r],
         \/ run'[r] = run[r]
         \/ /\ run[r].status \notin Begun /\ run'[r].status \notin Begun
            /\ run'[r].parent = run[r].parent /\ run'[r].session = run[r].session
  PROVE  Left(r)'
BY DEF Typed, Left, Begun

\* A step that moves dispatcher j and stores nothing.
LEMMA OnlyMoves ==
  ASSUME Typed, NEW j \in Jobs, Moves(j), Placed(job'[j], run),
         UNCHANGED <<stored, world, ghosts>>, access' \subseteq Jobs
  PROVE  Typed'
<1>1. Kept
  BY DEF Kept, stored
<1>2. \A r \in Runs : Left(r)'
  BY LeftSame DEF stored
<1>3. TypeOK'
  BY DEF Moves, stored, world, ghosts, Typed, TypeOK, Placed
<1> QED BY <1>1, <1>2, <1>3, TypedStep DEF Moves, stored

\* A dispatcher at work and its run.
LEMMA Busy ==
  ASSUME Typed, NEW j \in Jobs, job[j].pc # "idle"
  PROVE  /\ job[j].run \in Runs /\ job[j].h \in HarnessType /\ job[j].ver \in Nat
         /\ run[job[j].run] \in RunType /\ run[job[j].run].version \in Nat
         /\ run[job[j].run].status \notin Begun /\ run[job[j].run].parent = NoRun
         /\ job[j].pc \in Conversing => run[job[j].run].session \in Sessions
         /\ job[j].pc \in Stepping => job[j].step \in Runs
         /\ job[j].pc = "execute" => job[j].h.pending # <<>>
         /\ job[j].pc = "finish" => job[j].out \in Final
<1>1. job[j] \in JobType /\ Placed(job[j], run)
  BY Fields DEF Typed
<1>2. job[j].run \in Runs
  BY <1>1 DEF Placed
<1>3. run[job[j].run] \in RunType
  BY <1>2, Fields DEF Typed
<1> QED BY <1>1, <1>2, <1>3 DEF Placed, JobType, RunType

-----------------------------------------------------------------------------
(* The dispatcher, to its loop. *)

LEMMA ReserveAttemptDoes ==
  ASSUME Typed, NEW j \in Jobs, ReserveAttempt(j)
  PROVE  /\ Typed' /\ Moves(j) /\ job'[j].pc = (IF Plain(j) THEN "candidate" ELSE "loop")
         /\ job'[j].run = job[j].run /\ job'[j].ver = run[job[j].run].version + 1
         /\ job'[j].h = harness[job[j].run] /\ job'[j].step = job[j].run
         /\ job'[j].req = job[j].req
         /\ run'[job[j].run].version = run[job[j].run].version + 1
         /\ run'[job[j].run].status = run[job[j].run].status
         /\ run'[job[j].run].sv = run[job[j].run].sv /\ attempt'[job[j].run] = Reserved
         /\ \A q \in Runs \ {job[j].run} : run'[q] = run[q] /\ attempt'[q] = attempt[q]
         /\ Kept
<1> DEFINE r == job[j].run
           pc == IF Plain(j) THEN "candidate" ELSE "loop"
           version == run[r].version + 1
<1>1. job[j].pc = "reserve" /\ Reservable(j)
  BY DEF ReserveAttempt, At
<1>2. r \in Runs /\ run[r].parent = NoRun /\ run[r].status \notin Begun /\ version \in Nat
  BY <1>1, Busy
<1>3. /\ run' \in [Runs -> RunType] /\ \A q \in Runs \ {r} : run'[q] = run[q]
      /\ run'[r].version = run[r].version + 1 /\ run'[r].status = run[r].status
      /\ run'[r].session = run[r].session /\ run'[r].parent = run[r].parent
      /\ run'[r].sv = run[r].sv
  BY <1>2, Bumped DEF ReserveAttempt, Typed
<1>4. /\ Moves(j) /\ job'[j].pc = pc /\ job'[j].run = r /\ job'[j].ver = version
      /\ job'[j].h = harness[r] /\ job'[j].step = r /\ job'[j].req = job[j].req
  <2>1. harness[r] \in HarnessType /\ job[j] \in JobType /\ pc \in {"candidate", "loop"}
    BY <1>2, Fields DEF Typed
  <2> DEFINE x == [job[j] EXCEPT !.pc = pc, !.ver = version, !.h = harness[r], !.step = r]
  <2>2. Becomes(j, x)
    BY DEF ReserveAttempt
  <2> HIDE DEF version, pc
  <2>3. /\ x \in JobType /\ x.pc = pc /\ x.run = r /\ x.ver = version
        /\ x.h = harness[r] /\ x.step = r /\ x.req = job[j].req
    BY <1>2, <2>1 DEF JobType
  <2> HIDE DEF x
  <2> QED BY <2>2, <2>3, BecomesMoves DEF Typed
<1>5. attempt' = [attempt EXCEPT ![r] = Reserved]
  BY DEF ReserveAttempt
<1>6. /\ attempt' \in [Runs -> AttemptType] /\ attempt'[r] = Reserved
      /\ \A q \in Runs \ {r} : attempt'[q] = attempt[q]
  BY <1>2, <1>5, ReservedType DEF Typed, TypeOK
<1>7. Kept
  BY <1>2, <1>3 DEF Kept
<1>8. Placed(job'[j], run')
  <2>1. run[r].session \in Sessions \cup {NoSession}
    BY <1>2, Fields DEF RunType, Typed
  <2> QED BY <1>2, <1>3, <1>4, <2>1 DEF Placed, Plain, Conversing, Stepping
<1>9. \A q \in Runs : Left(q)'
  BY <1>2, <1>3, LeftSame DEF ReserveAttempt
<1>10. TypeOK'
  <2>1. UNCHANGED <<harness, verdict, session, access, world, ghosts>>
    BY DEF ReserveAttempt
  <2>2. \A k \in Jobs : job'[k].pc # "idle" => job'[k].run \in Runs
    BY <1>2, <1>4 DEF Moves, Typed, TypeOK
  <2> QED BY <1>3, <1>4, <1>6, <2>1, <2>2 DEF world, ghosts, Moves, TypeOK, Typed
<1> QED BY <1>3, <1>4, <1>6, <1>7, <1>8, <1>9, <1>10, TypedStep DEF Moves

LEMMA ResumeDoes ==
  ASSUME Typed, NEW j \in Jobs, Resume(j)
  PROVE  /\ Typed' /\ Moves(j) /\ job'[j].pc = "loop"
         /\ job'[j].run = job[j].run /\ job'[j].ver = run[job[j].run].version
         /\ job'[j].h = [harness[job[j].run] EXCEPT !.mode = "RUNNING"]
         /\ job'[j].step = job[j].run /\ job'[j].req = job[j].req
<1> DEFINE r == job[j].run
           h == [harness[r] EXCEPT !.mode = "RUNNING"]
<1>1. job[j].pc = "reserve" /\ Resumed(r)
  BY DEF Resume, At
<1>2. r \in Runs /\ run[r].parent = NoRun /\ run[r].status \notin Begun /\ run[r].version \in Nat
  BY <1>1, Busy
<1>3. h \in HarnessType
  BY <1>2, Fields, ModeType DEF Typed
<1> DEFINE x == [job[j] EXCEPT !.pc = "loop", !.ver = run[r].version, !.step = r, !.h = h]
<1>4. Becomes(j, x)
  BY DEF Resume
<1> HIDE DEF h
<1>5. /\ x \in JobType /\ x.pc = "loop" /\ x.run = r /\ x.ver = run[r].version
      /\ x.h = h /\ x.step = r /\ x.req = job[j].req
  BY <1>2, <1>3, Fields DEF JobType, Typed
<1> HIDE DEF x
<1>6. /\ Moves(j) /\ job'[j].pc = "loop" /\ job'[j].run = r /\ job'[j].ver = run[r].version
      /\ job'[j].h = h /\ job'[j].step = r /\ job'[j].req = job[j].req
  BY <1>4, <1>5, BecomesMoves DEF Typed
<1>7. run[r].session \in Sessions
  BY <1>1, <1>2, Fields DEF Resumed, RunType, Typed
<1>8. Placed(job'[j], run)
  BY <1>2, <1>6, <1>7 DEF Placed
<1>9. Typed'
  BY <1>6, <1>8, OnlyMoves DEF Resume, Typed, TypeOK
<1> QED BY <1>6, <1>9 DEF h

LEMMA RefuseDoes ==
  ASSUME Typed, NEW j \in Jobs, Refuse(j)
  PROVE  /\ Typed' /\ Moves(j) /\ job'[j].pc = "refused"
         /\ job'[j].run = job[j].run /\ job'[j].req = job[j].req
<1>1. job[j].pc = "reserve"
  BY DEF Refuse, At
<1>2. Moves(j) /\ job'[j].pc = "refused" /\ job'[j].run = job[j].run /\ job'[j].req = job[j].req
  BY GotoMoves DEF Refuse, Typed
<1>3. Placed(job'[j], run)
  BY <1>1, <1>2, Busy DEF Placed, Conversing, Stepping
<1> QED BY <1>2, <1>3, OnlyMoves DEF Refuse, Typed, TypeOK

\* The last step of a dispatcher, which may finish its run.
LEMMA EndDoes ==
  ASSUME Typed, NEW j \in Jobs, job[j].pc # "idle", Idle(j),
         NEW status \in Final, NEW usage \in Nat, NEW notSent,
         \/ Finished(job[j].run, status, usage, notSent) /\ Reports(job[j].run, 1)
         \/ UNCHANGED <<run, attempt, session>>,
         UNCHANGED <<harness, verdict, world, ghosts>>
  PROVE  /\ Typed' /\ Moves(j) /\ job'[j].pc = "idle" /\ Kept
<1> DEFINE r == job[j].run
<1>1. r \in Runs /\ run[r].status \notin Begun
  BY Busy
<1>2. Moves(j) /\ job'[j].pc = "idle" /\ access' \subseteq Jobs
  BY IdleMoves DEF Typed
<1>3. /\ run' \in [Runs -> RunType] /\ attempt' \in [Runs -> AttemptType]
      /\ session' \in [Sessions -> [live : BOOLEAN, version : Nat, count : Nat]]
      /\ \A q \in Runs : run'[q] = run[q] \/ (q = r /\ run'[q].status = status)
      /\ \A q \in Runs : run'[q].session = run[q].session /\ run'[q].parent = run[q].parent
  <2>1. CASE Finished(r, status, usage, notSent) /\ Reports(r, 1)
    BY <1>1, <2>1, FinishedType, ReportsType DEF Typed
  <2>2. CASE UNCHANGED <<run, attempt, session>>
    BY <2>2 DEF Typed, TypeOK
  <2> QED BY <2>1, <2>2
<1>4. Kept
  BY <1>3 DEF Kept, Final, Begun
<1>5. Placed(job'[j], run')
  BY <1>2 DEF Placed
<1>6. \A q \in Runs : Left(q)'
  BY <1>1, <1>3, LeftSame DEF Final, Begun
<1>7. TypeOK'
  BY <1>2, <1>3 DEF world, ghosts, Moves, TypeOK, Typed
<1> QED BY <1>2, <1>4, <1>5, <1>6, <1>7, TypedStep DEF Moves

LEMMA RefusedDoes ==
  ASSUME Typed, NEW j \in Jobs, Refused(j)
  PROVE  Typed' /\ Moves(j) /\ job'[j].pc = "idle" /\ Kept
BY EndDoes DEF Refused, At, Final

-----------------------------------------------------------------------------
(* The dispatcher, from its loop to a save. *)

\* A step of dispatcher j that stores something.
LEMMA StoredStep ==
  ASSUME Typed, NEW j \in Jobs, Moves(j), Placed(job'[j], run'), Kept,
         run' \in [Runs -> RunType], harness' \in [Runs -> HarnessType],
         verdict' \in [Runs -> VerdictType], attempt' \in [Runs -> AttemptType],
         session' \in [Sessions -> [live : BOOLEAN, version : Nat, count : Nat]],
         access' \subseteq Jobs, UNCHANGED world,
         paid' \in [Runs -> Nat], bill' \in [Runs -> Nat],
         commits' \in [Runs -> [Calls -> Nat]],
         \A r \in Runs : Left(r)'
  PROVE  Typed'
<1>1. \A k \in Jobs : job'[k].pc # "idle" => job'[k].run \in Runs
  BY DEF Moves, Typed, TypeOK, Placed
<1>2. TypeOK'
  BY <1>1 DEF Moves, Typed, TypeOK, world
<1> QED BY <1>2, TypedStep DEF Moves

\* A harness that fails or asks goes to a save.
LEMMA FailDoes ==
  ASSUME Typed, NEW j \in Jobs, job[j].pc # "idle",
         run[job[j].run].session \in Sessions, job[j].step \in Runs,
         NEW mode \in Failing \cup {"WAITING_APPROVAL"}, Fail(j, mode),
         UNCHANGED <<stored, access, world, ghosts>>
  PROVE  /\ Typed' /\ Moves(j) /\ job'[j].pc = "persist"
         /\ job'[j].run = job[j].run /\ job'[j].ver = job[j].ver
         /\ job'[j].h = [job[j].h EXCEPT !.mode = mode]
         /\ job'[j].step = job[j].step /\ job'[j].req = NewRequest
<1>1. /\ Moves(j) /\ job'[j].pc = "persist"
      /\ job'[j].run = job[j].run /\ job'[j].ver = job[j].ver
      /\ job'[j].h = [job[j].h EXCEPT !.mode = mode]
      /\ job'[j].step = job[j].step /\ job'[j].req = NewRequest
  BY FailMoves DEF Typed
<1>2. Placed(job'[j], run)
  BY <1>1, Busy DEF Placed
<1> QED BY <1>1, <1>2, OnlyMoves DEF Typed, TypeOK

LEMMA WorkingAt ==
  ASSUME Typed, NEW j \in Jobs, Working(j) \/ Executing(j) \/ Asking(j)
  PROVE  /\ job[j].pc \in {"loop", "execute"} /\ job[j].pc # "idle"
         /\ run[job[j].run].session \in Sessions /\ job[j].step \in Runs
         /\ Working(j) \/ Executing(j) =>
              /\ job[j].h.pending # <<>> /\ NextCall(j) \in Calls
<1>1. job[j].pc \in {"loop", "execute"}
  BY DEF Working, Executing, Asking, At
<1>2. run[job[j].run].session \in Sessions /\ job[j].step \in Runs
  BY <1>1, Busy DEF Conversing, Stepping
<1>3. ASSUME Working(j) \/ Executing(j)
      PROVE  job[j].h.pending # <<>> /\ NextCall(j) \in Calls
  <2>1. job[j].h.pending # <<>>
    BY <1>1, <1>3, Busy DEF Working, Executing, At
  <2>2. job[j].h.pending \in Seq(Calls)
    BY <1>1, Busy DEF HarnessType
  <2> QED BY <2>1, <2>2 DEF NextCall
<1> QED BY <1>1, <1>2, <1>3

LEMMA AskHumanDoes ==
  ASSUME Typed, NEW j \in Jobs, AskHuman(j)
  PROVE  /\ Typed' /\ Moves(j) /\ job'[j].pc = "persist"
         /\ job'[j].run = job[j].run /\ job'[j].ver = job[j].ver
         /\ job'[j].h = [job[j].h EXCEPT !.mode = "WAITING_APPROVAL"]
         /\ job'[j].step = job[j].step /\ job'[j].req = NewRequest
BY FailDoes, WorkingAt DEF AskHuman

LEMMA LoseCallDoes ==
  ASSUME Typed, NEW j \in Jobs, LoseCall(j) \/ LoseExecution(j) \/ NoStep(j)
  PROVE  /\ Typed' /\ Moves(j) /\ job'[j].pc = "persist"
         /\ job'[j].run = job[j].run /\ job'[j].ver = job[j].ver
         /\ job'[j].h = [job[j].h EXCEPT !.mode = "ERROR"]
         /\ job'[j].step = job[j].step /\ job'[j].req = NewRequest
         /\ UNCHANGED <<stored, ghosts>>
<1>1. Working(j) \/ Executing(j) \/ Asking(j)
  BY DEF LoseCall, LoseExecution, NoStep
<1>2. Fail(j, "ERROR") /\ UNCHANGED <<stored, access, world, ghosts>>
  BY DEF LoseCall, LoseExecution, NoStep
<1> QED BY <1>1, <1>2, FailDoes, WorkingAt DEF Failing

LEMMA ApprovedCallDoes ==
  ASSUME Typed, NEW j \in Jobs, ApprovedCall(j)
  PROVE  /\ Typed' /\ Moves(j)
         /\ job'[j].run = job[j].run /\ job'[j].ver = job[j].ver /\ job'[j].step = job[j].step
         /\ \/ job'[j].pc = "execute" /\ job'[j].h = job[j].h /\ job'[j].req = job[j].req
            \/ /\ job'[j].pc = "persist" /\ job'[j].h = [job[j].h EXCEPT !.mode = "ERROR"]
               /\ job'[j].req = NewRequest
<1>0. /\ job[j].pc # "idle" /\ run[job[j].run].session \in Sessions /\ job[j].step \in Runs
      /\ job[j].h.pending # <<>>
  BY WorkingAt DEF ApprovedCall
<1>1. CASE Goto(j, "execute")
  <2>1. /\ Moves(j) /\ job'[j].pc = "execute"
        /\ job'[j].run = job[j].run /\ job'[j].ver = job[j].ver /\ job'[j].h = job[j].h
        /\ job'[j].step = job[j].step /\ job'[j].req = job[j].req
    BY <1>1, GotoMoves DEF Typed
  <2>2. Placed(job'[j], run)
    BY <1>0, <2>1, Busy DEF Placed
  <2> QED BY <2>1, <2>2, OnlyMoves DEF ApprovedCall, Typed, TypeOK
<1>2. CASE Fail(j, "ERROR")
  BY <1>0, <1>2, FailDoes DEF ApprovedCall, Failing
<1> QED BY <1>1, <1>2 DEF ApprovedCall

\* A call has its result without a change of what is stored.
LEMMA SkipCallDoes ==
  ASSUME Typed, NEW j \in Jobs, RejectedCall(j) \/ RefuseCall(j)
  PROVE  /\ Typed' /\ Moves(j) /\ job'[j].pc = "persist"
         /\ job'[j].run = job[j].run /\ job'[j].ver = job[j].ver
         /\ \E executed \in BOOLEAN : job'[j].h = AfterCall(job[j].h, NextCall(j), executed)
         /\ job'[j].step = job[j].step /\ job'[j].req = job[j].req
         /\ UNCHANGED <<stored, ghosts>>
<1>0. /\ job[j].pc # "idle" /\ run[job[j].run].session \in Sessions /\ job[j].step \in Runs
      /\ job[j].h.pending # <<>> /\ job[j].h \in HarnessType
  BY WorkingAt, Busy DEF RejectedCall, RefuseCall
<1>1. PICK executed \in BOOLEAN :
        Becomes(j, [job[j] EXCEPT !.pc = "persist", !.h = AfterCall(@, NextCall(j), executed)])
  BY DEF RejectedCall, RefuseCall
<1> DEFINE h == AfterCall(job[j].h, NextCall(j), executed)
           x == [job[j] EXCEPT !.pc = "persist", !.h = h]
<1>2. h \in HarnessType
  BY <1>0, AfterCallType DEF NextCall
<1>3. Becomes(j, x)
  BY <1>1
<1> HIDE DEF h
<1>4. /\ x \in JobType /\ x.pc = "persist" /\ x.run = job[j].run /\ x.ver = job[j].ver
      /\ x.h = h /\ x.step = job[j].step /\ x.req = job[j].req
  BY <1>2, Fields DEF JobType, Typed
<1> HIDE DEF x
<1>5. /\ Moves(j) /\ job'[j].pc = "persist" /\ job'[j].run = job[j].run
      /\ job'[j].ver = job[j].ver /\ job'[j].h = h
      /\ job'[j].step = job[j].step /\ job'[j].req = job[j].req
  BY <1>3, <1>4, BecomesMoves DEF Typed
<1>6. Placed(job'[j], run)
  BY <1>0, <1>5, Busy DEF Placed
<1>7. UNCHANGED <<stored, access, world, ghosts>>
  BY DEF RejectedCall, RefuseCall
<1> QED BY <1>5, <1>6, <1>7, OnlyMoves DEF Typed, TypeOK, h

LEMMA ExecuteCallDoes ==
  ASSUME Typed, NEW j \in Jobs, ExecuteCall(j)
  PROVE  /\ Typed' /\ Kept /\ Moves(j) /\ job'[j].pc = "persist"
         /\ job'[j].run = job[j].run /\ job'[j].ver = job[j].ver + 1
         /\ job'[j].h = AfterCall(job[j].h, NextCall(j), TRUE)
         /\ job'[j].step = job[j].step /\ job'[j].req = job[j].req
         /\ harness'[job[j].run] = job'[j].h
         /\ run'[job[j].run].version = run[job[j].run].version + 1
         /\ run'[job[j].run].status = run[job[j].run].status
         /\ \A q \in Runs \ {job[j].run} : run'[q] = run[q] /\ harness'[q] = harness[q]
<1> DEFINE r == job[j].run
           h == AfterCall(job[j].h, NextCall(j), TRUE)
<1>1. /\ job[j].pc # "idle" /\ run[r].session \in Sessions /\ job[j].step \in Runs
      /\ job[j].h.pending # <<>> /\ job[j].h \in HarnessType /\ NextCall(j) \in Calls
  BY WorkingAt, Busy DEF ExecuteCall
<1>2. r \in Runs /\ run[r].status \notin Begun /\ run[r].parent = NoRun /\ job[j].ver \in Nat
  BY <1>1, Busy
<1>3. h \in HarnessType
  BY <1>1, AfterCallType DEF NextCall
<1>4. PICK n \in Nat : n = session[run[r].session].version + 2
  BY <1>1, Fields DEF Typed
<1>5. /\ run' \in [Runs -> RunType] /\ \A q \in Runs \ {r} : run'[q] = run[q]
      /\ run'[r].version = run[r].version + 1 /\ run'[r].status = run[r].status
      /\ run'[r].session = run[r].session /\ run'[r].parent = run[r].parent
  <2>1. run' = [run EXCEPT ![r].version = @ + 1, ![r].sv = n]
    BY <1>4 DEF ExecuteCall
  <2> QED BY <1>2, <2>1, BumpedWith DEF Typed
<1>6. harness' = [harness EXCEPT ![r] = h]
  BY DEF ExecuteCall
<1>7. /\ harness' \in [Runs -> HarnessType] /\ harness'[r] = h
      /\ \A q \in Runs \ {r} : harness'[q] = harness[q]
  BY <1>2, <1>3, <1>6 DEF Typed, TypeOK
<1>8. PICK v \in Nat : v = job[j].ver + 1
  BY <1>2
<1> DEFINE x == [job[j] EXCEPT !.pc = "persist", !.ver = v, !.h = h]
<1>9. Becomes(j, x)
  BY <1>8 DEF ExecuteCall
<1> HIDE DEF h
<1>10. /\ x \in JobType /\ x.pc = "persist" /\ x.run = r /\ x.ver = v /\ x.h = h
       /\ x.step = job[j].step /\ x.req = job[j].req
  BY <1>3, Fields DEF JobType, Typed
<1> HIDE DEF x
<1>11. /\ Moves(j) /\ job'[j].pc = "persist" /\ job'[j].run = r /\ job'[j].ver = v
       /\ job'[j].h = h /\ job'[j].step = job[j].step /\ job'[j].req = job[j].req
  BY <1>9, <1>10, BecomesMoves DEF Typed
<1>12. Placed(job'[j], run')
  BY <1>1, <1>2, <1>5, <1>11 DEF Placed
<1>13. Kept
  BY <1>2, <1>5 DEF Kept
<1>14. \A q \in Runs : Left(q)'
  <2>1. \A q \in Runs : q = r => Left(q)'
    BY <1>1, <1>2, <1>5 DEF Left, Begun
  <2>2. \A q \in Runs : q # r => Left(q)'
    BY <1>5, <1>7, LeftSame
  <2> QED BY <2>1, <2>2
<1>15. /\ session' \in [Sessions -> [live : BOOLEAN, version : Nat, count : Nat]]
       /\ commits' \in [Runs -> [Calls -> Nat]]
  <2>1. session' = Appended(run[r].session, 2)
    BY DEF ExecuteCall
  <2>2. PICK c \in Calls : c = NextCall(j)
    BY <1>1
  <2>3. commits' = [commits EXCEPT ![r][c] = @ + 1]
    BY <2>2 DEF ExecuteCall
  <2>4. commits' \in [Runs -> [Calls -> Nat]]
    BY <1>2, <2>3 DEF Typed, TypeOK
  <2> QED BY <2>1, <2>4, AppendedType DEF Typed
<1>16. Typed'
  <2>1. UNCHANGED <<verdict, attempt, access, world, paid, bill>>
    BY DEF ExecuteCall
  <2> QED BY <1>5, <1>7, <1>11, <1>12, <1>13, <1>14, <1>15, <2>1, StoredStep DEF Typed, TypeOK
<1> QED BY <1>5, <1>7, <1>8, <1>11, <1>13, <1>16 DEF h

\* The runtime returns with an outcome.
LEMMA LeaveMoves ==
  ASSUME Typed, NEW j \in Jobs, job[j].pc \in {"persist"}, NEW out \in Final \cup {"WAIT"},
         Leave(j, out)
  PROVE  /\ Moves(j) /\ access' \subseteq Jobs /\ job'[j].req = NewRequest
         /\ job'[j].pc \in {"idle", "release", "finish"}
         /\ job'[j].pc # "idle" => /\ job'[j].run = job[j].run /\ job'[j].step = job[j].step
                                   /\ job'[j].out = out
         /\ job'[j].pc = "finish" => out \in Final
         /\ job'[j].pc = "idle" => job'[j] = NoJob
<1>1. job[j] \in JobType /\ job[j].run \in Runs /\ job[j].step \in Runs
  BY Busy, Fields DEF Typed, Conversing, Stepping
<1>2. PICK next \in {"idle", "release", "finish"} :
        /\ Becomes(j, IF next = "idle" THEN NoJob
             ELSE [NoJob EXCEPT !.pc = next, !.run = job[j].run, !.step = job[j].step, !.out = out])
        /\ access' = IF next = "idle" THEN access \ {j} ELSE access
        /\ next = "finish" => out # "WAIT"
  BY DEF Leave
<1>3. access' \subseteq Jobs
  BY <1>2 DEF Typed, TypeOK
<1>4. CASE next = "idle"
  BY <1>2, <1>3, <1>4, Constants, BecomesMoves DEF Typed
<1>5. CASE next # "idle"
  <2> DEFINE x == [NoJob EXCEPT !.pc = next, !.run = job[j].run, !.step = job[j].step, !.out = out]
  <2>1. /\ x \in JobType /\ x.pc = next /\ x.run = job[j].run /\ x.step = job[j].step
        /\ x.out = out /\ x.req = NewRequest
    BY <1>1, <1>5, Constants DEF JobType
  <2>2. Becomes(j, x)
    BY <1>2, <1>5
  <2> HIDE DEF x
  <2> QED BY <1>2, <1>3, <1>5, <2>1, <2>2, BecomesMoves DEF Typed, Final
<1> QED BY <1>4, <1>5

LEMMA OutOfType == \A mode : OutOf(mode) \in Final \cup {"WAIT"}
BY DEF OutOf, Final

LEMMA SaveDoes ==
  ASSUME Typed, NEW j \in Jobs, Save(j)
  PROVE  /\ Typed' /\ Kept /\ Moves(j)
         /\ harness'[job[j].run] = job[j].h
         /\ run'[job[j].run].version = run[job[j].run].version + 1
         /\ run'[job[j].run].status = run[job[j].run].status
         /\ \A q \in Runs \ {job[j].run} : run'[q] = run[q] /\ harness'[q] = harness[q]
         /\ \/ /\ job[j].h.mode = "RUNNING" /\ job'[j].pc = "loop"
               /\ job'[j].run = job[j].run /\ job'[j].ver = job[j].ver + 1
               /\ job'[j].h = job[j].h /\ job'[j].step = job[j].step /\ job'[j].req = job[j].req
            \/ /\ job'[j].pc \in {"idle", "release", "finish"} /\ job'[j].req = NewRequest
               /\ job'[j].pc # "idle" => job'[j].run = job[j].run /\ job'[j].step = job[j].step
<1> DEFINE r == job[j].run
<1>1. /\ job[j].pc = "persist" /\ run[r].session \in Sessions /\ job[j].step \in Runs
      /\ job[j].h \in HarnessType /\ r \in Runs /\ run[r].status \notin Begun
      /\ run[r].parent = NoRun /\ job[j].ver \in Nat
  BY Busy DEF Save, At, Conversing, Stepping
<1>2. PICK n \in Nat : n = session[run[r].session].version + Results(j)
  BY <1>1, Fields, ResultsType DEF Typed
<1>3. /\ run' \in [Runs -> RunType] /\ \A q \in Runs \ {r} : run'[q] = run[q]
      /\ run'[r].version = run[r].version + 1 /\ run'[r].status = run[r].status
      /\ run'[r].session = run[r].session /\ run'[r].parent = run[r].parent
  <2>1. run' = [run EXCEPT ![r].version = @ + 1, ![r].sv = n]
    BY <1>2 DEF Save
  <2> QED BY <1>1, <2>1, BumpedWith DEF Typed
<1>4. harness' = [harness EXCEPT ![r] = job[j].h]
  BY DEF Save
<1>5. /\ harness' \in [Runs -> HarnessType] /\ harness'[r] = job[j].h
      /\ \A q \in Runs \ {r} : harness'[q] = harness[q]
  BY <1>1, <1>4 DEF Typed, TypeOK
<1>6. session' \in [Sessions -> [live : BOOLEAN, version : Nat, count : Nat]]
  BY ResultsType, AppendedType DEF Save, Typed
<1>7. Kept
  BY <1>1, <1>3 DEF Kept
<1>8. \A q \in Runs : Left(q)'
  <2>1. \A q \in Runs : q = r => Left(q)'
    BY <1>1, <1>3 DEF Left, Begun
  <2>2. \A q \in Runs : q # r => Left(q)'
    BY <1>3, <1>5, LeftSame
  <2> QED BY <2>1, <2>2
<1>9. /\ Moves(j) /\ access' \subseteq Jobs
      /\ \/ /\ job[j].h.mode = "RUNNING" /\ job'[j].pc = "loop"
            /\ job'[j].run = r /\ job'[j].ver = job[j].ver + 1
            /\ job'[j].h = job[j].h /\ job'[j].step = job[j].step /\ job'[j].req = job[j].req
         \/ /\ job'[j].pc \in {"idle", "release", "finish"} /\ job'[j].req = NewRequest
            /\ job'[j].pc # "idle" => job'[j].run = r /\ job'[j].step = job[j].step
            /\ job'[j].pc = "finish" => job'[j].out \in Final
  <2>1. CASE job[j].h.mode = "RUNNING"
    <3>1. PICK v \in Nat : v = job[j].ver + 1
      BY <1>1
    <3> DEFINE x == [job[j] EXCEPT !.pc = "loop", !.ver = v]
    <3>2. /\ x \in JobType /\ x.pc = "loop" /\ x.run = r /\ x.ver = v
          /\ x.h = job[j].h /\ x.step = job[j].step /\ x.req = job[j].req
      BY Fields DEF JobType, Typed
    <3>3. Becomes(j, x) /\ access' = access
      BY <2>1, <3>1 DEF Save
    <3> HIDE DEF x
    <3> QED BY <2>1, <3>1, <3>2, <3>3, BecomesMoves DEF Typed, TypeOK
  <2>2. CASE job[j].h.mode # "RUNNING"
    <3>1. Leave(j, OutOf(job[j].h.mode))
      BY <2>2 DEF Save
    <3> QED BY <1>1, <3>1, OutOfType, LeaveMoves
  <2> QED BY <2>1, <2>2
<1>10. Placed(job'[j], run')
  BY <1>1, <1>3, <1>9 DEF Placed, Conversing, Stepping
<1>11. Typed'
  <2>1. UNCHANGED <<verdict, attempt, world, ghosts>>
    BY DEF Save
  <2> QED BY <1>3, <1>5, <1>6, <1>7, <1>8, <1>9, <1>10, <2>1, StoredStep DEF ghosts, Typed, TypeOK
<1> QED BY <1>3, <1>5, <1>7, <1>9, <1>11

LEMMA SaveFailsDoes ==
  ASSUME Typed, NEW j \in Jobs, SaveFails(j)
  PROVE  /\ Typed' /\ Moves(j) /\ job'[j].req = NewRequest
         /\ \/ /\ job'[j].pc = "persist" /\ job'[j].run = job[j].run /\ job'[j].ver = job[j].ver
               /\ job'[j].h = [job[j].h EXCEPT !.mode = "ERROR"] /\ job'[j].step = job[j].step
            \/ /\ job'[j].pc \in {"idle", "release", "finish"}
               /\ job'[j].pc # "idle" => job'[j].run = job[j].run /\ job'[j].step = job[j].step
<1>1. /\ job[j].pc = "persist" /\ run[job[j].run].session \in Sessions /\ job[j].step \in Runs
      /\ job[j].run \in Runs /\ run[job[j].run].status \notin Begun
      /\ run[job[j].run].parent = NoRun
  BY Busy DEF SaveFails, At, Conversing, Stepping
<1>2. CASE Leave(j, "FAILED")
  <2>1. /\ Moves(j) /\ access' \subseteq Jobs /\ job'[j].req = NewRequest
        /\ job'[j].pc \in {"idle", "release", "finish"}
        /\ job'[j].pc # "idle" => /\ job'[j].run = job[j].run /\ job'[j].step = job[j].step
                                  /\ job'[j].out = "FAILED"
    BY <1>1, <1>2, LeaveMoves DEF Final
  <2>2. Placed(job'[j], run)
    BY <1>1, <2>1 DEF Placed, Conversing, Stepping, Final
  <2> QED BY <2>1, <2>2, OnlyMoves DEF SaveFails
<1>3. CASE Fail(j, "ERROR") /\ UNCHANGED access
  BY <1>1, <1>3, FailDoes DEF SaveFails, Failing
<1> QED BY <1>2, <1>3 DEF SaveFails

-----------------------------------------------------------------------------
(* The dispatcher and the provider. *)

LEMMA FirstStepDoes ==
  ASSUME Typed, NEW j \in Jobs, FirstStep(j)
  PROVE  /\ Typed' /\ Moves(j) /\ job'[j].pc = "candidate"
         /\ job'[j].run = job[j].run /\ job'[j].ver = job[j].ver /\ job'[j].h = job[j].h
         /\ job'[j].step = job[j].run /\ job'[j].req = job[j].req
<1>1. job[j].pc = "loop" /\ job[j].run \in Runs /\ job[j] \in JobType
  BY WorkingAt, Busy, Fields DEF FirstStep, Asking, At, Typed
<1> DEFINE x == [job[j] EXCEPT !.pc = "candidate", !.step = job[j].run]
<1>2. /\ x \in JobType /\ x.pc = "candidate" /\ x.run = job[j].run /\ x.ver = job[j].ver
      /\ x.h = job[j].h /\ x.step = job[j].run /\ x.req = job[j].req
  BY <1>1 DEF JobType
<1>3. Becomes(j, x)
  BY DEF FirstStep
<1> HIDE DEF x
<1>4. /\ Moves(j) /\ job'[j].pc = "candidate"
      /\ job'[j].run = job[j].run /\ job'[j].ver = job[j].ver /\ job'[j].h = job[j].h
      /\ job'[j].step = job[j].run /\ job'[j].req = job[j].req
  BY <1>2, <1>3, BecomesMoves DEF Typed
<1>5. Placed(job'[j], run)
  BY <1>1, <1>4, Busy DEF Placed, Conversing
<1> QED BY <1>4, <1>5, OnlyMoves DEF FirstStep, Typed, TypeOK

LEMMA NextStepDoes ==
  ASSUME Typed, NEW j \in Jobs, NEW q \in Runs, NextStep(j, q)
  PROVE  /\ Typed' /\ Kept /\ Moves(j) /\ job'[j].pc = "candidate"
         /\ job'[j].run = job[j].run /\ job'[j].ver = job[j].ver /\ job'[j].h = job[j].h
         /\ job'[j].step = q /\ job'[j].req = job[j].req
         /\ run[q].status = "NONE" /\ run'[q].status = "RUNNING"
         /\ run'[q].parent = job[j].run /\ attempt'[q] = Reserved
         /\ \A r \in Runs \ {q} : run'[r] = run[r] /\ attempt'[r] = attempt[r]
<1>1. /\ job[j].pc = "loop" /\ job[j].run \in Runs /\ job[j] \in JobType
      /\ run[job[j].run].status \notin Begun /\ run[job[j].run].parent = NoRun
      /\ run[job[j].run].session \in Sessions
  BY Busy, Fields DEF NextStep, Asking, At, Typed, Conversing
<1>2. run[q].status = "NONE" /\ q # job[j].run
  BY <1>1 DEF NextStep, Fresh, Begun
<1> DEFINE x == [job[j] EXCEPT !.pc = "candidate", !.step = q]
<1>3. /\ x \in JobType /\ x.pc = "candidate" /\ x.run = job[j].run /\ x.ver = job[j].ver
      /\ x.h = job[j].h /\ x.step = q /\ x.req = job[j].req
  BY <1>1 DEF JobType
<1>4. Becomes(j, x)
  BY DEF NextStep
<1> HIDE DEF x
<1>5. /\ Moves(j) /\ job'[j].pc = "candidate"
      /\ job'[j].run = job[j].run /\ job'[j].ver = job[j].ver /\ job'[j].h = job[j].h
      /\ job'[j].step = q /\ job'[j].req = job[j].req
  BY <1>3, <1>4, BecomesMoves DEF Typed
<1> DEFINE y == [NewRun EXCEPT !.status = "RUNNING", !.version = 4, !.parent = job[j].run,
                               !.approved = day]
<1>6. y \in RunType /\ y.status = "RUNNING" /\ y.parent = job[j].run
  BY <1>1, Constants DEF RunType, Typed, TypeOK
<1>7. run' = [run EXCEPT ![q] = y] /\ attempt' = [attempt EXCEPT ![q] = Reserved]
  BY DEF NextStep
<1> HIDE DEF y
<1>8. run' \in [Runs -> RunType] /\ run'[q] = y /\ \A r \in Runs \ {q} : run'[r] = run[r]
  BY <1>6, <1>7, RunBecomes DEF Typed
<1>9. /\ attempt' \in [Runs -> AttemptType] /\ attempt'[q] = Reserved
      /\ \A r \in Runs \ {q} : attempt'[r] = attempt[r]
  BY <1>7, ReservedType DEF Typed, TypeOK
<1>10. Kept
  BY <1>2, <1>8 DEF Kept, Begun
<1>11. Placed(job'[j], run')
  BY <1>1, <1>2, <1>5, <1>8 DEF Placed, Conversing, Begun
<1>12. UNCHANGED <<harness, verdict, session, access, world, ghosts>>
  BY DEF NextStep
<1>13. \A r \in Runs : Left(r)'
  <2>1. Left(q)'
    BY <1>2, <1>6, <1>8, <1>12 DEF Typed, Left
  <2>2. \A r \in Runs : r # q => Left(r)'
    BY <1>8, <1>12, LeftSame
  <2> QED BY <2>1, <2>2
<1>14. Typed'
  BY <1>5, <1>8, <1>9, <1>10, <1>11, <1>12, <1>13, StoredStep DEF ghosts, Typed, TypeOK
<1> QED BY <1>2, <1>5, <1>6, <1>8, <1>9, <1>10, <1>14

\* Dispatcher j goes to another place with its step, its harness and its run.
LEMMA RequestDoes ==
  ASSUME Typed, NEW j \in Jobs, job[j].pc \in {"candidate", "sent", "loop", "after"},
         NEW x \in JobType, x.pc \in {"candidate", "sent", "finish"},
         x.run = job[j].run, x.ver = job[j].ver, x.h = job[j].h, x.step = job[j].step,
         x.pc = "finish" => x.out \in Final, Becomes(j, x)
  PROVE  /\ Moves(j) /\ job'[j] = x /\ Placed(x, run)
<1>1. Moves(j) /\ job'[j] = x
  BY BecomesMoves DEF Typed
<1>2. Placed(x, run)
  BY Busy DEF Placed, Conversing, Stepping
<1> QED BY <1>1, <1>2

LEMMA Request ==
  ASSUME Typed, NEW j \in Jobs
  PROVE  /\ job[j].req \in [route : Nat, cost : Nat, usage : Nat, notSent : BOOLEAN]
         /\ job[j].out \in Final \cup {"WAIT"}
BY Fields DEF Typed, JobType

LEMMA SendDoes ==
  ASSUME Typed, NEW j \in Jobs, NEW cost \in Usages \cup {0}, Send(j, cost)
  PROVE  /\ Typed' /\ Moves(j) /\ job[j].pc = "candidate" /\ job'[j].pc = "sent"
         /\ job'[j].run = job[j].run /\ job'[j].ver = job[j].ver /\ job'[j].h = job[j].h
         /\ job'[j].step = job[j].step /\ job[j].step \in Runs
         /\ job'[j].req.cost = cost /\ job'[j].req.usage = job[j].req.usage
         /\ job'[j].req.notSent = FALSE
         /\ paid'[job[j].step] = paid[job[j].step] + (IF cost = 0 THEN 0 ELSE 1)
         /\ bill'[job[j].step] = bill[job[j].step] + cost
         /\ \A q \in Runs \ {job[j].step} : paid'[q] = paid[q] /\ bill'[q] = bill[q]
<1>1. job[j].pc = "candidate" /\ job[j].step \in Runs /\ cost \in Nat
  BY Busy, LimitsAssumption DEF Send, At, Stepping
<1> DEFINE req == [job[j].req EXCEPT !.cost = cost, !.notSent = FALSE]
           x == [job[j] EXCEPT !.pc = "sent", !.req = req, !.out = job[j].out]
<1>2. /\ req \in [route : Nat, cost : Nat, usage : Nat, notSent : BOOLEAN]
      /\ req.cost = cost /\ req.usage = job[j].req.usage /\ req.notSent = FALSE
  BY <1>1, Request
<1>3. Becomes(j, x)
  <2>1. [job[j] EXCEPT !.pc = "sent", !.req.cost = cost, !.req.notSent = FALSE] = x
    BY Fields DEF Typed, JobType
  <2> QED BY <2>1 DEF Send
<1> HIDE DEF req
<1>4. /\ x \in JobType /\ x.pc = "sent" /\ x.run = job[j].run /\ x.ver = job[j].ver
      /\ x.h = job[j].h /\ x.step = job[j].step /\ x.req = req
  BY <1>2, Fields, Request DEF Typed, JobType
<1> HIDE DEF x
<1>12. Moves(j) /\ job'[j] = x /\ Placed(x, run)
  BY <1>1, <1>3, <1>4, RequestDoes
<1>5. PICK n \in {0, 1} : n = IF cost = 0 THEN 0 ELSE 1
  OBVIOUS
<1>6. /\ paid' = [paid EXCEPT ![job[j].step] = @ + n]
      /\ bill' = [bill EXCEPT ![job[j].step] = @ + cost]
  BY <1>5 DEF Send
<1>7. /\ paid' \in [Runs -> Nat] /\ bill' \in [Runs -> Nat]
      /\ paid'[job[j].step] = paid[job[j].step] + n
      /\ bill'[job[j].step] = bill[job[j].step] + cost
      /\ \A q \in Runs \ {job[j].step} : paid'[q] = paid[q] /\ bill'[q] = bill[q]
  BY <1>1, <1>6 DEF Typed, TypeOK
<1>8. UNCHANGED <<stored, access, world, commits>>
  BY DEF Send
<1>9. Kept /\ \A r \in Runs : Left(r)'
  BY <1>8, LeftSame DEF Kept, stored
<1>10. Placed(job'[j], run')
  BY <1>12, <1>8 DEF stored
<1>11. Typed'
  BY <1>12, <1>7, <1>8, <1>9, <1>10, StoredStep DEF stored, Typed, TypeOK
<1> QED BY <1>1, <1>2, <1>4, <1>5, <1>7, <1>11, <1>12

\* A run outside of a conversation ends, one in a conversation fails.
LEMMA GiveUpDoes ==
  ASSUME Typed, NEW j \in Jobs, job[j].pc \in {"candidate", "sent", "loop", "after"},
         NEW out \in {"FAILED", "INTERRUPTED"}, GiveUp(j, out),
         UNCHANGED <<stored, access, world, ghosts>>
  PROVE  /\ Typed' /\ Moves(j) /\ job'[j].run = job[j].run /\ job'[j].step = job[j].step
         /\ \/ Plain(j) /\ job'[j].pc = "finish" /\ job'[j].req = job[j].req
            \/ /\ ~ Plain(j) /\ job'[j].pc = "persist" /\ job'[j].ver = job[j].ver
               /\ \E mode \in Failing : job'[j].h = [job[j].h EXCEPT !.mode = mode]
               /\ job'[j].req = NewRequest
<1>1. /\ job[j].pc # "idle" /\ job[j].step \in Runs /\ job[j] \in JobType
      /\ run[job[j].run].session \in Sessions \cup {NoSession}
  BY Busy, Fields DEF Stepping, Conversing, Typed, RunType
<1>2. CASE Plain(j)
  <2> DEFINE x == [job[j] EXCEPT !.pc = "finish", !.out = out]
  <2>1. /\ x \in JobType /\ x.pc = "finish" /\ x.run = job[j].run /\ x.ver = job[j].ver
        /\ x.h = job[j].h /\ x.step = job[j].step /\ x.req = job[j].req /\ x.out = out
        /\ out \in Final
    BY <1>1 DEF JobType, Final
  <2>2. Becomes(j, x)
    BY <1>2 DEF GiveUp
  <2> HIDE DEF x
  <2>3. Moves(j) /\ job'[j] = x /\ Placed(x, run)
    BY <2>1, <2>2, RequestDoes
  <2>4. Typed'
    BY <2>3, OnlyMoves DEF Typed, TypeOK
  <2> QED BY <1>2, <2>1, <2>3, <2>4
<1>3. CASE ~ Plain(j)
  <2>1. PICK mode \in Failing : Fail(j, mode)
    BY <1>3 DEF GiveUp, Failing
  <2>2. run[job[j].run].session \in Sessions
    BY <1>1, <1>3 DEF Plain
  <2> QED BY <1>1, <1>3, <2>1, <2>2, FailDoes
<1> QED BY <1>2, <1>3

LEMMA NotSentDoes ==
  ASSUME Typed, NEW j \in Jobs, NotSent(j)
  PROVE  /\ Typed' /\ Moves(j) /\ job'[j].run = job[j].run /\ job'[j].step = job[j].step
         /\ \/ /\ job'[j].pc = "candidate" /\ job'[j].ver = job[j].ver /\ job'[j].h = job[j].h
               /\ job'[j].req.cost = job[j].req.cost /\ job'[j].req.usage = job[j].req.usage
            \/ /\ Plain(j) /\ job'[j].pc = "finish" /\ job'[j].req.cost = job[j].req.cost
               /\ job'[j].req.usage = job[j].req.usage
            \/ /\ ~ Plain(j) /\ job'[j].pc = "persist" /\ job'[j].ver = job[j].ver
               /\ job'[j].h = [job[j].h EXCEPT !.mode = "ERROR"] /\ job'[j].req = NewRequest
<1>1. /\ job[j].pc = "sent" /\ job[j].step \in Runs /\ job[j] \in JobType
      /\ run[job[j].run].session \in Sessions \cup {NoSession}
      /\ job[j].req \in [route : Nat, cost : Nat, usage : Nat, notSent : BOOLEAN]
  BY Busy, Fields DEF NotSent, At, Stepping, Typed, RunType, JobType
<1>2. UNCHANGED <<stored, access, world, ghosts>>
  BY DEF NotSent
<1>3. CASE Becomes(j, [job[j] EXCEPT !.pc = "candidate", !.req.route = @ + 1, !.req.notSent = TRUE])
  <2>1. PICK n \in Nat : n = job[j].req.route + 1
    BY <1>1
  <2> DEFINE req == [job[j].req EXCEPT !.route = n, !.notSent = TRUE]
             x == [job[j] EXCEPT !.pc = "candidate", !.req = req]
  <2>2. /\ req \in [route : Nat, cost : Nat, usage : Nat, notSent : BOOLEAN]
        /\ req.cost = job[j].req.cost /\ req.usage = job[j].req.usage
    BY <1>1
  <2>3. Becomes(j, x)
    BY <1>3, <2>1
  <2> HIDE DEF req
  <2>4. /\ x \in JobType /\ x.pc = "candidate" /\ x.run = job[j].run /\ x.ver = job[j].ver
        /\ x.h = job[j].h /\ x.step = job[j].step /\ x.req = req
    BY <1>1, <2>2 DEF JobType
  <2> HIDE DEF x
  <2>5. Moves(j) /\ job'[j] = x /\ Placed(x, run)
    BY <1>1, <2>3, <2>4, RequestDoes
  <2>6. Typed'
    BY <1>2, <2>5, OnlyMoves DEF Typed, TypeOK
  <2> QED BY <2>2, <2>4, <2>5, <2>6
<1>4. CASE /\ Plain(j)
           /\ Becomes(j, [job[j] EXCEPT !.pc = "finish", !.out = "FAILED", !.req.notSent = TRUE])
  <2> DEFINE req == [job[j].req EXCEPT !.notSent = TRUE]
             x == [job[j] EXCEPT !.pc = "finish", !.out = "FAILED", !.req = req]
  <2>1. /\ req \in [route : Nat, cost : Nat, usage : Nat, notSent : BOOLEAN]
        /\ req.cost = job[j].req.cost /\ req.usage = job[j].req.usage
    BY <1>1
  <2>2. Becomes(j, x)
    BY <1>4
  <2> HIDE DEF req
  <2>3. /\ x \in JobType /\ x.pc = "finish" /\ x.run = job[j].run /\ x.ver = job[j].ver
        /\ x.h = job[j].h /\ x.step = job[j].step /\ x.req = req /\ x.out \in Final
    BY <1>1, <2>1 DEF JobType, Final
  <2> HIDE DEF x
  <2>4. Moves(j) /\ job'[j] = x /\ Placed(x, run)
    BY <1>1, <2>2, <2>3, RequestDoes
  <2>5. Typed'
    BY <1>2, <2>4, OnlyMoves DEF Typed, TypeOK
  <2> QED BY <1>4, <2>1, <2>3, <2>4, <2>5
<1>5. CASE ~ Plain(j) /\ Fail(j, "ERROR")
  <2>1. run[job[j].run].session \in Sessions
    BY <1>1, <1>5 DEF Plain
  <2> QED BY <1>1, <1>2, <1>5, <2>1, FailDoes DEF Failing
<1> QED BY <1>3, <1>4, <1>5 DEF NotSent

LEMMA UnknownDoes ==
  ASSUME Typed, NEW j \in Jobs, Unknown(j)
  PROVE  /\ Typed' /\ Moves(j) /\ job'[j].run = job[j].run /\ job'[j].step = job[j].step
         /\ \/ /\ Plain(j) /\ job'[j].pc = "finish" /\ job'[j].req.cost = job[j].req.cost
               /\ job'[j].req.usage \in {0, job[j].req.cost}
               /\ job'[j].req.notSent = job[j].req.notSent
            \/ /\ ~ Plain(j) /\ job'[j].pc = "persist" /\ job'[j].ver = job[j].ver
               /\ job'[j].h = [job[j].h EXCEPT !.mode = "ERROR"] /\ job'[j].req = NewRequest
<1>1. /\ job[j].pc = "sent" /\ job[j].step \in Runs /\ job[j] \in JobType
      /\ run[job[j].run].session \in Sessions \cup {NoSession}
      /\ job[j].req \in [route : Nat, cost : Nat, usage : Nat, notSent : BOOLEAN]
  BY Busy, Fields DEF Unknown, At, Stepping, Typed, RunType, JobType
<1>2. UNCHANGED <<stored, access, world, ghosts>>
  BY DEF Unknown
<1>3. CASE Plain(j)
  <2>1. PICK usage \in {0, job[j].req.cost} :
          Becomes(j, [job[j] EXCEPT !.pc = "finish", !.out = "FAILED", !.req.usage = usage])
    BY <1>3 DEF Unknown
  <2> DEFINE req == [job[j].req EXCEPT !.usage = usage]
             x == [job[j] EXCEPT !.pc = "finish", !.out = "FAILED", !.req = req]
  <2>2. /\ req \in [route : Nat, cost : Nat, usage : Nat, notSent : BOOLEAN]
        /\ req.cost = job[j].req.cost /\ req.usage = usage /\ req.notSent = job[j].req.notSent
    BY <1>1
  <2>3. Becomes(j, x)
    BY <2>1
  <2> HIDE DEF req
  <2>4. /\ x \in JobType /\ x.pc = "finish" /\ x.run = job[j].run /\ x.ver = job[j].ver
        /\ x.h = job[j].h /\ x.step = job[j].step /\ x.req = req /\ x.out \in Final
    BY <1>1, <2>2 DEF JobType, Final
  <2> HIDE DEF x
  <2>5. Moves(j) /\ job'[j] = x /\ Placed(x, run)
    BY <1>1, <2>3, <2>4, RequestDoes
  <2>6. Typed'
    BY <1>2, <2>5, OnlyMoves DEF Typed, TypeOK
  <2> QED BY <1>3, <2>2, <2>4, <2>5, <2>6
<1>4. CASE ~ Plain(j)
  <2>1. run[job[j].run].session \in Sessions /\ Fail(j, "ERROR")
    BY <1>1, <1>4 DEF Plain, Unknown
  <2> QED BY <1>1, <1>2, <1>4, <2>1, FailDoes DEF Failing
<1> QED BY <1>3, <1>4

LEMMA AnswerDoes ==
  ASSUME Typed, NEW j \in Jobs, Answer(j)
  PROVE  /\ Typed' /\ Moves(j) /\ job'[j].run = job[j].run /\ job'[j].step = job[j].step
         /\ job'[j].req.cost = job[j].req.cost /\ job'[j].req.usage \in {0, job[j].req.cost}
         /\ job'[j].req.notSent = job[j].req.notSent
         /\ \/ Plain(j) /\ job'[j].pc = "finish"
            \/ /\ ~ Plain(j) /\ job'[j].pc = "after" /\ job'[j].ver = job[j].ver
               /\ job'[j].h = [job[j].h EXCEPT !.steps = job[j].h.steps + 1]
<1>1. /\ job[j].pc = "sent" /\ job[j].step \in Runs /\ job[j] \in JobType
      /\ run[job[j].run].session \in Sessions \cup {NoSession}
      /\ job[j].req \in [route : Nat, cost : Nat, usage : Nat, notSent : BOOLEAN]
      /\ job[j].h \in HarnessType
  BY Busy, Fields DEF Answer, At, Stepping, Typed, RunType, JobType
<1>2. UNCHANGED <<stored, access, world, ghosts>>
  BY DEF Answer
<1>3. PICK usage \in {0, job[j].req.cost} :
        Becomes(j, IF Plain(j)
          THEN [job[j] EXCEPT !.pc = "finish", !.req.usage = usage, !.out = "SUCCEEDED"]
          ELSE [job[j] EXCEPT !.pc = "after", !.req.usage = usage, !.h.steps = @ + 1])
  BY DEF Answer
<1> DEFINE req == [job[j].req EXCEPT !.usage = usage]
<1>4. /\ req \in [route : Nat, cost : Nat, usage : Nat, notSent : BOOLEAN]
      /\ req.cost = job[j].req.cost /\ req.usage = usage /\ req.notSent = job[j].req.notSent
  BY <1>1
<1>5. CASE Plain(j)
  <2> DEFINE x == [job[j] EXCEPT !.pc = "finish", !.req = req, !.out = "SUCCEEDED"]
  <2>1. Becomes(j, x)
    BY <1>3, <1>5
  <2> HIDE DEF req
  <2>2. /\ x \in JobType /\ x.pc = "finish" /\ x.run = job[j].run /\ x.ver = job[j].ver
        /\ x.h = job[j].h /\ x.step = job[j].step /\ x.req = req /\ x.out \in Final
    BY <1>1, <1>4 DEF JobType, Final
  <2> HIDE DEF x
  <2>3. Moves(j) /\ job'[j] = x /\ Placed(x, run)
    BY <1>1, <2>1, <2>2, RequestDoes
  <2>4. Typed'
    BY <1>2, <2>3, OnlyMoves DEF Typed, TypeOK
  <2> QED BY <1>4, <1>5, <2>2, <2>3, <2>4
<1>6. CASE ~ Plain(j)
  <2>1. PICK n \in Nat : n = job[j].h.steps + 1
    BY <1>1 DEF HarnessType
  <2> DEFINE h == [job[j].h EXCEPT !.steps = n]
             x == [job[j] EXCEPT !.pc = "after", !.req = req, !.h = h]
  <2>2. h \in HarnessType
    BY <1>1 DEF HarnessType
  <2>3. Becomes(j, x)
    BY <1>3, <1>6, <2>1
  <2> HIDE DEF req, h
  <2>4. /\ x \in JobType /\ x.pc = "after" /\ x.run = job[j].run /\ x.ver = job[j].ver
        /\ x.h = h /\ x.step = job[j].step /\ x.req = req
    BY <1>1, <1>4, <2>2 DEF JobType
  <2> HIDE DEF x
  <2>5. Moves(j) /\ job'[j] = x
    BY <2>3, <2>4, BecomesMoves DEF Typed
  <2>6. Placed(x, run)
    BY <1>1, <1>6, <2>4, Busy DEF Placed, Plain
  <2>7. Typed'
    BY <1>2, <2>5, <2>6, OnlyMoves DEF Typed, TypeOK
  <2> QED BY <1>4, <1>6, <2>1, <2>4, <2>5, <2>7 DEF h
<1> QED BY <1>5, <1>6

LEMMA AfterAt ==
  ASSUME Typed, NEW j \in Jobs, job[j].pc = "after"
  PROVE  /\ job[j].step \in Runs /\ job[j].run \in Runs /\ job[j] \in JobType
         /\ run[job[j].run].session \in Sessions /\ run[job[j].run].session # NoSession
         /\ job[j].h \in HarnessType /\ job[j].req.usage \in Nat /\ job[j].ver \in Nat
         /\ run[job[j].run].status \notin Begun /\ run[job[j].run].parent = NoRun
BY Busy, Fields, Request, RunsAssumption DEF Stepping, Conversing, Typed

\* The step that was answered is settled: a child ends, the own attempt of the
\* run keeps what was reported for it.
LEMMA SettleStepDoes ==
  ASSUME Typed, NEW j \in Jobs, job[j].pc = "after", Settleable(j), SettleStep(j)
  PROVE  /\ run' \in [Runs -> RunType] /\ attempt' \in [Runs -> AttemptType] /\ Kept
         /\ \A q \in Runs : run'[q].sv = run[q].sv
         /\ \A q \in Runs \ {job[j].step} : run'[q] = run[q] /\ attempt'[q] = attempt[q]
         /\ job[j].step # job[j].run =>
              /\ run[job[j].step].status = "RUNNING" /\ run'[job[j].step].status = "SUCCEEDED"
              /\ attempt'[job[j].step] = Settled(attempt[job[j].step],
                   IF job[j].req.usage # 0 THEN job[j].req.usage ELSE attempt[job[j].step].usage, FALSE)
         /\ job[j].step = job[j].run =>
              /\ run'[job[j].step].status = run[job[j].step].status
              /\ IF job[j].req.usage = 0
                 THEN /\ attempt'[job[j].step] = attempt[job[j].step]
                      /\ run'[job[j].step].version = run[job[j].step].version
                 ELSE /\ attempt'[job[j].step] =
                           Settled(attempt[job[j].step], job[j].req.usage, FALSE)
                      /\ run'[job[j].step].version = run[job[j].step].version + 1
<1> DEFINE r == job[j].run
           q == job[j].step
           usage == job[j].req.usage
<1>1. q \in Runs /\ r \in Runs /\ usage \in Nat
  BY AfterAt
<1>2. CASE q # r
  <2>1. Finished(q, "SUCCEEDED", usage, FALSE)
    BY <1>2 DEF SettleStep
  <2>2. /\ run' \in [Runs -> RunType] /\ attempt' \in [Runs -> AttemptType]
        /\ run'[q].status = "SUCCEEDED"
        /\ \A p \in Runs :
             /\ p # q => run'[p] = run[p] /\ attempt'[p] = attempt[p]
             /\ run'[p].session = run[p].session /\ run'[p].parent = run[p].parent
             /\ run'[p].sv = run[p].sv
    BY <1>1, <2>1, FinishedType DEF Final, Typed
  <2>3. attempt'[q] = Settled(attempt[q], IF usage # 0 THEN usage ELSE attempt[q].usage, FALSE)
    BY <1>1, <2>1 DEF Finished, Typed, TypeOK
  <2>4. run[q].status = "RUNNING"
    BY <1>2 DEF Settleable
  <2>5. Kept
    BY <2>2 DEF Kept, Begun
  <2> QED BY <1>2, <2>2, <2>3, <2>4, <2>5
<1>3. CASE q = r /\ usage = 0
  <2>1. UNCHANGED <<run, attempt>>
    BY <1>3 DEF SettleStep
  <2> QED BY <1>3, <2>1 DEF Kept, Typed, TypeOK
<1>4. CASE q = r /\ usage # 0
  <2>1. /\ attempt' = [attempt EXCEPT ![r] = Settled(attempt[r], usage, FALSE)]
        /\ run' = [run EXCEPT ![r].version = @ + 1]
    BY <1>4 DEF SettleStep
  <2>2. Settled(attempt[r], usage, FALSE) \in AttemptType
    BY <1>1, Fields, SettledType DEF Typed
  <2>3. /\ attempt' \in [Runs -> AttemptType] /\ attempt'[r] = Settled(attempt[r], usage, FALSE)
        /\ \A p \in Runs \ {r} : attempt'[p] = attempt[p]
    BY <1>1, <2>1, <2>2 DEF Typed, TypeOK
  <2>4. /\ run' \in [Runs -> RunType] /\ \A p \in Runs \ {r} : run'[p] = run[p]
        /\ run'[r].version = run[r].version + 1 /\ run'[r].status = run[r].status
        /\ run'[r].session = run[r].session /\ run'[r].parent = run[r].parent
        /\ run'[r].sv = run[r].sv
    BY <1>1, <2>1, Bumped DEF Typed
  <2> QED BY <1>4, <2>3, <2>4 DEF Kept
<1> QED BY <1>2, <1>3, <1>4

LEMMA AfterModelDoes ==
  ASSUME Typed, NEW j \in Jobs, NEW calls \in Answers, AfterModel(j, calls)
  PROVE  /\ Typed' /\ Moves(j) /\ job'[j].pc = "persist"
         /\ job'[j].run = job[j].run /\ job'[j].step = job[j].step /\ job'[j].req = NewRequest
         /\ job'[j].ver = IF job[j].step = job[j].run /\ job[j].req.usage # 0
                          THEN job[j].ver + 1 ELSE job[j].ver
         /\ \/ /\ IsInjective(calls) /\ Range(calls) \cap job[j].h.asked = {}
               /\ job'[j].h = Queued(job[j].h, calls)
            \/ job'[j].h = [job[j].h EXCEPT !.mode = "ERROR"]
<1>1. /\ job[j].pc = "after" /\ Settleable(j) /\ SettleStep(j)
      /\ UNCHANGED <<harness, verdict, session, access, world, ghosts>>
  BY DEF AfterModel, At
<1>2. /\ job[j].step \in Runs /\ job[j].run \in Runs /\ job[j] \in JobType
      /\ run[job[j].run].session \in Sessions /\ job[j].h \in HarnessType
      /\ job[j].req.usage \in Nat /\ job[j].ver \in Nat
      /\ run[job[j].run].status \notin Begun /\ run[job[j].run].parent = NoRun
  BY <1>1, AfterAt
<1>3. /\ run' \in [Runs -> RunType] /\ attempt' \in [Runs -> AttemptType] /\ Kept
      /\ \A q \in Runs \ {job[j].step} : run'[q] = run[q]
      /\ \A q \in Runs : run'[q] = run[q] \/ run[q].status \notin Begun
  BY <1>1, <1>2, SettleStepDoes DEF Begun
<1> DEFINE ownUsage == job[j].step = job[j].run /\ job[j].req.usage # 0
           new == IsInjective(calls) /\ Range(calls) \cap job[j].h.asked = {}
<1>4. PICK v \in Nat : v = IF ownUsage THEN job[j].ver + 1 ELSE job[j].ver
  BY <1>2
<1>5. PICK h \in HarnessType : h = IF new THEN Queued(job[j].h, calls)
                                  ELSE [job[j].h EXCEPT !.mode = "ERROR"]
  BY <1>2, QueuedType, ModeType DEF Failing
<1> DEFINE x == [job[j] EXCEPT !.pc = "persist", !.req = NewRequest, !.ver = v, !.h = h]
<1>6. Becomes(j, x)
  BY <1>4, <1>5 DEF AfterModel
<1>7. /\ x \in JobType /\ x.pc = "persist" /\ x.run = job[j].run /\ x.ver = v /\ x.h = h
      /\ x.step = job[j].step /\ x.req = NewRequest
  <2>1. NewRequest \in [route : Nat, cost : Nat, usage : Nat, notSent : BOOLEAN]
    BY DEF NewRequest
  <2> QED BY <1>2, <2>1 DEF JobType
<1> HIDE DEF x
<1>8. Moves(j) /\ job'[j] = x
  BY <1>6, <1>7, BecomesMoves DEF Typed
<1>9. Placed(job'[j], run')
  BY <1>2, <1>3, <1>7, <1>8 DEF Placed, Kept
<1>10. \A q \in Runs : Left(q)'
  BY <1>1, <1>3, LeftSame DEF Kept
<1>11. Typed'
  BY <1>1, <1>3, <1>8, <1>9, <1>10, StoredStep DEF ghosts, Typed, TypeOK
<1> QED BY <1>4, <1>5, <1>7, <1>8, <1>11

LEMMA LoseAnswerDoes ==
  ASSUME Typed, NEW j \in Jobs, LoseAnswer(j)
  PROVE  /\ Typed' /\ Moves(j) /\ job'[j].pc = "persist"
         /\ job'[j].run = job[j].run /\ job'[j].ver = job[j].ver
         /\ job'[j].h = [job[j].h EXCEPT !.mode = "ERROR"]
         /\ job'[j].step = job[j].step /\ job'[j].req = NewRequest
BY AfterAt, FailDoes DEF LoseAnswer, At, Failing

LEMMA ReleaseDoes ==
  ASSUME Typed, NEW j \in Jobs, Release(j)
  PROVE  /\ Typed' /\ Kept /\ Moves(j) /\ job'[j].pc \in {"idle", "finish"}
         /\ job'[j].pc = "finish" => job'[j].run = job[j].run /\ job'[j].req = job[j].req
         /\ \/ UNCHANGED <<run, attempt>>
            \/ job[j].step \in Runs /\ Finished(job[j].step, "FAILED", 0, FALSE)
<1>1. /\ job[j].pc = "release" /\ job[j].step \in Runs /\ job[j] \in JobType
      /\ job[j].run \in Runs /\ run[job[j].run].status \notin Begun
      /\ run[job[j].run].parent = NoRun
      /\ UNCHANGED <<harness, verdict, session, world, ghosts>>
  BY Busy, Fields DEF Release, At, Stepping, Typed
<1>2. /\ run' \in [Runs -> RunType] /\ attempt' \in [Runs -> AttemptType]
      /\ \A q \in Runs : \/ run'[q] = run[q]
                         \/ run[q].status = "RUNNING" /\ run'[q].status = "FAILED"
      /\ \A q \in Runs : run'[q].session = run[q].session /\ run'[q].parent = run[q].parent
      /\ \/ UNCHANGED <<run, attempt>>
         \/ Finished(job[j].step, "FAILED", 0, FALSE)
  <2>1. CASE Finished(job[j].step, "FAILED", 0, FALSE)
    <3>1. run[job[j].step].status = "RUNNING"
      BY <2>1 DEF Finished
    <3> QED BY <1>1, <2>1, <3>1, FinishedType DEF Final, Typed
  <2>2. CASE UNCHANGED <<run, attempt>>
    BY <2>2 DEF Typed, TypeOK
  <2> QED BY <2>1, <2>2 DEF Release
<1>3. Kept
  BY <1>2 DEF Kept, Begun
<1>4. \A q \in Runs : Left(q)'
  BY <1>1, <1>2, LeftSame DEF Begun
<1>5. PICK out \in Final \cup {"WAIT"} :
        IF out = "WAIT" THEN Idle(j)
        ELSE Becomes(j, [job[j] EXCEPT !.pc = "finish", !.out = out]) /\ UNCHANGED access
  <2>1. job[j].out \in Final \cup {"WAIT"} /\ "FAILED" \in Final
    BY <1>1 DEF JobType, Final
  <2> QED BY <2>1 DEF Release
<1>6. /\ Moves(j) /\ access' \subseteq Jobs /\ Placed(job'[j], run')
      /\ job'[j].pc \in {"idle", "finish"}
      /\ job'[j].pc = "finish" => job'[j].run = job[j].run /\ job'[j].req = job[j].req
  <2>1. CASE out = "WAIT"
    BY <1>5, <2>1, IdleMoves DEF Typed, Placed
  <2>2. CASE out # "WAIT"
    <3> DEFINE x == [job[j] EXCEPT !.pc = "finish", !.out = out]
    <3>1. /\ x \in JobType /\ x.pc = "finish" /\ x.run = job[j].run /\ x.out = out
          /\ x.req = job[j].req /\ out \in Final
      BY <1>1, <1>5, <2>2 DEF JobType
    <3>2. Becomes(j, x) /\ access' = access
      BY <1>5, <2>2
    <3> HIDE DEF x
    <3>3. Moves(j) /\ job'[j] = x
      BY <3>1, <3>2, BecomesMoves DEF Typed
    <3>4. Placed(job'[j], run')
      BY <1>1, <1>3, <3>1, <3>3 DEF Placed, Kept, Conversing, Stepping
    <3> QED BY <3>1, <3>2, <3>3, <3>4 DEF Typed, TypeOK
  <2> QED BY <2>1, <2>2
<1>7. Typed'
  BY <1>1, <1>2, <1>3, <1>4, <1>6, StoredStep DEF ghosts, Typed, TypeOK
<1> QED BY <1>1, <1>2, <1>3, <1>6, <1>7

LEMMA FinishDoes ==
  ASSUME Typed, NEW j \in Jobs, Finish(j)
  PROVE  Typed' /\ Kept /\ Moves(j) /\ job'[j].pc = "idle"
<1>1. job[j].pc = "finish" /\ job[j].out \in Final /\ job[j].req.usage \in Nat
  BY Busy, Request DEF Finish, At
<1> QED BY <1>1, EndDoes DEF Finish

-----------------------------------------------------------------------------
(* The person, the days and the process of the host. *)

\* A step that changes no stored run and no dispatcher.
LEMMA NobodyMoves ==
  ASSUME Typed, UNCHANGED <<run, harness, job>>, TypeOK'
  PROVE  Typed' /\ Kept
BY DEF Typed, Placed, Left, Kept

LEMMA ProposeDoes ==
  ASSUME Typed, NEW r \in Runs, NEW s \in Sessions \cup {NoSession}, Propose(r, s)
  PROVE  /\ Typed' /\ Kept /\ run[r].status = "NONE" /\ run'[r].status = "WAITING_APPROVAL"
         /\ run'[r].parent = NoRun /\ \A q \in Runs \ {r} : run'[q] = run[q]
<1>1. PICK n \in Nat : n = IF s = NoSession THEN 0 ELSE session[s].version + 1
  BY Fields DEF Typed
<1> DEFINE x == [NewRun EXCEPT !.status = "WAITING_APPROVAL", !.version = 1, !.session = s,
                               !.sv = n]
<1>2. x \in RunType /\ x.status = "WAITING_APPROVAL" /\ x.parent = NoRun /\ x.session = s
  <2>1. NewRun.parent = NoRun
    BY DEF NewRun
  <2> QED BY <2>1, Constants DEF RunType
<1>3. run' = [run EXCEPT ![r] = x]
  BY <1>1 DEF Propose
<1> HIDE DEF x
<1>4. run' \in [Runs -> RunType] /\ run'[r] = x /\ \A q \in Runs \ {r} : run'[q] = run[q]
  BY <1>2, <1>3, RunBecomes DEF Typed
<1>5. run[r].status = "NONE" /\ UNCHANGED <<harness, verdict, attempt, job, access, world, ghosts>>
  BY DEF Propose, Fresh
<1>6. session' \in [Sessions -> [live : BOOLEAN, version : Nat, count : Nat]]
  <2>1. session' = session \/ session' = Appended(s, 1)
    BY DEF Propose
  <2> QED BY <2>1, AppendedType DEF Typed, TypeOK
<1>7. Kept
  BY <1>4, <1>5 DEF Kept, Begun
<1>8. \A q \in Runs : Left(q)'
  <2>1. harness[r].mode = "RUNNING"
    BY <1>5 DEF Typed, Left
  <2>2. \A q \in Runs : q = r => Left(q)'
    BY <1>2, <1>4, <1>5, <2>1 DEF Left
  <2>3. \A q \in Runs : q # r => Left(q)'
    BY <1>4, <1>5, LeftSame
  <2> QED BY <2>2, <2>3
<1>9. TypeOK'
  BY <1>4, <1>5, <1>6 DEF Typed, TypeOK, world, ghosts
<1> QED BY <1>2, <1>4, <1>5, <1>7, <1>8, <1>9, TypedRest

LEMMA ApproveDoes ==
  ASSUME Typed, NEW r \in Runs, NEW j \in Jobs, Approve(r, j)
  PROVE  /\ Typed' /\ Kept /\ Moves(j) /\ job[j].pc = "idle" /\ job'[j].pc = "reserve"
         /\ job'[j].run = r /\ job'[j].ver = run[r].version + 1 /\ job'[j].req = NewRequest
         /\ run[r].status = "WAITING_APPROVAL" /\ run'[r].status = "RUNNING"
         /\ run'[r].version = run[r].version + 1 /\ run'[r].parent = NoRun
         /\ \A q \in Runs \ {r} : run'[q] = run[q]
<1>1. /\ run[r].status = "WAITING_APPROVAL" /\ Dispatch(j, r, run[r].version + 1)
      /\ UNCHANGED <<harness, verdict, attempt, session, world, ghosts>>
  BY DEF Approve
<1>2. run[r].parent = NoRun /\ run[r].version + 1 \in Nat
  BY <1>1, Fields DEF Typed, Left, RunType
<1>3. /\ run' \in [Runs -> RunType] /\ \A q \in Runs \ {r} : run'[q] = run[q]
      /\ run'[r].version = run[r].version + 1 /\ run'[r].status = "RUNNING"
      /\ run'[r].session = run[r].session /\ run'[r].parent = run[r].parent
  <2>1. day \in Nat
    BY DEF Typed, TypeOK
  <2>2. run' = [run EXCEPT ![r].status = "RUNNING", ![r].version = @ + 1, ![r].approved = day]
    BY DEF Approve
  <2> QED BY <2>1, <2>2, Judged DEF Typed
<1>4. /\ Moves(j) /\ job[j].pc = "idle" /\ access' \subseteq Jobs
      /\ job'[j].pc = "reserve" /\ job'[j].run = r /\ job'[j].ver = run[r].version + 1
      /\ job'[j].req = NewRequest
  BY <1>1, <1>2, DispatchMoves DEF Typed
<1>5. Kept
  BY <1>1, <1>3 DEF Kept, Begun
<1>6. Placed(job'[j], run')
  BY <1>2, <1>3, <1>4 DEF Placed, Conversing, Stepping, Begun
<1>7. \A q \in Runs : Left(q)'
  <2>1. \A q \in Runs : q = r => Left(q)'
    BY <1>1, <1>3 DEF Left, Typed
  <2>2. \A q \in Runs : q # r => Left(q)'
    BY <1>1, <1>3, LeftSame
  <2> QED BY <2>1, <2>2
<1>8. Typed'
  BY <1>1, <1>3, <1>4, <1>5, <1>6, <1>7, StoredStep DEF ghosts, Typed, TypeOK
<1> QED BY <1>1, <1>2, <1>3, <1>4, <1>5, <1>8

LEMMA DecideCallDoes ==
  ASSUME Typed, NEW r \in Runs, NEW decision \in {"APPROVED", "REJECTED"}, NEW j \in Jobs,
         DecideCall(r, decision, j)
  PROVE  /\ Typed' /\ Kept /\ Moves(j) /\ job[j].pc = "idle" /\ job'[j].pc = "reserve"
         /\ job'[j].run = r /\ job'[j].ver = run[r].version + 1 /\ job'[j].req = NewRequest
         /\ run[r].status = "RUNNING" /\ run'[r].status = "RUNNING"
         /\ run'[r].version = run[r].version + 1
         /\ \A q \in Runs \ {r} : run'[q] = run[q]
         /\ \A q \in Runs : \A c \in Calls :
              q # r \/ c # Head(harness[r].pending) => verdict'[q][c] = verdict[q][c]
<1>1. /\ run[r].status = "RUNNING" /\ harness[r].mode = "WAITING_APPROVAL"
      /\ harness[r].pending # <<>> /\ Dispatch(j, r, run[r].version + 1)
      /\ UNCHANGED <<harness, attempt, session, world, ghosts>>
  BY DEF DecideCall, Waiting
<1>2. run[r].parent = NoRun /\ run[r].version + 1 \in Nat /\ run[r].session \in Sessions
  BY <1>1, Fields DEF Typed, Left, RunType
<1>3. /\ run' \in [Runs -> RunType] /\ \A q \in Runs \ {r} : run'[q] = run[q]
      /\ run'[r].version = run[r].version + 1 /\ run'[r].status = run[r].status
      /\ run'[r].session = run[r].session /\ run'[r].parent = run[r].parent
  BY Bumped DEF DecideCall, Typed
<1>4. /\ Moves(j) /\ job[j].pc = "idle" /\ access' \subseteq Jobs
      /\ job'[j].pc = "reserve" /\ job'[j].run = r /\ job'[j].ver = run[r].version + 1
      /\ job'[j].req = NewRequest
  BY <1>1, <1>2, DispatchMoves DEF Typed
<1>5. Kept
  BY <1>1, <1>3 DEF Kept, Begun
<1>6. Placed(job'[j], run')
  BY <1>1, <1>2, <1>3, <1>4 DEF Placed, Conversing, Stepping, Begun
<1>7. \A q \in Runs : Left(q)'
  BY <1>1, <1>3, LeftSame DEF Begun
<1>8. PICK c \in Calls : c = Head(harness[r].pending)
  BY <1>1, Fields DEF Typed, HarnessType
<1>9. PICK n \in Nat : n = session[run[r].session].version
  BY <1>2, Fields DEF Typed
<1>10. verdict' = [verdict EXCEPT ![r][c] = [decision |-> decision, sv |-> n]]
  BY <1>8, <1>9 DEF DecideCall
<1>11. verdict' \in [Runs -> VerdictType]
  BY <1>10 DEF Typed, TypeOK, VerdictType
<1>12. \A q \in Runs : \A d \in Calls : q # r \/ d # c => verdict'[q][d] = verdict[q][d]
  BY <1>10 DEF Typed, TypeOK, VerdictType
<1>13. Typed'
  BY <1>1, <1>3, <1>4, <1>5, <1>6, <1>7, <1>11, StoredStep DEF ghosts, Typed, TypeOK
<1> QED BY <1>1, <1>3, <1>4, <1>5, <1>8, <1>12, <1>13

\* A run that ends at a request of its owner or at the start of the host.
LEMMA EndsDoes ==
  ASSUME Typed, NEW r \in Runs, Stop(r) \/ Recover(r)
  PROVE  Typed' /\ Kept /\ Finished(r, "INTERRUPTED", 0, FALSE) /\ run[r].status = "RUNNING"
<1>1. /\ Finished(r, "INTERRUPTED", 0, FALSE) /\ Reports(r, 1) /\ run[r].status = "RUNNING"
      /\ UNCHANGED <<harness, verdict, job, access, world, ghosts>>
  BY DEF Stop, Recover, Finished
<1>2. /\ run' \in [Runs -> RunType] /\ attempt' \in [Runs -> AttemptType]
      /\ run'[r].status = "INTERRUPTED"
      /\ \A q \in Runs :
           /\ q # r => run'[q] = run[q]
           /\ run'[q].session = run[q].session /\ run'[q].parent = run[q].parent
  BY <1>1, FinishedType DEF Final, Typed
<1>3. session' \in [Sessions -> [live : BOOLEAN, version : Nat, count : Nat]]
  BY <1>1, ReportsType DEF Typed
<1>4. Kept
  BY <1>2 DEF Kept, Begun
<1>5. \A q \in Runs : Left(q)'
  BY <1>1, <1>2, LeftSame DEF Begun
<1>6. TypeOK'
  BY <1>1, <1>2, <1>3 DEF Typed, TypeOK, world, ghosts
<1> QED BY <1>1, <1>4, <1>5, <1>6, TypedRest

LEMMA RejectDoes ==
  ASSUME Typed, NEW r \in Runs, Reject(r)
  PROVE  /\ Typed' /\ Kept /\ run[r].status = "WAITING_APPROVAL"
         /\ run'[r].status = "REJECTED" /\ run'[r].parent = NoRun
         /\ \A q \in Runs \ {r} : run'[q] = run[q]
<1>1. /\ run[r].status = "WAITING_APPROVAL" /\ Reports(r, 1)
      /\ UNCHANGED <<harness, verdict, attempt, job, access, world, ghosts>>
  BY DEF Reject
<1>2. /\ run' \in [Runs -> RunType] /\ \A q \in Runs \ {r} : run'[q] = run[q]
      /\ run'[r].status = "REJECTED"
      /\ run'[r].session = run[r].session /\ run'[r].parent = run[r].parent
  <2>1. 0 \in Nat
    OBVIOUS
  <2> QED BY <2>1, Judged DEF Reject, Typed
<1>3. session' \in [Sessions -> [live : BOOLEAN, version : Nat, count : Nat]]
  BY <1>1, ReportsType DEF Typed
<1>4. Kept
  BY <1>1, <1>2 DEF Kept, Begun
<1>5. \A q \in Runs : Left(q)'
  <2>1. \A q \in Runs : q = r => Left(q)'
    BY <1>1, <1>2 DEF Left, Typed
  <2>2. \A q \in Runs : q # r => Left(q)'
    BY <1>1, <1>2, LeftSame
  <2> QED BY <2>1, <2>2
<1>6. TypeOK'
  BY <1>1, <1>2, <1>3 DEF Typed, TypeOK, world, ghosts
<1> QED BY <1>1, <1>2, <1>4, <1>5, <1>6, TypedRest DEF Typed, Left

LEMMA ChangeSessionDoes ==
  ASSUME Typed, NEW s \in Sessions, ChangeSession(s)
  PROVE  Typed' /\ Kept
<1>1. Allow("edit") /\ UNCHANGED <<run, harness, verdict, attempt, job, access, stale, host, day, ghosts>>
  BY DEF ChangeSession
<1>2. session' \in [Sessions -> [live : BOOLEAN, version : Nat, count : Nat]]
  <2>1. CASE session' = [session EXCEPT ![s].version = @ + 1]
    BY <2>1 DEF Typed, TypeOK
  <2>2. CASE session' = [session EXCEPT ![s].version = @ + 1, ![s].live = ~@]
    <3>1. session' = [session EXCEPT ![s] = [session[s] EXCEPT !.version = session[s].version + 1,
                                                             !.live = ~ session[s].live]]
      BY <2>2
    <3>2. /\ session[s] \in [live : BOOLEAN, version : Nat, count : Nat]
          /\ session[s].version + 1 \in Nat /\ (~ session[s].live) \in BOOLEAN
      BY DEF Typed, TypeOK
    <3> QED BY <3>1, <3>2 DEF Typed, TypeOK
  <2>3. CASE session' = Appended(s, 2)
    BY <2>3, AppendedType DEF Typed
  <2> QED BY <2>1, <2>2, <2>3 DEF ChangeSession
<1>3. spent' \in [DOMAIN Allowed -> Nat]
  BY <1>1, AllowType, Kinds DEF Typed
<1>4. TypeOK'
  BY <1>1, <1>2, <1>3 DEF Typed, TypeOK, ghosts
<1> QED BY <1>1, <1>4, NobodyMoves

LEMMA WorldDoes ==
  ASSUME Typed,
         \/ \E r \in Runs : ChangeContext(r)
         \/ \E j \in Jobs : EndLogin(j)
         \/ NewDay \/ Start
  PROVE  Typed' /\ UNCHANGED <<stored, job, ghosts>>
<1>1. UNCHANGED <<stored, job, ghosts>>
  BY DEF ChangeContext, EndLogin, NewDay, Start
<1>2. spent' \in [DOMAIN Allowed -> Nat] /\ stale' \subseteq Runs /\ access' \subseteq Jobs
      /\ host' \in {"up", "down"} /\ day' \in Nat
  <2>1. ASSUME NEW r \in Runs, ChangeContext(r)
        PROVE  /\ spent' \in [DOMAIN Allowed -> Nat] /\ stale' \subseteq Runs
               /\ access' \subseteq Jobs /\ host' \in {"up", "down"} /\ day' \in Nat
    BY <2>1, AllowType, Kinds DEF ChangeContext, Typed, TypeOK
  <2>2. ASSUME NEW j \in Jobs, EndLogin(j)
        PROVE  /\ spent' \in [DOMAIN Allowed -> Nat] /\ stale' \subseteq Runs
               /\ access' \subseteq Jobs /\ host' \in {"up", "down"} /\ day' \in Nat
    BY <2>2, AllowType, Kinds DEF EndLogin, Typed, TypeOK
  <2>3. CASE NewDay
    BY <2>3, AllowType, Kinds DEF NewDay, Typed, TypeOK
  <2>4. CASE Start
    BY <2>4 DEF Start, Typed, TypeOK
  <2> QED BY <2>1, <2>2, <2>3, <2>4
<1>3. TypeOK'
  BY <1>1, <1>2 DEF stored, ghosts, Typed, TypeOK
<1> QED BY <1>1, <1>3, NobodyMoves DEF stored

LEMMA CrashDoes ==
  ASSUME Typed, Crash
  PROVE  Typed' /\ UNCHANGED <<stored, ghosts>> /\ \A j \in Jobs : job'[j].pc = "idle"
<1>1. /\ job' = [j \in Jobs |-> NoJob] /\ access' = {} /\ host' = "down" /\ Allow("crash")
      /\ UNCHANGED <<stored, stale, day, ghosts>>
  BY DEF Crash
<1>2. spent' \in [DOMAIN Allowed -> Nat]
  BY <1>1, AllowType, Kinds DEF Typed
<1>3. job' \in [Jobs -> JobType] /\ \A j \in Jobs : job'[j].pc = "idle"
  BY <1>1, Constants
<1>4. TypeOK'
  BY <1>1, <1>2, <1>3 DEF stored, ghosts, Typed, TypeOK
<1> QED BY <1>1, <1>3, <1>4 DEF stored, Typed, Placed, Left

-----------------------------------------------------------------------------
(* Every step keeps the types, and whatever was approved. *)

LEMMA InitTyped == Init => Typed
<1> SUFFICES ASSUME Init PROVE Typed
  OBVIOUS
<1>1. /\ run = [r \in Runs |-> NewRun] /\ harness = [r \in Runs |-> NewHarness]
      /\ job = [j \in Jobs |-> NoJob]
  BY DEF Init
<1>2. TypeOK
  <2>1. run \in [Runs -> RunType] /\ harness \in [Runs -> HarnessType]
        /\ job \in [Jobs -> JobType] /\ \A j \in Jobs : job[j].pc = "idle"
    BY <1>1, Constants
  <2>2. verdict \in [Runs -> VerdictType] /\ attempt \in [Runs -> AttemptType]
    BY Constants DEF Init, VerdictType
  <2>3. /\ session \in [Sessions -> [live : BOOLEAN, version : Nat, count : Nat]]
        /\ access \subseteq Jobs /\ stale \subseteq Runs /\ host \in {"up", "down"} /\ day \in Nat
        /\ spent \in [DOMAIN Allowed -> Nat]
        /\ paid \in [Runs -> Nat] /\ bill \in [Runs -> Nat]
        /\ commits \in [Runs -> [Calls -> Nat]]
    BY DEF Init
  <2> QED BY <2>1, <2>2, <2>3 DEF TypeOK
<1> QED BY <1>1, <1>2, Constants DEF Typed, Placed, Left, NewRun, NewHarness

LEMMA DispatcherTyped ==
  ASSUME Typed, NEW j \in Jobs, Dispatcher(j) \/ Interrupt(j)
  PROVE  Typed' /\ Kept
<1>1. UNCHANGED run => Kept
  BY DEF Kept
<1>2. CASE ReserveAttempt(j) \/ Resume(j) \/ Refuse(j) \/ Refused(j)
  BY <1>1, <1>2, ReserveAttemptDoes, ResumeDoes, RefuseDoes, RefusedDoes
     DEF Resume, Refuse, stored
<1>3. CASE AskHuman(j) \/ ApprovedCall(j) \/ RejectedCall(j) \/ LoseCall(j) \/ ExecuteCall(j)
  BY <1>1, <1>3, AskHumanDoes, ApprovedCallDoes, SkipCallDoes, LoseCallDoes, ExecuteCallDoes
     DEF AskHuman, ApprovedCall, stored
<1>4. CASE RefuseCall(j) \/ LoseExecution(j) \/ Save(j) \/ SaveFails(j)
  BY <1>1, <1>4, SkipCallDoes, LoseCallDoes, SaveDoes, SaveFailsDoes DEF SaveFails, stored
<1>5. CASE FirstStep(j) \/ NoStep(j) \/ \E q \in Runs : NextStep(j, q)
  BY <1>1, <1>5, FirstStepDoes, LoseCallDoes, NextStepDoes DEF FirstStep, stored
<1>6. CASE SendRefused(j)
  BY <1>1, <1>6, GiveUpDoes DEF SendRefused, At, stored
<1>7. CASE \E cost \in Usages \cup {0} : Send(j, cost)
  BY <1>1, <1>7, SendDoes DEF Send, stored
<1>8. CASE NotSent(j) \/ Unknown(j) \/ Answer(j)
  BY <1>1, <1>8, NotSentDoes, UnknownDoes, AnswerDoes DEF NotSent, Unknown, Answer, stored
<1>9. CASE LoseAnswer(j)
  BY <1>1, <1>9, LoseAnswerDoes DEF LoseAnswer, stored
<1>10. CASE \E calls \in Answers : AfterModel(j, calls)
  <2>1. PICK calls \in Answers : AfterModel(j, calls)
    BY <1>10
  <2>2. job[j].pc = "after" /\ Settleable(j) /\ SettleStep(j)
    BY <2>1 DEF AfterModel, At
  <2> QED BY <2>1, <2>2, AfterModelDoes, SettleStepDoes
<1>11. CASE Release(j) \/ Finish(j)
  BY <1>11, ReleaseDoes, FinishDoes
<1>12. CASE Interrupt(j)
  BY <1>1, <1>12, GiveUpDoes DEF Interrupt, stored
<1> QED BY <1>2, <1>3, <1>4, <1>5, <1>6, <1>7, <1>8, <1>9, <1>10, <1>11, <1>12 DEF Dispatcher

LEMMA PersonTyped ==
  ASSUME Typed, Person
  PROVE  Typed' /\ Kept
<1>1. CASE \E r \in Runs : \E s \in Sessions \cup {NoSession} : Propose(r, s)
  BY <1>1, ProposeDoes
<1>2. CASE \E r \in Runs : Reject(r) \/ Stop(r)
  BY <1>2, RejectDoes, EndsDoes
<1>3. CASE \E r \in Runs : ChangeContext(r)
  BY <1>3, WorldDoes DEF stored, Kept
<1>4. CASE \E r \in Runs : \E j \in Jobs : Approve(r, j)
  BY <1>4, ApproveDoes
<1>5. CASE \E r \in Runs : \E j \in Jobs :
             DecideCall(r, "APPROVED", j) \/ DecideCall(r, "REJECTED", j)
  BY <1>5, DecideCallDoes
<1>6. CASE \E s \in Sessions : ChangeSession(s)
  BY <1>6, ChangeSessionDoes
<1> QED BY <1>1, <1>2, <1>3, <1>4, <1>5, <1>6 DEF Person

LEMMA NextTyped == Typed /\ [Next]_vars => Typed' /\ Kept
<1> SUFFICES ASSUME Typed, [Next]_vars PROVE Typed' /\ Kept
  OBVIOUS
<1>1. CASE Person
  BY <1>1, PersonTyped
<1>2. CASE NewDay \/ Start \/ \E j \in Jobs : EndLogin(j)
  BY <1>2, WorldDoes DEF stored, Kept
<1>3. CASE Crash
  BY <1>3, CrashDoes DEF stored, Kept
<1>4. CASE \E r \in Runs : Recover(r)
  BY <1>4, EndsDoes
<1>5. CASE \E j \in Jobs : Dispatcher(j) \/ Interrupt(j)
  BY <1>5, DispatcherTyped
<1>6. CASE UNCHANGED vars
  <2>1. TypeOK'
    BY <1>6 DEF vars, stored, world, ghosts, Typed, TypeOK
  <2> QED BY <1>6, <2>1, NobodyMoves DEF vars, stored
<1> QED BY <1>1, <1>2, <1>3, <1>4, <1>5, <1>6 DEF Next

LEMMA AlwaysTyped == Spec => []Typed
BY InitTyped, NextTyped, PTL DEF Spec

\* The stored runs, harnesses, approvals, attempts and conversations keep their
\* types, and a dispatcher at work has a run.
THEOREM TypeCorrect == Spec => []TypeOK
BY AlwaysTyped, PTL DEF Typed

-----------------------------------------------------------------------------
(* What is over stays over, and one run works at a time. *)

\* A step of this kind leaves the runs that are over alone, and starts none.
Quiet ==
  \A q \in Runs :
    /\ run[q].status \in Final =>
         run'[q] = run[q] /\ attempt'[q] = attempt[q] /\ harness'[q] = harness[q]
    /\ run'[q].status = "RUNNING" => run[q].status = "RUNNING"

LEMMA FinishedQuiet ==
  ASSUME Typed, NEW r \in Runs, NEW status \in Final, NEW usage \in Nat, NEW notSent,
         Finished(r, status, usage, notSent), UNCHANGED harness
  PROVE  Quiet
<1>1. run[r].status = "RUNNING"
  BY DEF Finished
<1>2. run'[r].status = status /\ \A q \in Runs : q # r => run'[q] = run[q] /\ attempt'[q] = attempt[q]
  BY FinishedType DEF Typed
<1> QED BY <1>1, <1>2 DEF Quiet, Final

LEMMA StoredQuiet == UNCHANGED stored => Quiet
BY DEF stored, Quiet

\* A step that stores what a dispatcher has done needs a run that is running.
LEMMA ValidRuns ==
  ASSUME Typed, NEW j \in Jobs,
         ReserveAttempt(j) \/ ExecuteCall(j) \/ Save(j) \/ \E calls \in Answers : AfterModel(j, calls)
  PROVE  run[job[j].run].status = "RUNNING" /\ job[j].run \in Runs /\ job[j].pc # "idle"
<1>1. run[job[j].run].status = "RUNNING"
  BY DEF ReserveAttempt, Reservable, ExecuteCall, Save, Saveable, AfterModel, Settleable, Valid
<1>2. job[j].pc # "idle"
  BY DEF ReserveAttempt, ExecuteCall, Executing, Working, Save, AfterModel, At
<1> QED BY <1>1, <1>2, Busy

LEMMA DispatcherQuiet ==
  ASSUME Typed, NEW j \in Jobs, Dispatcher(j) \/ Interrupt(j),
         \A q \in Runs : ~ NextStep(j, q)
  PROVE  Quiet
<1>1. CASE UNCHANGED stored
  BY <1>1, StoredQuiet
<1>2. CASE ReserveAttempt(j)
  BY <1>2, ValidRuns, ReserveAttemptDoes DEF ReserveAttempt, Quiet, Final
<1>3. CASE ExecuteCall(j) \/ Save(j)
  <2>1. /\ run'[job[j].run].status = run[job[j].run].status
        /\ \A q \in Runs \ {job[j].run} : run'[q] = run[q] /\ harness'[q] = harness[q]
        /\ attempt' = attempt
    BY <1>3, ExecuteCallDoes, SaveDoes DEF ExecuteCall, Save
  <2> QED BY <1>3, <2>1, ValidRuns DEF Quiet, Final
<1>4. CASE \E calls \in Answers : AfterModel(j, calls)
  <2>1. job[j].pc = "after" /\ Settleable(j) /\ SettleStep(j) /\ harness' = harness
    BY <1>4 DEF AfterModel, At
  <2>2. job[j].step \in Runs
    BY <2>1, AfterAt
  <2> QED BY <1>4, <2>1, <2>2, ValidRuns, SettleStepDoes DEF Quiet, Final
<1>5. CASE Release(j)
  <2>1. CASE UNCHANGED <<run, attempt>>
    BY <1>5, <2>1 DEF Release, Quiet
  <2>2. CASE job[j].step \in Runs /\ Finished(job[j].step, "FAILED", 0, FALSE)
    BY <1>5, <2>2, FinishedQuiet DEF Release, Final
  <2> QED BY <1>5, <2>1, <2>2, ReleaseDoes
<1>6. CASE Refused(j)
  <2>1. job[j].run \in Runs /\ harness' = harness
    BY <1>6, Busy DEF Refused, At
  <2>2. CASE UNCHANGED <<run, attempt, session>>
    BY <2>1, <2>2 DEF Quiet
  <2>3. CASE Finished(job[j].run, "FAILED", 0, FALSE)
    BY <2>1, <2>3, FinishedQuiet DEF Final
  <2> QED BY <1>6, <2>2, <2>3 DEF Refused
<1>7. CASE Finish(j)
  <2>1. /\ job[j].run \in Runs /\ harness' = harness /\ job[j].out \in Final
        /\ job[j].req.usage \in Nat
    BY <1>7, Busy, Request DEF Finish, At
  <2>2. CASE UNCHANGED <<run, attempt, session>>
    BY <2>1, <2>2 DEF Quiet
  <2>3. CASE Finished(job[j].run, job[j].out, job[j].req.usage, Plain(j) /\ job[j].req.notSent)
    BY <2>1, <2>3, FinishedQuiet
  <2> QED BY <1>7, <2>2, <2>3 DEF Finish
<1>8. CASE \/ Resume(j) \/ Refuse(j) \/ AskHuman(j) \/ ApprovedCall(j) \/ RejectedCall(j)
           \/ LoseCall(j) \/ RefuseCall(j) \/ LoseExecution(j) \/ SaveFails(j)
           \/ FirstStep(j) \/ NoStep(j) \/ SendRefused(j)
           \/ NotSent(j) \/ Unknown(j) \/ Answer(j) \/ LoseAnswer(j) \/ Interrupt(j)
           \/ \E cost \in Usages \cup {0} : Send(j, cost)
  <2>1. UNCHANGED stored
    BY <1>8 DEF Resume, Refuse, AskHuman, ApprovedCall, RejectedCall, LoseCall, RefuseCall,
       LoseExecution, SaveFails, FirstStep, NoStep, SendRefused, NotSent, Unknown, Answer,
       LoseAnswer, Interrupt, Send
  <2> QED BY <2>1, StoredQuiet
<1> QED BY <1>2, <1>3, <1>4, <1>5, <1>6, <1>7, <1>8 DEF Dispatcher

\* Only an approval and a further step start a run.
LEMMA NextQuiet ==
  ASSUME Typed, [Next]_vars
  PROVE  \/ Quiet
         \/ \E r \in Runs : \E j \in Jobs : Approve(r, j)
         \/ \E j \in Jobs : \E q \in Runs : NextStep(j, q)
<1>1. CASE \E r \in Runs : \E s \in Sessions \cup {NoSession} : Propose(r, s)
  BY <1>1, ProposeDoes DEF Propose, Quiet, Final
<1>2. CASE \E r \in Runs : Reject(r)
  BY <1>2, RejectDoes DEF Reject, Quiet, Final
<1>3. CASE \E r \in Runs : Stop(r) \/ Recover(r)
  BY <1>3, FinishedQuiet, EndsDoes DEF Stop, Recover, Final
<1>4. CASE \E r \in Runs : \E j \in Jobs :
             DecideCall(r, "APPROVED", j) \/ DecideCall(r, "REJECTED", j)
  BY <1>4, DecideCallDoes DEF DecideCall, Quiet, Final
<1>5. CASE \E s \in Sessions : ChangeSession(s)
  BY <1>5 DEF ChangeSession, Quiet
<1>6. CASE \E r \in Runs : ChangeContext(r)
  BY <1>6, StoredQuiet DEF ChangeContext
<1>7. CASE NewDay \/ Start \/ Crash \/ (\E j \in Jobs : EndLogin(j)) \/ UNCHANGED vars
  BY <1>7, StoredQuiet DEF NewDay, Start, Crash, EndLogin, vars
<1>8. CASE \E j \in Jobs : Dispatcher(j) \/ Interrupt(j)
  BY <1>8, DispatcherQuiet
<1> QED BY <1>1, <1>2, <1>3, <1>4, <1>5, <1>6, <1>7, <1>8 DEF Next, Person

LEMMA NextFinished ==
  ASSUME Typed, [Next]_vars, NEW r \in Runs, run[r].status \in Final
  PROVE  run'[r] = run[r] /\ attempt'[r] = attempt[r] /\ harness'[r] = harness[r]
<1>1. CASE Quiet
  BY <1>1 DEF Quiet
<1>2. CASE \E q \in Runs : \E j \in Jobs : Approve(q, j)
  BY <1>2, ApproveDoes DEF Approve, Final
<1>3. CASE \E j \in Jobs : \E q \in Runs : NextStep(j, q)
  BY <1>3, NextStepDoes DEF NextStep, Final
<1> QED BY <1>1, <1>2, <1>3, NextQuiet

\* A run that is over - succeeded, failed, interrupted or rejected - keeps its
\* record, its money and its harness, whatever late dispatcher, answer, release
\* or recovery comes after it.
THEOREM FinishedRunsStay == Spec => FinishedStays
<1>1. Typed /\ [Next]_vars =>
        [\A r \in Runs : run[r].status \in Final =>
           /\ run'[r] = run[r] /\ attempt'[r] = attempt[r] /\ harness'[r] = harness[r]]_vars
  BY NextFinished
<1> QED BY <1>1, AlwaysTyped, PTL DEF Spec, FinishedStays

LEMMA NextOne == Typed /\ OneRunning /\ [Next]_vars => OneRunning'
<1> SUFFICES ASSUME Typed, OneRunning, [Next]_vars
             PROVE  OneRunning'
  OBVIOUS
<1>1. Kept
  BY NextTyped
<1>2. CASE Quiet
  BY <1>1, <1>2 DEF Quiet, Kept, OneRunning, Begun
<1>3. ASSUME NEW r \in Runs, NEW j \in Jobs, Approve(r, j)
      PROVE  OneRunning'
  <2>1. \A q \in Runs : run[q].status # "RUNNING"
    BY <1>3, RunsAssumption DEF Approve, Approvable
  <2>2. \A q \in Runs \ {r} : run'[q] = run[q]
    BY <1>3, ApproveDoes
  <2> QED BY <2>1, <2>2 DEF OneRunning
<1>4. ASSUME NEW j \in Jobs, NEW child \in Runs, NextStep(j, child)
      PROVE  OneRunning'
  <2>1. job[j].run \in Runs /\ run[job[j].run].parent = NoRun
    BY <1>4, Busy DEF NextStep, Asking, At
  <2>2. \A q \in Runs : run[q].status = "RUNNING" => q = job[j].run
    BY <1>4 DEF NextStep, MayStep, Approvable
  <2>3. run'[child].parent # NoRun /\ \A q \in Runs \ {child} : run'[q] = run[q]
    BY <1>4, <2>1, NextStepDoes, RunsAssumption
  <2> QED BY <2>1, <2>2, <2>3 DEF OneRunning
<1> QED BY <1>2, <1>3, <1>4, NextQuiet

\* However many dispatchers, windows and children there are, one approved run is
\* running at most, and one child of a step: what decide counts before it approves.
THEOREM OneRunsAtATime == Spec => []OneRunning
<1>1. Init => OneRunning
  BY DEF Init, NewRun, OneRunning
<1> QED BY <1>1, NextOne, AlwaysTyped, PTL DEF Spec
=============================================================================
