----------------------- MODULE AgentRunsSafety_proofs -----------------------
(***************************************************************************)
(* The money and the writes of AgentRuns, for any runs, dispatchers, calls,*)
(* answers, limits and bounds: an attempt pays one provider at most, what  *)
(* a provider charges is covered by what the ledger charges, the bills of  *)
(* a day stay within the budget, a write is executed once at most and only *)
(* when it was approved, and no running run is left without a dispatcher.  *)
(***************************************************************************)
EXTENDS AgentRuns_proofs, WellFoundedInduction

-----------------------------------------------------------------------------
(* The steps of a run, and the dispatchers that take them.                     *)

\* Places of a dispatcher: at work on a harness, with a request of its step, and
\* with an attempt that was reserved.
Work == {"loop", "execute", "persist", "candidate", "sent", "after"}
Asked == {"candidate", "sent", "after"}
Spending == Work \cup {"release", "finish"}

\* A dispatcher x with the runs rn, attempts at and harnesses hn.  The first
\* dispatcher of a run has a harness without a step; who resumes the run, one
\* with a step.  A step other than the run itself is a child of it.
Steps(x, rn, at, hn) ==
  /\ x.pc \in Spending => at[x.run].state # "NONE"
  /\ x.pc \in Work /\ x.h.steps = 0 => x.h.pending = <<>> /\ hn[x.run].steps = 0
  /\ x.pc = "persist" /\ x.h.steps = 0 => x.h.mode # "RUNNING"
  /\ x.pc = "after" => x.h.steps # 0
  /\ x.pc = "reserve" /\ at[x.run].state # "NONE" /\ rn[x.run].session # NoSession
       => hn[x.run].steps # 0
  /\ x.pc \in Asked /\ x.step # x.run =>
       /\ rn[x.step].parent = x.run /\ rn[x.step].status \notin Begun
       /\ at[x.step].state # "NONE"
  /\ x.pc \in {"candidate", "sent"} /\ x.step = x.run => x.h.steps = 0

\* Two dispatchers: a run is reserved by one at a time, taken up from its start by
\* one only, and no step of it is in two requests.
Apart(x, y, rn) ==
  /\ ~ (x.pc = "reserve" /\ y.pc = "reserve" /\ x.run = y.run)
  /\ x.pc \in Work /\ y.pc \in Work /\ x.run = y.run => x.h.steps # 0 /\ y.h.steps # 0
  /\ x.pc \in Asked /\ y.pc \in Asked /\ x.step = y.step => x.pc = "after" /\ y.pc = "after"
  /\ x.pc \in Spending /\ y.pc \in Spending /\ x.run = y.run => rn[x.run].session # NoSession

\* A run with its attempt a and its harness h.
Stored(r, rn, a, h) ==
  /\ rn[r].status \in Begun => a.state = "NONE"
  /\ a.state = "NONE" => h.steps = 0
  /\ h.steps = 0 => h.pending = <<>>

StepInv ==
  /\ \A r \in Runs : Stored(r, run, attempt[r], harness[r])
  /\ \A j \in Jobs : Steps(job[j], run, attempt, harness)
  /\ \A j, k \in Jobs : j # k => Apart(job[j], job[k], run)

LEMMA ApartSymmetric ==
  \A x, y, rn : Apart(x, y, rn) => Apart(y, x, rn)
BY DEF Apart

\* An attempt that was reserved is never again without money.
Reserves(j) ==
  \A q \in Runs :
    /\ attempt[q].state # "NONE" => attempt'[q].state # "NONE"
    /\ attempt[q].state = "NONE" /\ attempt'[q].state # "NONE" =>
         (q = job[j].run /\ job[j].pc = "reserve") \/ run[q].status = "NONE"

\* A harness changes only where a dispatcher at work on it saves its own.
Saves(j) ==
  \A q \in Runs :
    \/ harness'[q] = harness[q]
    \/ /\ q = job[j].run /\ job[j].pc \in Work
       /\ harness'[q].steps = job[j].h.steps

\* The others, when dispatcher j moves.
LEMMA OthersSteps ==
  ASSUME Typed, StepInv, NEW j \in Jobs, Moves(j), Kept, Reserves(j), Saves(j),
         NEW k \in Jobs, k # j
  PROVE  Steps(job'[k], run', attempt', harness')
<1> DEFINE x == job[k]
<1>1. job'[k] = x /\ Steps(x, run, attempt, harness) /\ Apart(job[j], x, run)
  BY DEF Moves, StepInv
<1>2. CASE x.pc = "idle"
  BY <1>1, <1>2 DEF Steps, Spending, Work, Asked
<1>3. CASE x.pc # "idle"
  <2>1. /\ x.run \in Runs /\ run[x.run].status \notin Begun
        /\ x.pc \in Stepping => x.step \in Runs
    BY <1>3, Busy
  <2>2. run'[x.run].session = run[x.run].session /\ run'[x.run].status \notin Begun
    BY <2>1 DEF Kept
  <2>3. x.pc \in Spending => attempt'[x.run].state # "NONE"
    BY <1>1, <2>1 DEF Steps, Reserves
  <2>4. x.pc \in Work /\ x.h.steps = 0 => x.h.pending = <<>> /\ harness'[x.run].steps = 0
    BY <1>1, <2>1 DEF Steps, Saves, Apart
  <2>5. x.pc = "reserve" /\ attempt'[x.run].state # "NONE" /\ run'[x.run].session # NoSession
          => harness'[x.run].steps # 0
    <3>1. SUFFICES ASSUME x.pc = "reserve", attempt'[x.run].state # "NONE",
                          run'[x.run].session # NoSession
                   PROVE  harness'[x.run].steps # 0
      OBVIOUS
    <3>2. attempt[x.run].state # "NONE"
      BY <1>1, <2>1, <3>1 DEF Reserves, Apart, Begun
    <3>3. harness[x.run].steps # 0
      BY <1>1, <2>2, <3>1, <3>2 DEF Steps
    <3>4. job[j].pc \in Work /\ job[j].run = x.run => job[j].h.steps # 0
      BY <3>3 DEF StepInv, Steps
    <3> QED BY <2>1, <3>3, <3>4 DEF Saves
  <2>6. x.pc \in Asked /\ x.step # x.run =>
          /\ run'[x.step].parent = x.run /\ run'[x.step].status \notin Begun
          /\ attempt'[x.step].state # "NONE"
    BY <1>1, <2>1 DEF Steps, Kept, Reserves, Asked, Stepping, Conversing
  <2>7. /\ x.pc = "persist" /\ x.h.steps = 0 => x.h.mode # "RUNNING"
        /\ x.pc = "after" => x.h.steps # 0
        /\ x.pc \in {"candidate", "sent"} /\ x.step = x.run => x.h.steps = 0
    BY <1>1 DEF Steps
  <2> QED BY <1>1, <2>3, <2>4, <2>5, <2>6, <2>7 DEF Steps
<1> QED BY <1>2, <1>3

LEMMA OthersApart ==
  ASSUME Typed, StepInv, NEW j \in Jobs, Moves(j), Kept,
         NEW k \in Jobs \ {j}, NEW l \in Jobs \ {j}, k # l
  PROVE  Apart(job'[k], job'[l], run')
<1>1. job'[k] = job[k] /\ job'[l] = job[l] /\ Apart(job[k], job[l], run)
  BY DEF Moves, StepInv
<1>2. job[k].pc \in Spending => run'[job[k].run].session = run[job[k].run].session
  BY Busy DEF Kept, Spending, Work
<1> QED BY <1>1, <1>2 DEF Apart

\* The invariant after a step of dispatcher j.
LEMMA StepsMove ==
  ASSUME Typed, StepInv, NEW j \in Jobs, Moves(j), Kept, Reserves(j), Saves(j),
         Steps(job'[j], run', attempt', harness'),
         \A k \in Jobs \ {j} : Apart(job'[j], job[k], run'),
         \A q \in Runs : Stored(q, run', attempt'[q], harness'[q])
  PROVE  StepInv'
<1>1. \A k \in Jobs : Steps(job'[k], run', attempt', harness')
  BY OthersSteps
<1>2. ASSUME NEW k \in Jobs, NEW l \in Jobs, k # l
      PROVE  Apart(job'[k], job'[l], run')
  <2>1. CASE k = j
    BY <1>2, <2>1 DEF Moves
  <2>2. CASE l = j
    BY <1>2, <2>2, ApartSymmetric DEF Moves
  <2>3. CASE k # j /\ l # j
    BY <1>2, <2>3, OthersApart
  <2> QED BY <2>1, <2>2, <2>3
<1> QED BY <1>1, <1>2 DEF StepInv

\* A dispatcher that takes up nothing: y is x, later in the same work.
Follows(y, x) ==
  /\ y.pc # "reserve"
  /\ y.pc \in Work => x.pc \in Work /\ y.run = x.run /\ (y.h.steps = 0 => x.h.steps = 0)
  /\ y.pc \in Asked => /\ x.pc \in Asked /\ y.step = x.step
                       /\ x.pc = "after" => y.pc = "after"
  /\ y.pc \in Spending => x.pc \in Spending /\ y.run = x.run

LEMMA FollowsApart ==
  ASSUME Typed, StepInv, Kept, NEW j \in Jobs, NEW y, Follows(y, job[j])
  PROVE  \A k \in Jobs \ {j} : Apart(y, job[k], run')
<1> SUFFICES ASSUME NEW k \in Jobs \ {j}
             PROVE  Apart(y, job[k], run')
  OBVIOUS
<1>1. Apart(job[j], job[k], run)
  BY DEF StepInv
<1>2. job[j].pc \in Spending => run'[job[j].run].session = run[job[j].run].session
  BY Busy DEF Kept, Spending, Work
<1> QED BY <1>1, <1>2 DEF Apart, Follows

\* What is stored, when only runs that are over or running change.
LEMMA StoredSame ==
  ASSUME Typed, StepInv, NEW q \in Runs,
         harness'[q] = harness[q], attempt'[q] = attempt[q],
         run'[q].status \in Begun => run[q].status \in Begun
  PROVE  Stored(q, run', attempt'[q], harness'[q])
BY DEF StepInv, Stored

LEMMA SettledState ==
  ASSUME NEW a \in AttemptType, NEW usage, NEW notSent
  PROVE  Settled(a, usage, notSent).state = "NONE" <=> a.state = "NONE"
BY DEF Settled, AttemptType

\* A run that ends, or an attempt that is settled, reserves nothing.
SameReserved == \A q \in Runs : attempt'[q].state = "NONE" <=> attempt[q].state = "NONE"

LEMMA FinishedReserved ==
  ASSUME Typed, NEW r \in Runs, NEW status \in Final, NEW usage \in Nat, NEW notSent,
         Finished(r, status, usage, notSent)
  PROVE  SameReserved
<1>1. /\ attempt[r] \in AttemptType /\ \A q \in Runs : q # r => attempt'[q] = attempt[q]
  BY Fields, FinishedType DEF Typed
<1>2. attempt'[r] = Settled(attempt[r], IF usage # 0 THEN usage ELSE attempt[r].usage, notSent)
  BY DEF Finished, Typed, TypeOK
<1> QED BY <1>1, <1>2, SettledState DEF SameReserved

\* A step that reserves nothing and saves no harness.
LEMMA SameStored ==
  ASSUME Typed, StepInv, SameReserved, UNCHANGED harness, Kept,
         \A q \in Runs : run'[q].status \in Begun => run[q].status \in Begun
  PROVE  /\ \A j \in Jobs : Reserves(j) /\ Saves(j)
         /\ \A q \in Runs : Stored(q, run', attempt'[q], harness'[q])
BY DEF SameReserved, Reserves, Saves, StepInv, Stored

\* A step that only moves a dispatcher on in its work.
LEMMA OnlyFollows ==
  ASSUME Typed, StepInv, NEW j \in Jobs, Moves(j), UNCHANGED stored,
         Follows(job'[j], job[j]), Steps(job'[j], run, attempt, harness)
  PROVE  StepInv'
<1>1. run' = run /\ attempt' = attempt /\ harness' = harness
  BY DEF stored
<1>2. Kept /\ SameReserved
  BY <1>1 DEF Kept, SameReserved
<1>3. \A k \in Jobs \ {j} : Apart(job'[j], job[k], run')
  BY <1>2, FollowsApart
<1> QED BY <1>1, <1>2, <1>3, SameStored, StepsMove

\* A dispatcher that has come to its end.
LEMMA IdleFollows ==
  ASSUME NEW y, y.pc \in {"idle", "refused"}
  PROVE  /\ \A x : Follows(y, x) /\ \A rn, at, hn : Steps(y, rn, at, hn)
BY DEF Follows, Steps, Work, Asked, Spending

\* A harness that fails, ends or asks keeps its steps and its calls.
LEMMA ModeKeeps ==
  ASSUME NEW h \in HarnessType, NEW mode
  PROVE  /\ [h EXCEPT !.mode = mode].steps = h.steps /\ [h EXCEPT !.mode = mode].mode = mode
         /\ [h EXCEPT !.mode = mode].pending = h.pending
         /\ [h EXCEPT !.mode = mode].asked = h.asked
BY DEF HarnessType

LEMMA AfterCallKeeps ==
  ASSUME NEW h \in HarnessType, NEW c, NEW executed
  PROVE  /\ AfterCall(h, c, executed).steps = h.steps
         /\ AfterCall(h, c, executed).pending = Tail(h.pending)
         /\ AfterCall(h, c, executed).asked = h.asked
<1>1. PICK n : n = IF executed /\ c \in Writes THEN h.writes + 1 ELSE h.writes
  OBVIOUS
<1>2. AfterCall(h, c, executed) =
        [h EXCEPT !.pending = Tail(h.pending), !.answered = h.answered \cup {c}, !.writes = n]
  BY <1>1 DEF AfterCall
<1> QED BY <1>2 DEF HarnessType

\* A save that follows work on the same step, with a harness that is not fresh
\* or is not going on.
LEMMA PersistSteps ==
  ASSUME Typed, StepInv, NEW j \in Jobs, job[j].pc \in Work, Moves(j), UNCHANGED stored,
         job'[j].pc = "persist", job'[j].run = job[j].run, job'[j].h.steps = job[j].h.steps,
         \/ job'[j].h.pending = job[j].h.pending /\ job'[j].h.mode # "RUNNING"
         \/ job[j].h.pending # <<>>
  PROVE  StepInv'
<1>1. Steps(job[j], run, attempt, harness)
  BY DEF StepInv
<1>2. Follows(job'[j], job[j])
  BY DEF Follows, Work, Asked, Spending
<1>3. Steps(job'[j], run, attempt, harness)
  BY <1>1 DEF Steps, Work, Asked, Spending
<1> QED BY <1>2, <1>3, OnlyFollows

\* A step in which no dispatcher moves, or only to its end.
LEMMA RestSteps ==
  ASSUME Typed, StepInv, UNCHANGED harness, SameReserved, Kept,
         \A k \in Jobs : job'[k] = job[k] \/ job'[k].pc = "idle",
         \A q \in Runs : run'[q].status \in Begun => run[q].status \in Begun
  PROVE  StepInv'
<1>1. \A q \in Runs : Stored(q, run', attempt'[q], harness'[q])
  BY SameStored
<1>2. ASSUME NEW k \in Jobs
      PROVE  Steps(job'[k], run', attempt', harness')
  <2>1. CASE job'[k].pc = "idle"
    BY <2>1, IdleFollows
  <2>2. CASE job'[k] = job[k] /\ job[k].pc # "idle"
    <3> DEFINE x == job[k]
    <3>1. Steps(x, run, attempt, harness)
      BY DEF StepInv
    <3>2. /\ x.run \in Runs /\ run[x.run].status \notin Begun
          /\ x.pc \in Asked => x.step \in Runs
      BY <2>2, Busy DEF Asked, Stepping, Conversing
    <3>3. /\ attempt'[x.run].state = "NONE" <=> attempt[x.run].state = "NONE"
          /\ run'[x.run].session = run[x.run].session
          /\ harness'[x.run] = harness[x.run]
      BY <3>2 DEF SameReserved, Kept
    <3>4. x.pc \in Asked /\ x.step # x.run =>
            /\ run'[x.step].parent = x.run /\ run'[x.step].status \notin Begun
            /\ attempt'[x.step].state # "NONE"
      BY <3>1, <3>2 DEF Steps, Kept, SameReserved
    <3> QED BY <2>2, <3>1, <3>3, <3>4 DEF Steps
  <2> QED BY <2>1, <2>2
<1>3. ASSUME NEW k \in Jobs, NEW l \in Jobs, k # l
      PROVE  Apart(job'[k], job'[l], run')
  <2>1. Apart(job[k], job[l], run)
    BY <1>3 DEF StepInv
  <2>2. job[k].pc \in Spending => run'[job[k].run].session = run[job[k].run].session
    BY Busy DEF Kept, Spending, Work
  <2> QED BY <2>1, <2>2 DEF Apart, Work, Asked, Spending
<1> QED BY <1>1, <1>2, <1>3 DEF StepInv

-----------------------------------------------------------------------------
(* Each action keeps it.                                                       *)

\* A dispatcher that reserves or resumes.
LEMMA ReserveSteps ==
  ASSUME Typed, StepInv, NEW j \in Jobs, ReserveAttempt(j)
  PROVE  StepInv'
<1> DEFINE r == job[j].run
           y == job'[j]
<1>1. /\ Moves(j) /\ Kept /\ y.pc \in {"candidate", "loop"} /\ y.run = r /\ y.step = r
      /\ y.h = harness[r] /\ attempt'[r] = Reserved
      /\ run'[r].status = run[r].status
      /\ \A q \in Runs \ {r} : run'[q] = run[q] /\ attempt'[q] = attempt[q]
  BY ReserveAttemptDoes
<1>2. /\ job[j].pc = "reserve" /\ attempt[r].state = "NONE" /\ harness' = harness
  BY DEF ReserveAttempt, At, Reservable
<1>3. r \in Runs /\ run[r].status \notin Begun /\ run[r].parent = NoRun
  BY <1>2, Busy
<1>4. harness[r].steps = 0 /\ harness[r].pending = <<>> /\ attempt'[r].state # "NONE"
  BY <1>1, <1>2, <1>3 DEF StepInv, Stored, Reserved
<1>5. Reserves(j) /\ Saves(j)
  BY <1>1, <1>2, <1>3 DEF Reserves, Saves
<1>6. Steps(y, run', attempt', harness')
  BY <1>1, <1>2, <1>4 DEF Steps, Asked
<1>7. ASSUME NEW k \in Jobs \ {j}
      PROVE  Apart(y, job[k], run')
  <2>1. Steps(job[k], run, attempt, harness)
    BY DEF StepInv
  <2>2. ~ (job[k].pc \in Spending /\ job[k].run = r)
    BY <1>2, <2>1 DEF Steps
  <2>3. ~ (job[k].pc \in Asked /\ job[k].step = r)
    <3>1. SUFFICES ASSUME job[k].pc \in Asked, job[k].step = r
                   PROVE  FALSE
      OBVIOUS
    <3>2. job[k].run \in Runs /\ job[k].run # r
      BY <2>2, <3>1, Busy DEF Asked, Spending, Work
    <3> QED BY <1>3, <2>1, <3>1, <3>2, RunsAssumption DEF Steps
  <2> QED BY <1>1, <2>2, <2>3 DEF Apart, Work, Spending
<1>8. \A q \in Runs : Stored(q, run', attempt'[q], harness'[q])
  BY <1>1, <1>2, <1>3, <1>4 DEF StepInv, Stored
<1> QED BY <1>1, <1>5, <1>6, <1>7, <1>8, StepsMove

LEMMA ResumeSteps ==
  ASSUME Typed, StepInv, NEW j \in Jobs, Resume(j)
  PROVE  StepInv'
<1> DEFINE r == job[j].run
           y == job'[j]
<1>1. /\ Moves(j) /\ y.pc = "loop" /\ y.run = r
      /\ y.h = [harness[r] EXCEPT !.mode = "RUNNING"]
  BY ResumeDoes
<1>2. /\ job[j].pc = "reserve" /\ attempt[r].state # "NONE" /\ run[r].session # NoSession
      /\ harness' = harness /\ run' = run /\ attempt' = attempt
  BY DEF Resume, At, Resumed, stored
<1>3. harness[r].steps # 0
  BY <1>2 DEF StepInv, Steps
<1>4. y.h.steps # 0
  <2>1. harness[r] \in HarnessType
    BY <1>2, Busy, Fields DEF Typed
  <2> QED BY <1>1, <1>3, <2>1, ModeKeeps
<1>5. Kept /\ SameReserved
  BY <1>2 DEF Kept, SameReserved
<1>6. Steps(y, run', attempt', harness')
  BY <1>1, <1>2, <1>4 DEF Steps, Asked
<1>7. ASSUME NEW k \in Jobs \ {j}
      PROVE  Apart(y, job[k], run')
  <2>1. Steps(job[k], run, attempt, harness) /\ Apart(job[j], job[k], run)
    BY DEF StepInv
  <2>2. job[k].pc \in Work /\ job[k].run = r => job[k].h.steps # 0
    BY <1>3, <2>1 DEF Steps
  <2> QED BY <1>1, <1>2, <1>4, <2>1, <2>2 DEF Apart, Asked
<1> QED BY <1>1, <1>2, <1>5, <1>6, <1>7, SameStored, StepsMove

\* The run asks for its first answer, or for one more in the name of a child.
LEMMA FirstStepSteps ==
  ASSUME Typed, StepInv, NEW j \in Jobs, FirstStep(j)
  PROVE  StepInv'
<1> DEFINE r == job[j].run
           y == job'[j]
<1>1. /\ Moves(j) /\ y.pc = "candidate" /\ y.run = r /\ y.h = job[j].h /\ y.step = r
  BY FirstStepDoes
<1>2. /\ job[j].pc = "loop" /\ job[j].h.steps = 0
      /\ harness' = harness /\ run' = run /\ attempt' = attempt
  BY DEF FirstStep, Asking, At, stored
<1>3. Kept /\ SameReserved /\ r \in Runs /\ run[r].parent = NoRun
  BY <1>2, Busy DEF Kept, SameReserved
<1>4. Steps(y, run', attempt', harness')
  <2>1. Steps(job[j], run, attempt, harness)
    BY DEF StepInv
  <2> QED BY <1>1, <1>2, <2>1 DEF Steps, Asked, Work, Spending
<1>5. ASSUME NEW k \in Jobs \ {j}
      PROVE  Apart(y, job[k], run')
  <2>1. Steps(job[k], run, attempt, harness) /\ Apart(job[j], job[k], run)
    BY DEF StepInv
  <2>2. ~ (job[k].pc \in Work /\ job[k].run = r)
    BY <1>2, <2>1 DEF Apart, Work
  <2>3. ~ (job[k].pc \in Asked /\ job[k].step = r)
    <3>1. SUFFICES ASSUME job[k].pc \in Asked, job[k].step = r
                   PROVE  FALSE
      OBVIOUS
    <3>2. job[k].run \in Runs /\ job[k].run # r
      BY <2>2, <3>1, Busy DEF Asked, Work
    <3> QED BY <1>3, <2>1, <3>1, <3>2, RunsAssumption DEF Steps
  <2> QED BY <1>1, <1>2, <2>1, <2>2, <2>3 DEF Apart, Work, Spending
<1> QED BY <1>1, <1>2, <1>3, <1>4, <1>5, SameStored, StepsMove

LEMMA NextStepSteps ==
  ASSUME Typed, StepInv, NEW j \in Jobs, NEW q \in Runs, NextStep(j, q)
  PROVE  StepInv'
<1> DEFINE r == job[j].run
           y == job'[j]
<1>1. /\ Kept /\ Moves(j) /\ y.pc = "candidate" /\ y.run = r /\ y.h = job[j].h /\ y.step = q
      /\ run[q].status = "NONE" /\ run'[q].status = "RUNNING"
      /\ run'[q].parent = r /\ attempt'[q] = Reserved
      /\ \A p \in Runs \ {q} : run'[p] = run[p] /\ attempt'[p] = attempt[p]
  BY NextStepDoes
<1>2. job[j].pc = "loop" /\ job[j].h.steps # 0 /\ harness' = harness
  BY Busy, Fields DEF NextStep, Asking, At, HarnessType
<1>3. r \in Runs /\ run[r].status \notin Begun /\ r # q
  BY <1>1, <1>2, Busy DEF Begun
<1>4. Reserves(j) /\ Saves(j)
  BY <1>1, <1>2 DEF Reserves, Saves, Reserved
<1>5. attempt'[q].state # "NONE" /\ run'[q].status \notin Begun
  BY <1>1 DEF Reserved, Begun
<1>6. Steps(y, run', attempt', harness')
  <2>1. Steps(job[j], run, attempt, harness)
    BY DEF StepInv
  <2> QED BY <1>1, <1>2, <1>3, <1>5, <2>1 DEF Steps, Asked, Work, Spending
<1>7. ASSUME NEW k \in Jobs \ {j}
      PROVE  Apart(y, job[k], run')
  <2>1. Steps(job[k], run, attempt, harness) /\ Apart(job[j], job[k], run)
    BY DEF StepInv
  <2>2. ~ (job[k].pc \in Asked /\ job[k].step = q)
    BY <1>1, <2>1, Busy DEF Steps, Asked, Begun
  <2> QED BY <1>1, <1>2, <1>3, <2>1, <2>2 DEF Apart, Work, Spending
<1>8. \A p \in Runs : Stored(p, run', attempt'[p], harness'[p])
  BY <1>1, <1>2, <1>5 DEF StepInv, Stored, Begun
<1> QED BY <1>1, <1>4, <1>6, <1>7, <1>8, StepsMove

\* A harness that fails or asks.
LEMMA FailedSteps ==
  ASSUME Typed, StepInv, NEW j \in Jobs, job[j].pc \in Work, Moves(j), UNCHANGED stored,
         job'[j].pc = "persist", job'[j].run = job[j].run,
         \/ job'[j].h = [job[j].h EXCEPT !.mode = "ERROR"]
         \/ job'[j].h = [job[j].h EXCEPT !.mode = "INTERRUPTED"]
         \/ job'[j].h = [job[j].h EXCEPT !.mode = "WAITING_APPROVAL"]
  PROVE  StepInv'
<1>1. job[j].h \in HarnessType
  BY Busy DEF Work
<1>2. /\ job'[j].h.steps = job[j].h.steps /\ job'[j].h.pending = job[j].h.pending
      /\ job'[j].h.mode # "RUNNING"
  BY <1>1 DEF HarnessType
<1> QED BY <1>2, PersistSteps

\* The requests of the dispatchers at work.
LEMMA WorkSteps ==
  ASSUME Typed, StepInv, NEW j \in Jobs,
         \/ Refuse(j) \/ AskHuman(j) \/ LoseCall(j) \/ LoseExecution(j) \/ NoStep(j)
         \/ ApprovedCall(j) \/ RejectedCall(j) \/ RefuseCall(j) \/ SaveFails(j)
  PROVE  StepInv'
<1>1. Steps(job[j], run, attempt, harness)
  BY DEF StepInv
<1>2. CASE Refuse(j)
  BY <1>2, RefuseDoes, IdleFollows, OnlyFollows DEF Refuse
<1>3. CASE AskHuman(j)
  <2>1. job[j].pc = "loop" /\ job[j].h \in HarnessType
    BY <1>3, Busy DEF AskHuman, Working, At
  <2> QED BY <1>3, <2>1, AskHumanDoes, FailedSteps DEF AskHuman, Work
<1>4. CASE LoseCall(j) \/ LoseExecution(j) \/ NoStep(j)
  <2>1. job[j].pc \in {"loop", "execute"} /\ job[j].h \in HarnessType
    BY <1>4, WorkingAt, Busy DEF LoseCall, LoseExecution, NoStep
  <2> QED BY <1>4, <2>1, LoseCallDoes, FailedSteps DEF Work
<1>5. CASE ApprovedCall(j)
  <2>1. job[j].pc = "loop" /\ job[j].h \in HarnessType
    BY <1>5, Busy DEF ApprovedCall, Working, At
  <2>2. CASE job'[j].pc = "execute"
    <3>1. Moves(j) /\ job'[j].run = job[j].run /\ job'[j].h = job[j].h
      BY <1>5, <2>2, ApprovedCallDoes
    <3>2. Follows(job'[j], job[j]) /\ Steps(job'[j], run, attempt, harness)
      BY <1>1, <2>1, <2>2, <3>1 DEF Follows, Steps, Work, Asked, Spending
    <3> QED BY <1>5, <3>1, <3>2, OnlyFollows DEF ApprovedCall
  <2>3. CASE job'[j].pc = "persist"
    BY <1>5, <2>1, <2>3, ApprovedCallDoes, FailedSteps DEF ApprovedCall, Work
  <2> QED BY <1>5, <2>2, <2>3, ApprovedCallDoes
<1>6. CASE RejectedCall(j) \/ RefuseCall(j)
  <2>1. job[j].pc \in {"loop", "execute"} /\ job[j].h \in HarnessType /\ job[j].h.pending # <<>>
    BY <1>6, WorkingAt, Busy DEF RejectedCall, RefuseCall
  <2>2. job'[j].h.steps = job[j].h.steps
    BY <1>6, <2>1, SkipCallDoes, AfterCallKeeps
  <2> QED BY <1>6, <2>1, <2>2, SkipCallDoes, PersistSteps DEF Work
<1>7. CASE SaveFails(j)
  <2>1. job[j].pc = "persist" /\ job[j].h \in HarnessType /\ Moves(j) /\ UNCHANGED stored
    BY <1>7, Busy, SaveFailsDoes DEF SaveFails, At
  <2>2. CASE job'[j].pc = "persist"
    BY <1>7, <2>1, <2>2, SaveFailsDoes, FailedSteps DEF Work
  <2>3. CASE job'[j].pc # "persist"
    <3>1. /\ job'[j].pc \in {"idle", "release", "finish"}
          /\ job'[j].pc # "idle" => job'[j].run = job[j].run /\ job'[j].step = job[j].step
      BY <1>7, <2>3, SaveFailsDoes
    <3>2. Follows(job'[j], job[j]) /\ Steps(job'[j], run, attempt, harness)
      BY <1>1, <2>1, <3>1 DEF Follows, Steps, Work, Asked, Spending
    <3> QED BY <2>1, <3>2, OnlyFollows
  <2> QED BY <2>2, <2>3
<1> QED BY <1>2, <1>3, <1>4, <1>5, <1>6, <1>7

\* The provider.
LEMMA GiveUpSteps ==
  ASSUME Typed, StepInv, NEW j \in Jobs, job[j].pc \in {"candidate", "sent", "loop", "after"},
         NEW out \in {"FAILED", "INTERRUPTED"}, GiveUp(j, out),
         UNCHANGED <<stored, access, world, ghosts>>
  PROVE  StepInv'
<1>1. Steps(job[j], run, attempt, harness) /\ job[j].h \in HarnessType
  BY Busy DEF StepInv
<1>2. Moves(j) /\ job'[j].run = job[j].run /\ UNCHANGED stored
  BY GiveUpDoes DEF stored
<1>3. CASE job'[j].pc = "finish"
  <2>1. Follows(job'[j], job[j]) /\ Steps(job'[j], run, attempt, harness)
    BY <1>1, <1>2, <1>3 DEF Follows, Steps, Work, Asked, Spending
  <2> QED BY <1>2, <2>1, OnlyFollows
<1>4. CASE /\ job'[j].pc = "persist"
           /\ \E mode \in Failing : job'[j].h = [job[j].h EXCEPT !.mode = mode]
  <2>1. \/ job'[j].h = [job[j].h EXCEPT !.mode = "ERROR"]
        \/ job'[j].h = [job[j].h EXCEPT !.mode = "INTERRUPTED"]
    BY <1>4 DEF Failing
  <2> QED BY <1>2, <1>4, <2>1, FailedSteps DEF Work
<1> QED BY <1>3, <1>4, GiveUpDoes

LEMMA RequestSteps ==
  ASSUME Typed, StepInv, NEW j \in Jobs, Moves(j), UNCHANGED stored,
         job[j].pc \in {"candidate", "sent"}, job'[j].run = job[j].run, job'[j].step = job[j].step,
         \/ job'[j].pc \in {"candidate", "sent"} /\ job'[j].h = job[j].h
         \/ job'[j].pc = "after" /\ job'[j].h = [job[j].h EXCEPT !.steps = job[j].h.steps + 1]
         \/ job'[j].pc = "finish"
         \/ job'[j].pc = "persist" /\ job'[j].h = [job[j].h EXCEPT !.mode = "ERROR"]
  PROVE  StepInv'
<1>1. Steps(job[j], run, attempt, harness) /\ job[j].h \in HarnessType
  BY Busy DEF StepInv
<1>2. CASE job'[j].pc = "persist"
  BY <1>1, <1>2, FailedSteps DEF Work
<1>3. CASE job'[j].pc = "after"
  <2>1. job'[j].h.steps # 0
    BY <1>1, <1>3 DEF HarnessType
  <2>2. Follows(job'[j], job[j]) /\ Steps(job'[j], run, attempt, harness)
    BY <1>1, <1>3, <2>1 DEF Follows, Steps, Work, Asked, Spending
  <2> QED BY <2>2, OnlyFollows
<1>4. CASE job'[j].pc \in {"candidate", "sent", "finish"}
  <2>1. Follows(job'[j], job[j]) /\ Steps(job'[j], run, attempt, harness)
    BY <1>1, <1>4 DEF Follows, Steps, Work, Asked, Spending
  <2> QED BY <2>1, OnlyFollows
<1> QED BY <1>2, <1>3, <1>4

LEMMA ProviderSteps ==
  ASSUME Typed, StepInv, NEW j \in Jobs,
         \/ \E cost \in Usages \cup {0} : Send(j, cost)
         \/ SendRefused(j) \/ NotSent(j) \/ Unknown(j) \/ Answer(j) \/ LoseAnswer(j)
         \/ Interrupt(j)
  PROVE  StepInv'
<1>1. ASSUME NEW cost \in Usages \cup {0}, Send(j, cost)
      PROVE  StepInv'
  BY <1>1, SendDoes, RequestSteps DEF Send
<1>2. CASE SendRefused(j)
  BY <1>2, GiveUpSteps DEF SendRefused, At
<1>3. CASE NotSent(j)
  BY <1>3, NotSentDoes, RequestSteps DEF NotSent, At
<1>4. CASE Unknown(j)
  BY <1>4, UnknownDoes, RequestSteps DEF Unknown, At
<1>5. CASE Answer(j)
  BY <1>5, AnswerDoes, RequestSteps DEF Answer, At
<1>6. CASE LoseAnswer(j)
  <2>1. job[j].pc = "after" /\ job[j].h \in HarnessType
    BY <1>6, Busy DEF LoseAnswer, At
  <2> QED BY <1>6, <2>1, LoseAnswerDoes, FailedSteps DEF LoseAnswer, Work
<1>7. CASE Interrupt(j)
  BY <1>7, GiveUpSteps DEF Interrupt
<1> QED BY <1>1, <1>2, <1>3, <1>4, <1>5, <1>6, <1>7

\* A save of the harness a dispatcher works on, and the execution of a call.
LEMMA SaveSteps ==
  ASSUME Typed, StepInv, NEW j \in Jobs, Moves(j), Kept, UNCHANGED attempt,
         job[j].pc \in {"loop", "execute", "persist"},
         NEW h \in HarnessType, harness'[job[j].run] = h, h.steps = job[j].h.steps,
         h.steps = 0 => h.pending = <<>>,
         \A q \in Runs \ {job[j].run} : harness'[q] = harness[q],
         \A q \in Runs : run'[q].status = run[q].status,
         job'[j].pc # "idle" => job'[j].run = job[j].run,
         \/ job'[j].pc \in {"loop", "persist"} /\ job'[j].h = h /\ h.steps # 0
         \/ job'[j].pc \in {"idle", "release", "finish"}
  PROVE  StepInv'
<1> DEFINE r == job[j].run
<1>1. Steps(job[j], run, attempt, harness)
  BY DEF StepInv
<1>2. r \in Runs /\ run[r].status \notin Begun /\ attempt[r].state # "NONE"
  BY <1>1, Busy DEF Steps, Work, Spending
<1>3. Reserves(j) /\ Saves(j)
  BY <1>2 DEF Reserves, Saves, Work
<1>4. \A q \in Runs : Stored(q, run', attempt'[q], harness'[q])
  BY <1>2 DEF StepInv, Stored
<1>5. Follows(job'[j], job[j])
  BY DEF Follows, Work, Asked, Spending
<1>6. Steps(job'[j], run', attempt', harness')
  BY <1>1, <1>2 DEF Steps, Work, Asked, Spending
<1> QED BY <1>3, <1>4, <1>5, <1>6, FollowsApart, StepsMove

LEMMA ExecuteCallSteps ==
  ASSUME Typed, StepInv, NEW j \in Jobs, ExecuteCall(j)
  PROVE  StepInv'
<1>1. /\ job[j].pc \in {"loop", "execute"} /\ job[j].h \in HarnessType
      /\ job[j].h.pending # <<>> /\ attempt' = attempt
  BY WorkingAt, Busy DEF ExecuteCall
<1>2. job[j].h.steps # 0
  BY <1>1 DEF StepInv, Steps, Work
<1>3. job'[j].h.steps = job[j].h.steps
  <2>1. \E executed \in BOOLEAN : job'[j].h = AfterCall(job[j].h, NextCall(j), executed)
    BY ExecuteCallDoes
  <2> QED BY <1>1, <2>1, AfterCallKeeps
<1>4. job'[j].h \in HarnessType
  BY ExecuteCallDoes DEF Typed, TypeOK, JobType
<1>5. \A q \in Runs : run'[q].status = run[q].status
  BY ExecuteCallDoes
<1> QED BY <1>1, <1>2, <1>3, <1>4, <1>5, ExecuteCallDoes, SaveSteps

LEMMA SavedSteps ==
  ASSUME Typed, StepInv, NEW j \in Jobs, Save(j)
  PROVE  StepInv'
<1>1. job[j].pc = "persist" /\ job[j].h \in HarnessType /\ attempt' = attempt
  BY Busy DEF Save, At
<1>2. /\ job[j].h.steps = 0 => job[j].h.pending = <<>>
      /\ job[j].h.mode = "RUNNING" => job[j].h.steps # 0
  BY <1>1 DEF StepInv, Steps, Work
<1>3. \A q \in Runs : run'[q].status = run[q].status
  BY SaveDoes
<1> QED BY <1>1, <1>2, <1>3, SaveDoes, SaveSteps

\* The answer of a provider is settled.
LEMMA AfterModelSteps ==
  ASSUME Typed, StepInv, NEW j \in Jobs, NEW calls \in Answers, AfterModel(j, calls)
  PROVE  StepInv'
<1>1. job[j].pc = "after" /\ job[j].h \in HarnessType /\ harness' = harness
  BY Busy DEF AfterModel, At
<1>2. job[j].step \in Runs
  BY <1>1, AfterAt
<1>3. /\ Kept /\ \A q \in Runs \ {job[j].step} : run'[q] = run[q] /\ attempt'[q] = attempt[q]
      /\ run'[job[j].step].status \in Begun => run[job[j].step].status \in Begun
      /\ attempt'[job[j].step].state = "NONE" <=> attempt[job[j].step].state = "NONE"
  <2>1. attempt[job[j].step] \in AttemptType
    BY <1>2, Fields DEF Typed
  <2> QED BY <1>1, <2>1, SettleStepDoes DEF AfterModel, Begun, Settled, AttemptType
<1>4. SameReserved
  BY <1>3 DEF SameReserved
<1>5. \A q \in Runs : run'[q].status \in Begun => run[q].status \in Begun
  BY <1>3
<1>6. Steps(job[j], run, attempt, harness) /\ job[j].h.steps # 0
  BY <1>1 DEF StepInv, Steps
<1>7. /\ Moves(j) /\ job'[j].pc = "persist" /\ job'[j].run = job[j].run
      /\ job'[j].h.steps = job[j].h.steps
  BY <1>1, AfterModelDoes DEF Queued, HarnessType
<1>8. Follows(job'[j], job[j])
  BY <1>1, <1>7 DEF Follows, Work, Asked, Spending
<1>9. job[j].run \in Runs /\ attempt'[job[j].run].state # "NONE"
  BY <1>1, <1>4, <1>6, Busy DEF Steps, SameReserved, Work, Spending
<1>10. Steps(job'[j], run', attempt', harness')
  BY <1>6, <1>7, <1>9 DEF Steps, Work, Asked, Spending
<1> QED BY <1>1, <1>3, <1>4, <1>5, <1>7, <1>8, <1>10, SameStored, FollowsApart, StepsMove

\* The end of a dispatch.
LEMMA EndSteps ==
  ASSUME Typed, StepInv, NEW j \in Jobs, Release(j) \/ Refused(j) \/ Finish(j)
  PROVE  StepInv'
<1>1. Kept /\ Moves(j) /\ harness' = harness
  BY ReleaseDoes, RefusedDoes, FinishDoes DEF Release, Refused, Finish
<1>2. \/ UNCHANGED <<run, attempt>>
      \/ \E q \in Runs : \E status \in Final : \E usage \in Nat : \E notSent \in BOOLEAN :
           Finished(q, status, usage, notSent)
  <2>1. CASE Release(j)
    BY <2>1, ReleaseDoes DEF Final
  <2>2. CASE Refused(j)
    BY <2>2, Busy DEF Refused, At, Final
  <2>3. CASE Finish(j)
    <3>1. job[j].pc = "finish" /\ job[j].out \in Final /\ job[j].req.usage \in Nat
      BY <2>3, Busy, Request DEF Finish, At
    <3>2. PICK n \in BOOLEAN : n = (Plain(j) /\ job[j].req.notSent)
      BY Request
    <3>3. job[j].run \in Runs
      BY <3>1, Busy
    <3> QED BY <2>3, <3>1, <3>2, <3>3 DEF Finish
  <2> QED BY <2>1, <2>2, <2>3
<1>3. SameReserved
  BY <1>2, FinishedReserved DEF SameReserved
<1>4. \A q \in Runs : run'[q].status \in Begun => run[q].status \in Begun
  <2>1. CASE UNCHANGED run
    BY <2>1
  <2>2. ASSUME NEW q \in Runs, NEW status \in Final, NEW usage \in Nat, NEW notSent \in BOOLEAN,
               Finished(q, status, usage, notSent)
        PROVE  \A p \in Runs : run'[p].status \in Begun => run[p].status \in Begun
    BY <2>2, FinishedType DEF Typed, Final, Begun
  <2> QED BY <1>2, <2>1, <2>2
<1>5. CASE job'[j].pc = "idle"
  BY <1>1, <1>3, <1>4, <1>5, RestSteps DEF Moves
<1>6. CASE job'[j].pc = "finish" /\ Release(j)
  <2>1. job'[j].run = job[j].run /\ job[j].pc = "release"
    BY <1>6, ReleaseDoes DEF Release, At
  <2>2. Follows(job'[j], job[j])
    BY <1>6, <2>1 DEF Follows, Work, Asked, Spending
  <2>3. job[j].run \in Runs /\ attempt'[job[j].run].state # "NONE"
    BY <1>3, <2>1, Busy DEF StepInv, Steps, Spending, SameReserved
  <2>4. Steps(job'[j], run', attempt', harness')
    BY <1>6, <2>1, <2>3 DEF Steps, Work, Asked
  <2> QED BY <1>1, <1>3, <1>4, <2>2, <2>4, SameStored, FollowsApart, StepsMove
<1> QED BY <1>5, <1>6, ReleaseDoes, RefusedDoes, FinishDoes

\* A dispatcher that a person sends off.
LEMMA DispatchSteps ==
  ASSUME Typed, StepInv, NEW j \in Jobs, NEW r \in Runs,
         \/ Approve(r, j)
         \/ \E decision \in {"APPROVED", "REJECTED"} : DecideCall(r, decision, j)
  PROVE  StepInv'
<1>1. /\ Kept /\ Moves(j) /\ job'[j].pc = "reserve" /\ job'[j].run = r
      /\ harness' = harness /\ attempt' = attempt
      /\ \A q \in Runs : run'[q].status \in Begun => run[q].status \in Begun
  <2>1. CASE Approve(r, j)
    <3>1. harness' = harness /\ attempt' = attempt
      BY <2>1 DEF Approve
    <3> QED BY <2>1, <3>1, ApproveDoes DEF Begun
  <2>2. ASSUME NEW decision \in {"APPROVED", "REJECTED"}, DecideCall(r, decision, j)
        PROVE  /\ Kept /\ Moves(j) /\ job'[j].pc = "reserve" /\ job'[j].run = r
               /\ harness' = harness /\ attempt' = attempt
               /\ \A q \in Runs : run'[q].status \in Begun => run[q].status \in Begun
    <3>1. harness' = harness /\ attempt' = attempt
      BY <2>2 DEF DecideCall
    <3> QED BY <2>2, <3>1, DecideCallDoes DEF Begun
  <2> QED BY <2>1, <2>2
<1>2. SameReserved
  BY <1>1 DEF SameReserved
<1>3. Steps(job'[j], run', attempt', harness')
  <2>1. CASE Approve(r, j)
    <3>1. attempt[r].state = "NONE"
      BY <2>1, ApproveDoes DEF StepInv, Stored, Begun
    <3> QED BY <1>1, <3>1 DEF Steps, Spending, Work, Asked
  <2>2. CASE \E decision \in {"APPROVED", "REJECTED"} : DecideCall(r, decision, j)
    <3>1. harness[r].steps # 0
      BY <2>2 DEF DecideCall, StepInv, Stored
    <3> QED BY <1>1, <3>1 DEF Steps, Spending, Work, Asked
  <2> QED BY <2>1, <2>2
<1>4. ASSUME NEW k \in Jobs \ {j}
      PROVE  Apart(job'[j], job[k], run')
  <2>1. ~ (job[k].pc = "reserve" /\ job[k].run = r)
    <3>1. CASE Approve(r, j)
      BY <3>1, ApproveDoes, Busy DEF Begun
    <3>2. CASE \E decision \in {"APPROVED", "REJECTED"} : DecideCall(r, decision, j)
      BY <3>2 DEF DecideCall, Queue
    <3> QED BY <3>1, <3>2
  <2> QED BY <1>1, <2>1 DEF Apart, Work, Asked, Spending
<1> QED BY <1>1, <1>2, <1>3, <1>4, SameStored, StepsMove

\* Everything else leaves the dispatchers alone or ends them.
LEMMA WorldSteps ==
  ASSUME Typed, StepInv,
         \/ \E r \in Runs : \/ \E s \in Sessions \cup {NoSession} : Propose(r, s)
                            \/ Reject(r) \/ Stop(r) \/ Recover(r) \/ ChangeContext(r)
         \/ \E s \in Sessions : ChangeSession(s)
         \/ \E j \in Jobs : EndLogin(j)
         \/ NewDay \/ Start \/ Crash \/ UNCHANGED vars
  PROVE  StepInv'
<1>1. CASE \E r \in Runs : \E s \in Sessions \cup {NoSession} : Propose(r, s)
  <2>1. /\ Kept /\ UNCHANGED <<harness, attempt, job>>
        /\ \A q \in Runs : run'[q].status \in Begun => run[q].status \in Begun
    BY <1>1, ProposeDoes DEF Propose, Begun
  <2> QED BY <2>1, RestSteps DEF SameReserved
<1>2. CASE \E r \in Runs : Reject(r)
  <2>1. /\ Kept /\ UNCHANGED <<harness, attempt, job>>
        /\ \A q \in Runs : run'[q].status \in Begun => run[q].status \in Begun
    BY <1>2, RejectDoes DEF Reject, Begun
  <2> QED BY <2>1, RestSteps DEF SameReserved
<1>3. CASE \E r \in Runs : Stop(r) \/ Recover(r)
  <2>1. PICK r \in Runs : Stop(r) \/ Recover(r)
    BY <1>3
  <2>2. Kept /\ Finished(r, "INTERRUPTED", 0, FALSE) /\ UNCHANGED <<harness, job>>
    BY <2>1, EndsDoes DEF Stop, Recover
  <2>3. SameReserved
    BY <2>2, FinishedReserved DEF Final
  <2>4. \A q \in Runs : run'[q].status \in Begun => run[q].status \in Begun
    BY <2>2, FinishedType DEF Typed, Final, Begun
  <2> QED BY <2>2, <2>3, <2>4, RestSteps
<1>4. CASE \/ \E r \in Runs : ChangeContext(r)
           \/ \E s \in Sessions : ChangeSession(s)
           \/ \E j \in Jobs : EndLogin(j)
           \/ NewDay \/ Start \/ UNCHANGED vars
  <2>1. UNCHANGED <<run, harness, attempt, job>>
    BY <1>4, WorldDoes DEF stored, vars, ChangeSession
  <2> QED BY <2>1, RestSteps DEF SameReserved, Kept
<1>5. CASE Crash
  <2>1. UNCHANGED <<run, harness, attempt>>
    BY <1>5, CrashDoes DEF stored
  <2> QED BY <1>5, <2>1, CrashDoes, RestSteps DEF SameReserved, Kept
<1> QED BY <1>1, <1>2, <1>3, <1>4, <1>5

LEMMA NextSteps == Typed /\ StepInv /\ [Next]_vars => StepInv'
<1> SUFFICES ASSUME Typed, StepInv, [Next]_vars
             PROVE  StepInv'
  OBVIOUS
<1>1. ASSUME NEW j \in Jobs, Dispatcher(j) \/ Interrupt(j)
      PROVE  StepInv'
  BY <1>1, ReserveSteps, ResumeSteps, FirstStepSteps, NextStepSteps, WorkSteps, ProviderSteps,
     ExecuteCallSteps, SavedSteps, AfterModelSteps, EndSteps DEF Dispatcher
<1>2. CASE Person
  BY <1>2, DispatchSteps, WorldSteps DEF Person
<1> QED BY <1>1, <1>2, WorldSteps DEF Next

LEMMA InitSteps == Init => StepInv
BY DEF Init, StepInv, Stored, Steps, Apart, NewRun, NewHarness, NoAttempt, NoJob, Begun, Work,
       Asked, Spending

LEMMA AlwaysSteps == Spec => [](Typed /\ StepInv)
<1>1. Init => Typed /\ StepInv
  BY InitTyped, InitSteps
<1>2. Typed /\ StepInv /\ [Next]_vars => (Typed /\ StepInv)'
  BY NextTyped, NextSteps
<1> QED BY <1>1, <1>2, PTL DEF Spec
-----------------------------------------------------------------------------
(* The money of a run, and the requests of its dispatchers.                    *)

\* A stored run x with its attempt a, its requests p and their bill b.
Funded(x, a, p, b) ==
  /\ a.state = "NONE" => a.charge = 0 /\ a.usage = 0 /\ p = 0 /\ b = 0
  /\ a.state \in {"RESERVED", "UNKNOWN"} => a.charge = Reserve /\ a.usage = 0
  /\ a.state = "RECONCILED" => a.charge = b /\ a.usage = b /\ b # 0
  /\ a.state = "NOT_SENT" => /\ a.charge = 0 /\ a.usage = 0 /\ b = 0
                             /\ x.status \in Final /\ x.session = NoSession /\ x.parent = NoRun
  /\ p <= 1 /\ b <= Reserve

\* A dispatcher x with the requests pd and bills bl: before its request goes out
\* nothing of its step has; afterwards it knows all there is to know, or nothing.
Requested(x, rn, pd, bl) ==
  /\ x.pc = "loop" /\ x.h.steps = 0 => pd[x.run] = 0 /\ bl[x.run] = 0
  /\ x.pc = "candidate" =>
       pd[x.step] = 0 /\ bl[x.step] = 0 /\ x.req.cost = 0 /\ x.req.usage = 0
  /\ x.pc = "sent" =>
       /\ pd[x.step] = (IF x.req.cost = 0 THEN 0 ELSE 1) /\ bl[x.step] = x.req.cost
       /\ x.req.usage = 0 /\ x.req.notSent = FALSE
  /\ x.pc = "after" => x.req.usage \in {0, bl[x.step]}
  /\ x.pc = "finish" /\ rn[x.run].session = NoSession =>
       x.req.usage \in {0, bl[x.run]} /\ (x.req.notSent => bl[x.run] = 0)
  /\ x.pc = "finish" /\ rn[x.run].session # NoSession => x.req.usage = 0
  /\ x.pc \in {"candidate", "sent"} /\ rn[x.run].session = NoSession => x.step = x.run
  /\ x.pc = "release" => rn[x.run].session # NoSession
  /\ x.pc \in {"reserve", "refused", "loop", "execute", "persist", "release"} =>
       x.req = NewRequest

MoneyInv ==
  /\ \A r \in Runs : Funded(run[r], attempt[r], paid[r], bill[r])
  /\ \A j \in Jobs : Requested(job[j], run, paid, bill)

Safe == Typed /\ StepInv /\ MoneyInv

\* The money of a run that no action moves.
LEMMA FundedSame ==
  ASSUME Safe, [Next]_vars, NEW r \in Runs,
         attempt'[r] = attempt[r], paid'[r] = paid[r], bill'[r] = bill[r]
  PROVE  Funded(run'[r], attempt'[r], paid'[r], bill'[r])
<1>1. run[r].status \in Final => run'[r] = run[r]
  BY NextFinished DEF Safe
<1> QED BY <1>1 DEF Safe, MoneyInv, Funded

\* A dispatcher that does not move; only the step of a request that goes out is
\* paid and billed.
Sends(j) ==
  \A q \in Runs : \/ paid'[q] = paid[q] /\ bill'[q] = bill[q]
                  \/ job[j].pc = "candidate" /\ q = job[j].step

LEMMA OthersRequested ==
  ASSUME Safe, Kept, NEW j \in Jobs, Sends(j), NEW k \in Jobs \ {j}, job'[k] = job[k]
  PROVE  Requested(job'[k], run', paid', bill')
<1> DEFINE x == job[k]
           q == job[j].step
<1>1. CASE x.pc = "idle"
  BY <1>1 DEF Requested
<1>2. CASE x.pc # "idle"
  <2>1. /\ x.run \in Runs /\ run[x.run].status \notin Begun /\ run[x.run].parent = NoRun
        /\ x.pc \in Asked => x.step \in Runs
    BY <1>2, Busy DEF Safe, Asked, Stepping, Conversing
  <2>2. run'[x.run].session = run[x.run].session
    BY <2>1 DEF Kept
  <2>3. Requested(x, run, paid, bill) /\ Apart(job[j], x, run) /\ Steps(job[j], run, attempt, harness)
    BY DEF Safe, MoneyInv, StepInv
  <2>4. job[j].pc = "candidate" => job[j].run \in Runs
    BY Busy DEF Safe
  <2>5. job[j].pc = "candidate" /\ x.run = q => job[j].run = x.run
    BY <2>1, <2>3, <2>4, RunsAssumption DEF Steps, Asked
  <2>6. \/ paid'[x.run] = paid[x.run] /\ bill'[x.run] = bill[x.run]
        \/ ~ (x.pc = "loop" /\ x.h.steps = 0) /\ ~ (x.pc = "finish" /\ run[x.run].session = NoSession)
    BY <2>1, <2>3, <2>5 DEF Sends, Apart, Work, Spending
  <2>7. x.pc \in Asked => paid'[x.step] = paid[x.step] /\ bill'[x.step] = bill[x.step]
    BY <2>1, <2>3 DEF Sends, Apart, Asked
  <2> QED BY <2>2, <2>3, <2>6, <2>7 DEF Requested, Asked
<1> QED BY <1>1, <1>2

\* A step that moves no money.
LEMMA MoneyMoves ==
  ASSUME Safe, [Next]_vars, Kept, NEW j \in Jobs, Moves(j), UNCHANGED <<attempt, paid, bill>>,
         Requested(job'[j], run', paid, bill)
  PROVE  MoneyInv'
<1>1. \A r \in Runs : Funded(run'[r], attempt'[r], paid'[r], bill'[r])
  BY FundedSame
<1>2. Sends(j)
  BY DEF Sends
<1>3. \A k \in Jobs \ {j} : Requested(job'[k], run', paid', bill')
  BY <1>2, OthersRequested DEF Moves
<1> QED BY <1>1, <1>3 DEF MoneyInv

LEMMA MoneyRests ==
  ASSUME Safe, [Next]_vars, Kept, UNCHANGED <<attempt, paid, bill>>,
         \A k \in Jobs : job'[k] = job[k] \/ job'[k].pc = "idle"
  PROVE  MoneyInv'
<1>1. \A r \in Runs : Funded(run'[r], attempt'[r], paid'[r], bill'[r])
  BY FundedSame
<1>2. ASSUME NEW k \in Jobs
      PROVE  Requested(job'[k], run', paid', bill')
  <2>1. CASE job'[k].pc = "idle"
    BY <2>1 DEF Requested
  <2>2. CASE job'[k] = job[k] /\ job[k].pc # "idle"
    <3>1. run'[job[k].run].session = run[job[k].run].session
      BY <2>2, Busy DEF Safe, Kept
    <3> QED BY <2>2, <3>1 DEF Safe, MoneyInv, Requested
  <2> QED BY <2>1, <2>2
<1> QED BY <1>1, <1>2 DEF MoneyInv

\* The money of an attempt that is settled.
LEMMA FundedSettled ==
  ASSUME NEW a \in AttemptType, NEW x, NEW y, NEW p, NEW b \in Nat, Funded(x, a, p, b),
         NEW usage \in {0, b}, NEW notSent \in BOOLEAN,
         x.status = "RUNNING",
         notSent => /\ b = 0 /\ y.status \in Final /\ y.session = NoSession
                    /\ y.parent = NoRun
  PROVE  Funded(y, Settled(a, IF usage # 0 THEN usage ELSE a.usage, notSent), p, b)
<1>1. x.status \notin Final
  BY DEF Final
<1> QED BY <1>1 DEF Funded, Settled, AttemptType

LEMMA FinishedFunded ==
  ASSUME Safe, [Next]_vars, NEW r \in Runs, NEW status \in Final, NEW usage \in {0, bill[r]},
         NEW notSent \in BOOLEAN, Finished(r, status, usage, notSent), UNCHANGED <<paid, bill>>,
         notSent => bill[r] = 0 /\ run[r].session = NoSession /\ run[r].parent = NoRun
  PROVE  \A q \in Runs : Funded(run'[q], attempt'[q], paid'[q], bill'[q])
<1>1. attempt[r] \in AttemptType /\ bill[r] \in Nat /\ usage \in Nat
  BY Fields DEF Safe, Typed, TypeOK
<1>2. /\ \A q \in Runs \ {r} : attempt'[q] = attempt[q]
      /\ run'[r].status = status /\ run'[r].session = run[r].session
      /\ run'[r].parent = run[r].parent
  BY <1>1, FinishedType DEF Safe, Typed
<1>3. /\ attempt'[r] = Settled(attempt[r], IF usage # 0 THEN usage ELSE attempt[r].usage, notSent)
      /\ run[r].status = "RUNNING"
  BY DEF Finished, Safe, Typed, TypeOK
<1>4. Funded(run[r], attempt[r], paid[r], bill[r])
  BY DEF Safe, MoneyInv
<1>5. Funded(run'[r], attempt'[r], paid'[r], bill'[r])
  BY <1>1, <1>2, <1>3, <1>4, FundedSettled
<1> QED BY <1>2, <1>5, FundedSame

\* Each action keeps it.
LEMMA ReserveMoney ==
  ASSUME Safe, [Next]_vars, NEW j \in Jobs, ReserveAttempt(j)
  PROVE  MoneyInv'
<1> DEFINE r == job[j].run
           y == job'[j]
<1>1. /\ Moves(j) /\ Kept /\ y.pc \in {"candidate", "loop"} /\ y.run = r /\ y.step = r
      /\ y.h = harness[r] /\ attempt'[r] = Reserved /\ y.req = job[j].req
      /\ \A q \in Runs \ {r} : attempt'[q] = attempt[q]
  BY ReserveAttemptDoes DEF Safe
<1>2. /\ job[j].pc = "reserve" /\ attempt[r].state = "NONE" /\ paid' = paid /\ bill' = bill
  BY DEF ReserveAttempt, At, Reservable, ghosts
<1>3. r \in Runs
  BY <1>2, Busy DEF Safe
<1>4. paid[r] = 0 /\ bill[r] = 0 /\ job[j].req = NewRequest
  BY <1>2, <1>3 DEF Safe, MoneyInv, Funded, Requested
<1>5. Funded(run'[r], attempt'[r], paid'[r], bill'[r])
  BY <1>1, <1>2, <1>4, LimitsAssumption DEF Funded, Reserved
<1>6. \A q \in Runs : Funded(run'[q], attempt'[q], paid'[q], bill'[q])
  BY <1>1, <1>2, <1>5, FundedSame
<1>7. Requested(y, run', paid', bill')
  BY <1>1, <1>2, <1>4 DEF Requested, NewRequest
<1>8. Sends(j)
  BY <1>2 DEF Sends
<1>9. \A k \in Jobs \ {j} : Requested(job'[k], run', paid', bill')
  BY <1>1, <1>8, OthersRequested DEF Moves
<1> QED BY <1>6, <1>7, <1>9 DEF MoneyInv

LEMMA NextStepMoney ==
  ASSUME Safe, [Next]_vars, NEW j \in Jobs, NEW q \in Runs, NextStep(j, q)
  PROVE  MoneyInv'
<1> DEFINE y == job'[j]
<1>1. /\ Kept /\ Moves(j) /\ y.pc = "candidate" /\ y.run = job[j].run /\ y.step = q
      /\ y.req = job[j].req /\ run[q].status = "NONE" /\ attempt'[q] = Reserved
      /\ \A p \in Runs \ {q} : attempt'[p] = attempt[p]
  BY NextStepDoes DEF Safe
<1>2. job[j].pc = "loop" /\ paid' = paid /\ bill' = bill
  BY DEF NextStep, Asking, At, ghosts
<1>3. run[job[j].run].session \in Sessions /\ run'[job[j].run].session = run[job[j].run].session
  BY <1>1, <1>2, Busy DEF Conversing, Safe, Kept
<1>4. attempt[q].state = "NONE"
  BY <1>1 DEF Safe, StepInv, Stored, Begun
<1>5. paid[q] = 0 /\ bill[q] = 0 /\ job[j].req = NewRequest
  BY <1>2, <1>4 DEF Safe, MoneyInv, Funded, Requested
<1>6. Funded(run'[q], attempt'[q], paid'[q], bill'[q])
  BY <1>1, <1>2, <1>5, LimitsAssumption DEF Funded, Reserved
<1>7. \A p \in Runs : Funded(run'[p], attempt'[p], paid'[p], bill'[p])
  BY <1>1, <1>2, <1>6, FundedSame
<1>8. Requested(y, run', paid', bill')
  BY <1>1, <1>2, <1>3, <1>5, RunsAssumption DEF Requested, NewRequest
<1>9. Sends(j)
  BY <1>2 DEF Sends
<1>10. \A k \in Jobs \ {j} : Requested(job'[k], run', paid', bill')
  BY <1>1, <1>9, OthersRequested DEF Moves
<1> QED BY <1>7, <1>8, <1>10 DEF MoneyInv

\* A request goes out: nothing of its step has been paid or settled before.
LEMMA SendMoney ==
  ASSUME Safe, [Next]_vars, NEW j \in Jobs, NEW cost \in Usages \cup {0}, Send(j, cost)
  PROVE  MoneyInv'
<1> DEFINE y == job'[j]
           q == job[j].step
<1>1. /\ Moves(j) /\ job[j].pc = "candidate" /\ y.pc = "sent"
      /\ y.run = job[j].run /\ y.step = q /\ q \in Runs
      /\ y.req.cost = cost /\ y.req.usage = job[j].req.usage /\ y.req.notSent = FALSE
      /\ paid'[q] = paid[q] + (IF cost = 0 THEN 0 ELSE 1) /\ bill'[q] = bill[q] + cost
      /\ \A p \in Runs \ {q} : paid'[p] = paid[p] /\ bill'[p] = bill[p]
  BY SendDoes DEF Safe
<1>2. run' = run /\ attempt' = attempt /\ MaySend(j)
  BY DEF Send, stored
<1>3. cost \in Nat /\ cost <= Reserve
  BY LimitsAssumption
<1>4. paid[q] = 0 /\ bill[q] = 0 /\ job[j].req.usage = 0
      /\ (run[job[j].run].session = NoSession => q = job[j].run)
  BY <1>1 DEF Safe, MoneyInv, Requested
<1>5. paid'[q] = (IF cost = 0 THEN 0 ELSE 1) /\ bill'[q] = cost
  BY <1>1, <1>3, <1>4
<1>6. job[j].run \in Runs /\ run[job[j].run].parent = NoRun
  BY <1>1, Busy DEF Safe
<1>7. attempt[q].state \in {"RESERVED", "UNKNOWN"}
  <2>1. attempt[q] \in AttemptType /\ Funded(run[q], attempt[q], paid[q], bill[q])
    BY <1>1, Fields DEF Safe, Typed, MoneyInv
  <2>2. attempt[q].state # "NONE" /\ (q # job[j].run => run[q].parent = job[j].run)
    BY <1>1 DEF Safe, StepInv, Steps, Asked, Spending, Work
  <2>3. attempt[q].state # "RECONCILED"
    BY <1>4, <2>1 DEF Funded
  <2>4. attempt[q].state # "NOT_SENT"
    <3>1. SUFFICES ASSUME attempt[q].state = "NOT_SENT"
                   PROVE  FALSE
      OBVIOUS
    <3>2. run[q].status \in Final /\ run[q].session = NoSession /\ run[q].parent = NoRun
      BY <2>1, <3>1 DEF Funded
    <3>3. q = job[j].run
      BY <1>6, <2>2, <3>2, RunsAssumption
    <3>4. run[q].status = "RUNNING"
      BY <1>2, <3>2, <3>3 DEF MaySend, Plain
    <3> QED BY <3>2, <3>4 DEF Final
  <2> QED BY <2>1, <2>2, <2>3, <2>4 DEF AttemptType
<1>8. Funded(run'[q], attempt'[q], paid'[q], bill'[q])
  BY <1>1, <1>2, <1>3, <1>5, <1>7 DEF Safe, MoneyInv, Funded
<1>9. \A p \in Runs : Funded(run'[p], attempt'[p], paid'[p], bill'[p])
  BY <1>1, <1>2, <1>8, FundedSame
<1>10. Requested(y, run', paid', bill')
  BY <1>1, <1>2, <1>4, <1>5 DEF Requested
<1>11. Kept /\ Sends(j)
  BY <1>1, <1>2 DEF Kept, Sends
<1>12. \A k \in Jobs \ {j} : Requested(job'[k], run', paid', bill')
  BY <1>1, <1>11, OthersRequested DEF Moves
<1> QED BY <1>9, <1>10, <1>12 DEF MoneyInv

\* A dispatcher between two requests, or past the last one: it knows of none.
LEMMA QuietMoney ==
  ASSUME Safe, [Next]_vars, Kept, NEW j \in Jobs, Moves(j), UNCHANGED <<attempt, paid, bill>>,
         \/ job'[j].pc \in {"idle", "refused", "reserve", "execute", "persist"}
         \/ job'[j].pc = "loop" /\ job'[j].h.steps # 0
         \/ /\ job'[j].pc \in {"release", "finish"}
            /\ job'[j].run = job[j].run /\ job[j].pc \in Conversing \cup {"release"},
         job'[j].pc # "idle" => job'[j].req = NewRequest
  PROVE  MoneyInv'
<1>1. job[j].pc \in Conversing \cup {"release"} =>
        run'[job[j].run].session # NoSession
  <2>1. CASE job[j].pc \in Conversing
    <3>1. run[job[j].run].session \in Sessions /\ job[j].run \in Runs
          /\ run[job[j].run].status \notin Begun
      BY <2>1, Busy DEF Safe, Conversing
    <3> QED BY <3>1, RunsAssumption DEF Kept
  <2>2. CASE job[j].pc = "release"
    <3>1. job[j].run \in Runs /\ run[job[j].run].status \notin Begun
      BY <2>2, Busy DEF Safe
    <3> QED BY <2>2, <3>1 DEF Safe, MoneyInv, Requested, Kept
  <2> QED BY <2>1, <2>2
<1>2. Requested(job'[j], run', paid, bill)
  BY <1>1 DEF Requested, NewRequest
<1> QED BY <1>2, MoneyMoves

LEMMA StoredKept == UNCHANGED stored => Kept /\ UNCHANGED <<run, attempt, harness>>
BY DEF stored, Kept

\* What a dispatcher knows of requests while it works through calls or saves.
LEMMA NoRequest ==
  ASSUME Safe, NEW j \in Jobs,
         job[j].pc \in {"reserve", "refused", "loop", "execute", "persist", "release"}
  PROVE  job[j].req = NewRequest
BY DEF Safe, MoneyInv, Requested

LEMMA WorkMoney ==
  ASSUME Safe, [Next]_vars, NEW j \in Jobs,
         \/ Refuse(j) \/ AskHuman(j) \/ LoseCall(j) \/ LoseExecution(j) \/ NoStep(j)
         \/ ApprovedCall(j) \/ RejectedCall(j) \/ RefuseCall(j) \/ SaveFails(j)
  PROVE  MoneyInv'
<1>1. UNCHANGED stored /\ UNCHANGED ghosts
  BY DEF Refuse, AskHuman, LoseCall, LoseExecution, NoStep, ApprovedCall, RejectedCall,
         RefuseCall, SaveFails
<1>2. Kept /\ UNCHANGED <<attempt, paid, bill>>
  BY <1>1, StoredKept DEF ghosts
<1>3. job[j].req = NewRequest
  <2>1. job[j].pc \in {"reserve", "loop", "execute", "persist"}
    BY WorkingAt DEF Safe, Refuse, AskHuman, LoseCall, LoseExecution, NoStep, ApprovedCall,
       RejectedCall, RefuseCall, SaveFails, Working, At
  <2> QED BY <2>1, NoRequest
<1>4. CASE Refuse(j)
  BY <1>2, <1>3, <1>4, RefuseDoes, QuietMoney DEF Safe
<1>5. CASE AskHuman(j)
  BY <1>2, <1>3, <1>5, AskHumanDoes, QuietMoney DEF Safe
<1>6. CASE LoseCall(j) \/ LoseExecution(j) \/ NoStep(j)
  BY <1>2, <1>3, <1>6, LoseCallDoes, QuietMoney DEF Safe
<1>7. CASE ApprovedCall(j)
  BY <1>2, <1>3, <1>7, ApprovedCallDoes, QuietMoney DEF Safe
<1>8. CASE RejectedCall(j) \/ RefuseCall(j)
  BY <1>2, <1>3, <1>8, SkipCallDoes, QuietMoney DEF Safe
<1>9. CASE SaveFails(j)
  <2>1. job[j].pc = "persist"
    BY <1>9 DEF SaveFails, At
  <2> QED BY <1>2, <1>9, <2>1, SaveFailsDoes, QuietMoney DEF Safe, Conversing
<1> QED BY <1>4, <1>5, <1>6, <1>7, <1>8, <1>9

LEMMA ResumeMoney ==
  ASSUME Safe, [Next]_vars, NEW j \in Jobs, Resume(j)
  PROVE  MoneyInv'
<1>1. UNCHANGED stored /\ UNCHANGED ghosts /\ job[j].pc = "reserve"
      /\ attempt[job[j].run].state # "NONE" /\ run[job[j].run].session # NoSession
  BY DEF Resume, At, Resumed
<1>2. Kept /\ UNCHANGED <<attempt, paid, bill>> /\ job[j].req = NewRequest
  BY <1>1, StoredKept, NoRequest DEF ghosts
<1>3. harness[job[j].run].steps # 0 /\ harness[job[j].run] \in HarnessType
  BY <1>1, Busy, Fields DEF Safe, StepInv, Steps, Typed
<1>4. job'[j].h.steps # 0
  BY <1>3, ResumeDoes DEF Safe, HarnessType
<1> QED BY <1>2, <1>4, ResumeDoes, QuietMoney DEF Safe

LEMMA FirstStepMoney ==
  ASSUME Safe, [Next]_vars, NEW j \in Jobs, FirstStep(j)
  PROVE  MoneyInv'
<1>1. UNCHANGED stored /\ UNCHANGED ghosts /\ job[j].pc = "loop" /\ job[j].h.steps = 0
  BY DEF FirstStep, Asking, At
<1>2. Kept /\ UNCHANGED <<attempt, paid, bill>> /\ job[j].req = NewRequest
  BY <1>1, StoredKept, NoRequest DEF ghosts
<1>3. /\ Moves(j) /\ job'[j].pc = "candidate" /\ job'[j].run = job[j].run
      /\ job'[j].step = job[j].run /\ job'[j].req = job[j].req
  BY FirstStepDoes DEF Safe
<1>4. paid[job[j].run] = 0 /\ bill[job[j].run] = 0
  BY <1>1 DEF Safe, MoneyInv, Requested
<1>5. Requested(job'[j], run', paid, bill)
  BY <1>2, <1>3, <1>4 DEF Requested, NewRequest
<1> QED BY <1>2, <1>3, <1>5, MoneyMoves

LEMMA GiveUpMoney ==
  ASSUME Safe, [Next]_vars, NEW j \in Jobs, job[j].pc \in {"candidate", "sent", "loop", "after"},
         NEW out \in {"FAILED", "INTERRUPTED"}, GiveUp(j, out),
         UNCHANGED <<stored, access, world, ghosts>>
  PROVE  MoneyInv'
<1>1. Kept /\ UNCHANGED <<run, attempt, paid, bill>>
  BY StoredKept DEF ghosts
<1>2. Moves(j) /\ job'[j].run = job[j].run
  BY GiveUpDoes DEF Safe
<1>3. CASE Plain(j) /\ job'[j].pc = "finish" /\ job'[j].req = job[j].req
  <2>1. run[job[j].run].session = NoSession
    BY <1>3 DEF Plain
  <2>2. job[j].pc \in {"candidate", "sent"}
    BY <2>1, Busy, RunsAssumption DEF Safe, Conversing
  <2>3. Requested(job'[j], run', paid, bill)
    BY <1>1, <1>2, <1>3, <2>1, <2>2 DEF Safe, MoneyInv, Requested
  <2> QED BY <1>1, <1>2, <2>3, MoneyMoves
<1>4. CASE job'[j].pc = "persist" /\ job'[j].req = NewRequest
  BY <1>1, <1>2, <1>4, QuietMoney
<1> QED BY <1>3, <1>4, GiveUpDoes DEF Safe

\* After a request: not sent, unknown, or answered.
LEMMA RequestMoney ==
  ASSUME Safe, [Next]_vars, NEW j \in Jobs, NotSent(j) \/ Unknown(j) \/ Answer(j)
  PROVE  MoneyInv'
<1>1. job[j].pc = "sent" /\ UNCHANGED stored /\ UNCHANGED ghosts
  BY DEF NotSent, Unknown, Answer, At
<1>2. Kept /\ UNCHANGED <<run, attempt, paid, bill>>
  BY <1>1, StoredKept DEF ghosts
<1>3. /\ Moves(j) /\ job'[j].run = job[j].run /\ job'[j].step = job[j].step
      /\ \/ /\ NotSent(j) /\ job'[j].pc = "candidate" /\ job'[j].req.cost = job[j].req.cost
            /\ job'[j].req.usage = job[j].req.usage
         \/ /\ Plain(j) /\ job'[j].pc = "finish"
            /\ job'[j].req.usage \in {0, job[j].req.cost}
            /\ job[j].req.cost = 0 \/ job'[j].req.notSent = job[j].req.notSent
         \/ job'[j].pc = "persist" /\ job'[j].req = NewRequest
         \/ /\ ~ Plain(j) /\ job'[j].pc = "after"
            /\ job'[j].req.usage \in {0, job[j].req.cost}
  <2>1. CASE NotSent(j)
    <3>1. job[j].req.cost = 0 /\ job[j].req.usage = 0
      BY <1>1, <2>1 DEF NotSent, Safe, MoneyInv, Requested
    <3> QED BY <2>1, <3>1, NotSentDoes DEF Safe
  <2>2. CASE Unknown(j)
    BY <2>2, UnknownDoes DEF Safe
  <2>3. CASE Answer(j)
    BY <2>3, AnswerDoes DEF Safe
  <2> QED BY <2>1, <2>2, <2>3
<1>4. Requested(job[j], run, paid, bill)
  BY DEF Safe, MoneyInv
<1>5. CASE job'[j].pc = "persist" /\ job'[j].req = NewRequest
  BY <1>2, <1>3, <1>5, QuietMoney
<1>6. CASE NotSent(j) /\ job'[j].pc = "candidate"
  <2>1. job[j].req.cost = 0
    BY <1>6 DEF NotSent
  <2>2. Requested(job'[j], run', paid, bill)
    BY <1>1, <1>2, <1>3, <1>4, <1>6, <2>1 DEF Requested
  <2> QED BY <1>2, <1>3, <2>2, MoneyMoves
<1>7. CASE Plain(j) /\ job'[j].pc = "finish" 
  <2>1. run[job[j].run].session = NoSession
    BY <1>7 DEF Plain
  <2>2. Requested(job'[j], run', paid, bill)
    BY <1>1, <1>2, <1>3, <1>4, <1>7, <2>1 DEF Requested
  <2> QED BY <1>2, <1>3, <2>2, MoneyMoves
<1>8. CASE job'[j].pc = "after"
  <2>1. Requested(job'[j], run', paid, bill)
    BY <1>1, <1>2, <1>3, <1>4, <1>8 DEF Requested
  <2> QED BY <1>2, <1>3, <2>1, MoneyMoves
<1> QED BY <1>3, <1>5, <1>6, <1>7, <1>8

LEMMA SavesMoney ==
  ASSUME Safe, [Next]_vars, NEW j \in Jobs, ExecuteCall(j) \/ Save(j)
  PROVE  MoneyInv'
<1>1. CASE ExecuteCall(j)
  <2>1. job[j].pc \in {"loop", "execute"} /\ UNCHANGED <<attempt, paid, bill>>
    BY <1>1, WorkingAt DEF ExecuteCall, Safe
  <2>2. job[j].req = NewRequest
    BY <2>1, NoRequest
  <2> QED BY <1>1, <2>1, <2>2, ExecuteCallDoes, QuietMoney DEF Safe
<1>2. CASE Save(j)
  <2>1. job[j].pc = "persist" /\ UNCHANGED <<attempt, paid, bill>>
    BY <1>2 DEF Save, At, ghosts
  <2>2. job[j].req = NewRequest
    BY <2>1, NoRequest
  <2>3. job[j].h.mode = "RUNNING" => job[j].h.steps # 0
    BY <2>1 DEF Safe, StepInv, Steps
  <2> QED BY <1>2, <2>1, <2>2, <2>3, SaveDoes, QuietMoney DEF Safe, Conversing
<1> QED BY <1>1, <1>2

LEMMA AfterModelMoney ==
  ASSUME Safe, [Next]_vars, NEW j \in Jobs, NEW calls \in Answers, AfterModel(j, calls)
  PROVE  MoneyInv'
<1> DEFINE q == job[j].step
<1>1. job[j].pc = "after" /\ UNCHANGED <<paid, bill>> /\ Settleable(j) /\ SettleStep(j)
  BY DEF AfterModel, At, ghosts
<1>2. q \in Runs /\ job[j].req.usage \in {0, bill[q]} /\ attempt[q] \in AttemptType
  BY <1>1, AfterAt, Fields DEF Safe, MoneyInv, Requested, Typed
<1>3. /\ Kept /\ \A p \in Runs \ {q} : attempt'[p] = attempt[p]
  BY <1>1, SettleStepDoes DEF Safe
<1>4. Moves(j) /\ job'[j].pc = "persist" /\ job'[j].req = NewRequest
  BY AfterModelDoes DEF Safe
<1>5. Funded(run'[q], attempt'[q], paid'[q], bill'[q])
  <2>1. CASE attempt'[q] = attempt[q]
    BY <1>1, <1>2, <2>1, FundedSame
  <2>2. CASE attempt'[q] # attempt[q]
    <3>1. attempt'[q] = Settled(attempt[q], IF job[j].req.usage # 0 THEN job[j].req.usage
                                            ELSE attempt[q].usage, FALSE)
          /\ run[q].status = "RUNNING"
      BY <1>1, <2>2, SettleStepDoes DEF Safe, Settleable, Valid
    <3>2. Funded(run[q], attempt[q], paid[q], bill[q]) /\ bill[q] \in Nat
      BY <1>2 DEF Safe, MoneyInv, Typed, TypeOK
    <3>3. Funded(run'[q], attempt'[q], paid[q], bill[q])
      <4>1. run[q].status \notin Final
        BY <3>1 DEF Final
      <4> QED BY <1>2, <3>1, <3>2, <4>1 DEF Funded, Settled, AttemptType
    <3> QED BY <1>1, <3>3
  <2> QED BY <2>1, <2>2
<1>6. \A p \in Runs : Funded(run'[p], attempt'[p], paid'[p], bill'[p])
  BY <1>1, <1>3, <1>5, FundedSame
<1>7. Sends(j)
  BY <1>1 DEF Sends
<1>8. \A k \in Jobs \ {j} : Requested(job'[k], run', paid', bill')
  BY <1>3, <1>4, <1>7, OthersRequested DEF Moves
<1>9. Requested(job'[j], run', paid', bill')
  BY <1>4 DEF Requested
<1> QED BY <1>6, <1>8, <1>9 DEF MoneyInv

\* A run that ends is settled with what its dispatcher knows.
LEMMA EndMoney ==
  ASSUME Safe, [Next]_vars, NEW j \in Jobs, Release(j) \/ Refused(j) \/ Finish(j)
  PROVE  MoneyInv'
<1>1. Kept /\ Moves(j) /\ UNCHANGED <<paid, bill>>
  BY ReleaseDoes, RefusedDoes, FinishDoes DEF Release, Refused, Finish, Safe, ghosts
<1>2. \A q \in Runs : Funded(run'[q], attempt'[q], paid'[q], bill'[q])
  <2>1. CASE UNCHANGED <<run, attempt>>
    BY <1>1, <2>1, FundedSame
  <2>2. CASE ~ UNCHANGED <<run, attempt>> /\ Release(j)
    BY <1>1, <2>2, ReleaseDoes, FinishedFunded DEF Safe, Final
  <2>3. CASE ~ UNCHANGED <<run, attempt>> /\ Refused(j)
    <3>1. job[j].run \in Runs /\ Finished(job[j].run, "FAILED", 0, FALSE)
      BY <2>3, Busy DEF Refused, At, Safe
    <3> QED BY <1>1, <3>1, FinishedFunded DEF Final
  <2>4. CASE ~ UNCHANGED <<run, attempt>> /\ Finish(j)
    <3> DEFINE r == job[j].run
    <3>1. job[j].pc = "finish"
      BY <2>4 DEF Finish, At
    <3>2. r \in Runs /\ job[j].out \in Final /\ run[r].parent = NoRun
      BY <3>1, Busy DEF Safe
    <3>3. PICK n \in BOOLEAN : n = (Plain(j) /\ job[j].req.notSent)
      BY Request DEF Safe
    <3>4. Finished(r, job[j].out, job[j].req.usage, n)
      BY <2>4, <3>3 DEF Finish
    <3>5. Requested(job[j], run, paid, bill)
      BY DEF Safe, MoneyInv
    <3>6. job[j].req.usage \in {0, bill[r]}
      BY <3>1, <3>5 DEF Requested
    <3>7. n => bill[r] = 0 /\ run[r].session = NoSession
      BY <3>1, <3>3, <3>5 DEF Requested, Plain
    <3> QED BY <1>1, <3>2, <3>4, <3>6, <3>7, FinishedFunded
  <2> QED BY <2>1, <2>2, <2>3, <2>4
<1>3. Sends(j)
  BY <1>1 DEF Sends
<1>4. \A k \in Jobs \ {j} : Requested(job'[k], run', paid', bill')
  BY <1>1, <1>3, OthersRequested DEF Moves
<1>5. Requested(job'[j], run', paid', bill')
  <2>1. CASE job'[j].pc = "idle"
    BY <2>1 DEF Requested
  <2>2. CASE job'[j].pc = "finish" /\ Release(j)
    <3>1. job'[j].run = job[j].run /\ job[j].pc = "release" /\ job'[j].req = job[j].req
      BY <2>2, ReleaseDoes DEF Release, At, Safe
    <3>2. job[j].req = NewRequest /\ run[job[j].run].session # NoSession
      BY <3>1 DEF Safe, MoneyInv, Requested
    <3>3. run'[job[j].run].session # NoSession
      BY <1>1, <3>1, <3>2, Busy DEF Safe, Kept
    <3> QED BY <2>2, <3>1, <3>2, <3>3 DEF Requested, NewRequest
  <2> QED BY <2>1, <2>2, ReleaseDoes, RefusedDoes, FinishDoes DEF Safe
<1> QED BY <1>2, <1>4, <1>5 DEF MoneyInv

LEMMA DispatcherMoney ==
  ASSUME Safe, [Next]_vars, NEW j \in Jobs, Dispatcher(j) \/ Interrupt(j)
  PROVE  MoneyInv'
<1>1. CASE SendRefused(j)
  BY <1>1, GiveUpMoney DEF SendRefused, At
<1>2. CASE Interrupt(j)
  BY <1>2, GiveUpMoney DEF Interrupt
<1>3. CASE LoseAnswer(j)
  <2>1. UNCHANGED stored /\ UNCHANGED ghosts
    BY <1>3 DEF LoseAnswer
  <2>2. Kept /\ UNCHANGED <<attempt, paid, bill>>
    BY <2>1, StoredKept DEF ghosts
  <2> QED BY <1>3, <2>2, LoseAnswerDoes, QuietMoney DEF Safe
<1> QED BY <1>1, <1>2, <1>3, ReserveMoney, ResumeMoney, FirstStepMoney, NextStepMoney, WorkMoney,
        SendMoney, RequestMoney, SavesMoney, AfterModelMoney, EndMoney DEF Dispatcher

LEMMA WorldMoney ==
  ASSUME Safe, [Next]_vars, ~ \E j \in Jobs : Dispatcher(j) \/ Interrupt(j)
  PROVE  MoneyInv'
<1>1. ASSUME NEW r \in Runs, NEW j \in Jobs, Approve(r, j)
      PROVE  MoneyInv'
  <2>1. UNCHANGED <<attempt, paid, bill>>
    BY <1>1 DEF Approve, ghosts
  <2> QED BY <1>1, <2>1, ApproveDoes, QuietMoney DEF Safe
<1>2. ASSUME NEW r \in Runs, NEW j \in Jobs, NEW decision \in {"APPROVED", "REJECTED"},
             DecideCall(r, decision, j)
      PROVE  MoneyInv'
  <2>1. UNCHANGED <<attempt, paid, bill>>
    BY <1>2 DEF DecideCall, ghosts
  <2> QED BY <1>2, <2>1, DecideCallDoes, QuietMoney DEF Safe
<1>3. CASE \E r \in Runs : Stop(r) \/ Recover(r)
  <2>1. PICK r \in Runs : Stop(r) \/ Recover(r)
    BY <1>3
  <2>2. Kept /\ Finished(r, "INTERRUPTED", 0, FALSE) /\ UNCHANGED <<paid, bill, job>>
    BY <2>1, EndsDoes DEF Stop, Recover, ghosts, Safe
  <2>3. \A q \in Runs : Funded(run'[q], attempt'[q], paid'[q], bill'[q])
    BY <2>2, FinishedFunded DEF Final
  <2>4. ASSUME NEW k \in Jobs
        PROVE  Requested(job'[k], run', paid', bill')
    <3>1. job[k].pc # "idle" => run'[job[k].run].session = run[job[k].run].session
      BY <2>2, Busy DEF Safe, Kept
    <3> QED BY <2>2, <3>1 DEF Safe, MoneyInv, Requested
  <2> QED BY <2>3, <2>4 DEF MoneyInv
<1>4. CASE \E r \in Runs : \/ Reject(r) \/ \E s \in Sessions \cup {NoSession} : Propose(r, s)
  <2>1. Kept /\ UNCHANGED <<attempt, paid, bill, job>>
    BY <1>4, RejectDoes, ProposeDoes DEF Reject, Propose, ghosts, Safe
  <2> QED BY <2>1, MoneyRests
<1>5. CASE \/ \E r \in Runs : ChangeContext(r)
           \/ \E s \in Sessions : ChangeSession(s)
           \/ \E j \in Jobs : EndLogin(j)
           \/ NewDay \/ Start \/ UNCHANGED vars
  <2>1. UNCHANGED <<run, attempt, job, paid, bill>>
    BY <1>5, WorldDoes DEF Safe, stored, vars, ghosts, ChangeSession
  <2> QED BY <2>1, MoneyRests DEF Kept
<1>6. CASE Crash
  <2>1. UNCHANGED <<run, attempt, paid, bill>>
    BY <1>6, CrashDoes DEF Safe, stored, ghosts
  <2> QED BY <1>6, <2>1, CrashDoes, MoneyRests DEF Kept, Safe
<1> QED BY <1>1, <1>2, <1>3, <1>4, <1>5, <1>6 DEF Next, Person

LEMMA InitMoney == Init => MoneyInv
BY LimitsAssumption DEF Init, MoneyInv, Funded, Requested, NewRun, NoAttempt, NoJob

\* What is inductive about the money.
LEMMA AlwaysSafe == Spec => []Safe
<1>1. Init => Safe
  BY InitTyped, InitSteps, InitMoney DEF Safe
<1>2. Safe /\ [Next]_vars => Safe'
  BY NextTyped, NextSteps, DispatcherMoney, WorldMoney DEF Safe
<1> QED BY <1>1, <1>2, PTL DEF Spec

\* One attempt pays one provider at most, whatever is sent again after a failed,
\* unknown or late answer (model-gateway.ts, the dispatch of server.ts).
THEOREM PaidAtMostOnce == Spec => []PaidOnce
<1>1. Safe => PaidOnce
  BY DEF Safe, MoneyInv, Funded, PaidOnce
<1> QED BY <1>1, AlwaysSafe, PTL

LEMMA CoversBill == Safe => ChargeCoversBill
<1>1. SUFFICES ASSUME Safe, NEW r \in Runs
               PROVE  bill[r] <= attempt[r].charge
  BY DEF ChargeCoversBill
<1>2. attempt[r] \in AttemptType
  BY <1>1, Fields DEF Safe, Typed
<1>3. bill[r] \in Nat
  BY <1>1 DEF Safe, Typed, TypeOK
<1>4. Funded(run[r], attempt[r], paid[r], bill[r])
  BY <1>1 DEF Safe, MoneyInv
<1> QED BY <1>2, <1>3, <1>4, LimitsAssumption DEF Funded, AttemptType

\* What the providers charge is covered by what the ledger charges, at every
\* moment (gateway-policy.ts, settleGatewayMoney).
THEOREM LedgerCoversBills == Spec => []ChargeCoversBill
BY CoversBill, AlwaysSafe, PTL

-----------------------------------------------------------------------------
(* Sums over finite sets of runs: MapThenSumSet. *)

\* Induction over the subsets of a finite set, for a predicate given as a set.
LEMMA SubsetInduction ==
  ASSUME NEW S, IsFiniteSet(S), NEW Good,
         \A s \in SUBSET S : (\A u \in SUBSET s : u # s => u \in Good) => s \in Good
  PROVE  SUBSET S \subseteq Good
<1> SUFFICES ASSUME NEW z \in SUBSET S, z \notin Good PROVE FALSE
  OBVIOUS
<1> DEFINE Bad == (SUBSET S) \ Good
<1>1. Bad \subseteq FiniteSubsetsOf(S) /\ Bad # {}
  <2>1. FiniteSubsetsOf(S) = SUBSET S
    BY FS_FiniteSubsetsOfFinite
  <2> QED BY <2>1
<1>2. \E x \in Bad : \A y \in Bad : ~ (<<y, x>> \in StrictSubsetOrdering(S))
  <2> HIDE DEF Bad
  <2>1. IsWellFoundedOn(StrictSubsetOrdering(S), FiniteSubsetsOf(S))
    BY FS_StrictSubsetOrderingWellFounded
  <2> QED BY <1>1, <2>1, WFMin
<1>3. PICK s \in Bad : \A y \in Bad : ~ (<<y, s>> \in StrictSubsetOrdering(S))
  BY <1>2
<1>4. ASSUME NEW u \in SUBSET s, u # s PROVE u \in Good
  <2>1. <<u, s>> \in StrictSubsetOrdering(S)
    BY <1>4 DEF StrictSubsetOrdering
  <2> QED BY <1>3, <2>1
<1> QED BY <1>4

\* The element a sum takes next, and the partial sums of the values w over S.
One(s) == CHOOSE x \in s : TRUE
Rest(s) == s \ {One(s)}
IsSum(g, w, S) ==
  g = [s \in SUBSET S |-> IF s = {} THEN 0 ELSE w[One(s)] + g[Rest(s)]]

LEMMA OneIn == ASSUME NEW s, s # {} PROVE One(s) \in s /\ Rest(s) \in SUBSET s /\ Rest(s) # s
<1>1. One(s) \in s
  BY DEF One
<1> QED BY <1>1 DEF Rest

LEMMA SumAt ==
  ASSUME NEW S, NEW w, NEW g, IsSum(g, w, S), NEW s \in SUBSET S
  PROVE  /\ s = {} => g[s] = 0
         /\ s # {} => g[s] = w[One(s)] + g[Rest(s)]
BY DEF IsSum

LEMMA SumType ==
  ASSUME NEW S, IsFiniteSet(S), NEW w, \A x \in S : w[x] \in Nat, NEW g, IsSum(g, w, S)
  PROVE  \A s \in SUBSET S : g[s] \in Nat
<1> DEFINE Good == {s \in SUBSET S : g[s] \in Nat}
<1>1. ASSUME NEW s \in SUBSET S, \A u \in SUBSET s : u # s => u \in Good
      PROVE  s \in Good
  <2>1. CASE s = {}
    BY <2>1, SumAt
  <2>2. CASE s # {}
    <3>1. g[Rest(s)] \in Nat /\ w[One(s)] \in Nat
      BY <1>1, <2>2, OneIn
    <3>2. g[s] = w[One(s)] + g[Rest(s)]
      BY <2>2, SumAt
    <3> QED BY <3>1, <3>2
  <2> QED BY <2>1, <2>2
<1>2. SUBSET S \subseteq Good
  <2> HIDE DEF Good
  <2> QED BY <1>1, SubsetInduction
<1> QED BY <1>2

\* The partial sums over a set do not depend on what it is a part of.
LEMMA SumSame ==
  ASSUME NEW S, NEW T \in SUBSET S, IsFiniteSet(T), NEW w, NEW g, NEW h,
         IsSum(g, w, S), IsSum(h, w, T)
  PROVE  \A s \in SUBSET T : g[s] = h[s]
<1> DEFINE Good == {s \in SUBSET T : g[s] = h[s]}
<1>1. ASSUME NEW s \in SUBSET T, \A u \in SUBSET s : u # s => u \in Good
      PROVE  s \in Good
  <2>1. s \in SUBSET S
    OBVIOUS
  <2>2. CASE s = {}
    BY <2>1, <2>2, SumAt
  <2>3. CASE s # {}
    <3>1. g[Rest(s)] = h[Rest(s)]
      BY <1>1, <2>3, OneIn
    <3>2. g[s] = w[One(s)] + g[Rest(s)] /\ h[s] = w[One(s)] + h[Rest(s)]
      BY <2>1, <2>3, SumAt
    <3> QED BY <3>1, <3>2
  <2> QED BY <2>2, <2>3
<1>2. SUBSET T \subseteq Good
  <2> HIDE DEF Good
  <2> QED BY <1>1, SubsetInduction
<1> QED BY <1>2

LEMMA SumExists ==
  ASSUME NEW S, IsFiniteSet(S), NEW w
  PROVE  \E g : IsSum(g, w, S)
<1> DEFINE Good == {s \in SUBSET S : \E g : IsSum(g, w, s)}
<1>1. ASSUME NEW s \in SUBSET S, \A u \in SUBSET s : u # s => u \in Good
      PROVE  s \in Good
  <2> DEFINE Sum(u) == CHOOSE g : IsSum(g, w, u)
             Value(u) == IF u = {} THEN 0 ELSE w[One(u)] + Sum(Rest(u))[Rest(u)]
             g == [u \in SUBSET s |-> Value(u)]
  <2>1. ASSUME NEW u \in SUBSET s, u # s
        PROVE  IsSum(Sum(u), w, u) /\ IsFiniteSet(u)
    <3>1. \E h : IsSum(h, w, u)
      BY <1>1, <2>1
    <3>2. IsSum(Sum(u), w, u)
      <4> HIDE DEF IsSum
      <4> QED BY <3>1
    <3> QED BY <3>2, FS_Subset
  <2> HIDE DEF Sum
  <2>2. ASSUME NEW u \in SUBSET s, u # s
        PROVE  Value(u) = Sum(u)[u]
    <3>1. IsSum(Sum(u), w, u)
      BY <2>1, <2>2
    <3>2. CASE u = {}
      BY <3>1, <3>2, SumAt
    <3>3. CASE u # {}
      <4>1. Rest(u) \in SUBSET u /\ Rest(u) \in SUBSET s /\ Rest(u) # s
        BY <2>2, <3>3, OneIn
      <4>2. IsSum(Sum(Rest(u)), w, Rest(u)) /\ IsFiniteSet(Rest(u))
        BY <4>1, <2>1
      <4>3. Sum(u)[Rest(u)] = Sum(Rest(u))[Rest(u)]
        BY <3>1, <4>1, <4>2, SumSame
      <4>4. Sum(u)[u] = w[One(u)] + Sum(u)[Rest(u)]
        BY <3>1, <3>3, SumAt
      <4> QED BY <3>3, <4>3, <4>4
    <3> QED BY <3>2, <3>3
  <2>3. ASSUME NEW u \in SUBSET s
        PROVE  Value(u) = IF u = {} THEN 0 ELSE w[One(u)] + g[Rest(u)]
    <3>1. CASE u = {}
      BY <3>1
    <3>2. CASE u # {}
      <4>1. Rest(u) \in SUBSET s /\ Rest(u) # s
        BY <3>2, OneIn
      <4>2. g[Rest(u)] = Value(Rest(u))
        BY <4>1
      <4>3. Value(Rest(u)) = Sum(Rest(u))[Rest(u)]
        BY <4>1, <2>2
      <4> QED BY <3>2, <4>2, <4>3
    <3> QED BY <3>1, <3>2
  <2>4. IsSum(g, w, s)
    <3> DEFINE h == [u \in SUBSET s |-> IF u = {} THEN 0 ELSE w[One(u)] + g[Rest(u)]]
    <3>1. \A u \in SUBSET s : g[u] = h[u]
      BY <2>3
    <3>2. g = h
      BY <3>1
    <3> QED BY <3>2 DEF IsSum
  <2> QED BY <2>4
<1>2. SUBSET S \subseteq Good
  <2> HIDE DEF Good
  <2> QED BY <1>1, SubsetInduction
<1>3. S \in Good
  BY <1>2
<1> QED BY <1>3

\* Each element adds its value, whenever the sum takes it.
LEMMA SumTakes ==
  ASSUME NEW S, IsFiniteSet(S), NEW w, \A x \in S : w[x] \in Nat, NEW g, IsSum(g, w, S)
  PROVE  \A s \in SUBSET S : \A x \in s : g[s] = g[s \ {x}] + w[x]
<1> DEFINE Good == {s \in SUBSET S : \A x \in s : g[s] = g[s \ {x}] + w[x]}
<1>0. \A s \in SUBSET S : g[s] \in Nat
  BY SumType
<1>1. ASSUME NEW s \in SUBSET S, \A u \in SUBSET s : u # s => u \in Good
      PROVE  s \in Good
  <2> SUFFICES ASSUME NEW x \in s PROVE g[s] = g[s \ {x}] + w[x]
    OBVIOUS
  <2>1. PICK y \in s : y = One(s)
    BY OneIn
  <2>2. g[s] = w[y] + g[s \ {y}]
    BY <2>1, SumAt DEF Rest
  <2>3. g[s \ {x}] \in Nat /\ g[s \ {y}] \in Nat /\ w[x] \in Nat /\ w[y] \in Nat
    BY <1>0
  <2>4. CASE x = y
    BY <2>2, <2>3, <2>4
  <2>5. CASE x # y
    <3>1. PICK u \in SUBSET s : u = (s \ {y}) \ {x} /\ u = (s \ {x}) \ {y}
      OBVIOUS
    <3>2. g[s \ {y}] = g[u] + w[x]
      <4>1. s \ {y} \in Good /\ x \in s \ {y}
        BY <1>1, <2>5
      <4> QED BY <3>1, <4>1
    <3>3. g[s \ {x}] = g[u] + w[y]
      <4>1. s \ {x} \in Good /\ y \in s \ {x}
        BY <1>1, <2>5
      <4> QED BY <3>1, <4>1
    <3>4. g[u] \in Nat
      BY <1>0
    <3> QED BY <2>2, <2>3, <3>2, <3>3, <3>4
  <2> QED BY <2>4, <2>5
<1>2. SUBSET S \subseteq Good
  <2> HIDE DEF Good
  <2> QED BY <1>1, SubsetInduction
<1> QED BY <1>2

LEMMA SumGrows ==
  ASSUME NEW S, IsFiniteSet(S), NEW v, NEW w,
         \A x \in S : v[x] \in Nat /\ w[x] \in Nat /\ v[x] <= w[x],
         NEW g, NEW h, IsSum(g, v, S), IsSum(h, w, S)
  PROVE  \A s \in SUBSET S : g[s] <= h[s]
<1> DEFINE Good == {s \in SUBSET S : g[s] <= h[s]}
<1>0. \A s \in SUBSET S : g[s] \in Nat /\ h[s] \in Nat
  BY SumType
<1>1. ASSUME NEW s \in SUBSET S, \A u \in SUBSET s : u # s => u \in Good
      PROVE  s \in Good
  <2>1. CASE s = {}
    <3>1. g[s] = 0 /\ h[s] = 0
      BY <2>1, SumAt
    <3> QED BY <3>1
  <2>2. CASE s # {}
    <3>1. g[Rest(s)] <= h[Rest(s)] /\ g[Rest(s)] \in Nat /\ h[Rest(s)] \in Nat
      BY <1>0, <1>1, <2>2, OneIn
    <3>2. v[One(s)] \in Nat /\ w[One(s)] \in Nat /\ v[One(s)] <= w[One(s)]
      BY <2>2, OneIn
    <3>3. g[s] = v[One(s)] + g[Rest(s)] /\ h[s] = w[One(s)] + h[Rest(s)]
      BY <2>2, SumAt
    <3>4. g[s] <= h[s]
      BY <3>1, <3>2, <3>3
    <3> QED BY <3>4
  <2> QED BY <2>1, <2>2
<1>2. SUBSET S \subseteq Good
  <2> HIDE DEF Good
  <2> QED BY <1>1, SubsetInduction
<1> QED BY <1>2

\* The sum of w over S.
Total(w, S) == (CHOOSE g : IsSum(g, w, S))[S]

LEMMA TotalIs ==
  ASSUME NEW S, IsFiniteSet(S), NEW w
  PROVE  \E g : IsSum(g, w, S) /\ Total(w, S) = g[S]
<1>1. \E g : IsSum(g, w, S)
  BY SumExists
<1>2. IsSum(CHOOSE g : IsSum(g, w, S), w, S)
  <2> HIDE DEF IsSum
  <2> QED BY <1>1
<1> QED BY <1>2 DEF Total

\* What the proofs below know of a sum.
LEMMA TotalFacts ==
  ASSUME NEW S, IsFiniteSet(S), NEW w, \A x \in S : w[x] \in Nat
  PROVE  /\ Total(w, S) \in Nat
         /\ S = {} => Total(w, S) = 0
         /\ \A x \in S : Total(w, S) = Total(w, S \ {x}) + w[x]
         /\ \A v : (\A x \in S : v[x] \in Nat /\ v[x] <= w[x]) => Total(v, S) <= Total(w, S)
<1>1. PICK g : IsSum(g, w, S) /\ Total(w, S) = g[S]
  BY TotalIs
<1>2. Total(w, S) \in Nat /\ (S = {} => Total(w, S) = 0)
  BY <1>1, SumType, SumAt
<1>3. ASSUME NEW x \in S
      PROVE  Total(w, S) = Total(w, S \ {x}) + w[x]
  <2>1. PICK T \in SUBSET S : T = S \ {x} /\ IsFiniteSet(T)
    BY FS_RemoveElement
  <2>2. PICK h : IsSum(h, w, T) /\ Total(w, T) = h[T]
    BY <2>1, TotalIs
  <2>3. g[T] = h[T]
    BY <1>1, <2>1, <2>2, SumSame
  <2>4. g[S] = g[S \ {x}] + w[x]
    BY <1>1, SumTakes
  <2> QED BY <1>1, <2>1, <2>2, <2>3, <2>4
<1>4. ASSUME NEW v, \A x \in S : v[x] \in Nat /\ v[x] <= w[x]
      PROVE  Total(v, S) <= Total(w, S)
  <2>1. PICK h : IsSum(h, v, S) /\ Total(v, S) = h[S]
    BY TotalIs
  <2> QED BY <1>1, <1>4, <2>1, SumGrows
<1> QED BY <1>2, <1>3, <1>4

\* The sums of the model, of what a set of runs was charged and billed.
Charges == [r \in Runs |-> attempt[r].charge]

LEMMA ChargedIs ==
  ASSUME NEW S \in SUBSET Runs, IsFiniteSet(S)
  PROVE  MapThenSumSet(Charged, S) = Total(Charges, S)
<1> DEFINE Is(g) == g = [s \in SUBSET S |-> IF s = {} THEN 0
                          ELSE attempt[CHOOSE x \in s : TRUE].charge + g[s \ {CHOOSE x \in s : TRUE}]]
<1>1. ASSUME NEW g
      PROVE  Is(g) <=> IsSum(g, Charges, S)
  <2>1. \A s \in SUBSET S : s # {} => One(s) \in Runs
    BY OneIn
  <2>2. [s \in SUBSET S |-> IF s = {} THEN 0 ELSE attempt[One(s)].charge + g[Rest(s)]]
         = [s \in SUBSET S |-> IF s = {} THEN 0 ELSE Charges[One(s)] + g[Rest(s)]]
    BY <2>1 DEF Charges
  <2> QED BY <2>2 DEF IsSum, One, Rest
<1>2. MapThenSumSet(Charged, S) = (CHOOSE g : Is(g))[S]
  BY DEF MapThenSumSet, MapThenFoldSet, Charged
<1>3. PICK g : IsSum(g, Charges, S) /\ Total(Charges, S) = g[S]
  BY TotalIs
<1>4. IsSum(CHOOSE h : Is(h), Charges, S)
  <2> HIDE DEF Is, IsSum
  <2>1. \E h : Is(h)
    BY <1>1, <1>3
  <2>2. Is(CHOOSE h : Is(h))
    BY <2>1
  <2> QED BY <1>1, <2>2
<1>5. (CHOOSE h : Is(h))[S] = g[S]
  <2> HIDE DEF Is
  <2> QED BY <1>3, <1>4, SumSame
<1> QED BY <1>2, <1>3, <1>5

LEMMA BilledIs ==
  ASSUME NEW S \in SUBSET Runs, IsFiniteSet(S)
  PROVE  MapThenSumSet(Billed, S) = Total(bill, S)
<1>1. MapThenSumSet(Billed, S) = (CHOOSE g : IsSum(g, bill, S))[S]
  BY DEF MapThenSumSet, MapThenFoldSet, Billed, IsSum, One, Rest
<1> QED BY <1>1 DEF Total

-----------------------------------------------------------------------------
(* The charges of a day. *)

\* The runs reserved on day d.
On(d) == {r \in Runs : attempt[r].day = d}

\* A reservation is dated, once and for all; finitely many have been made; and
\* the charges of no day are above the budget.
BudgetInv ==
  /\ day >= 1
  /\ \A r \in Runs : /\ attempt[r].day <= day
                     /\ attempt[r].state = "NONE" <=> attempt[r].day = 0
  /\ IsFiniteSet({r \in Runs : attempt[r].day # 0})
  /\ \A d \in 1 .. day : Total(Charges, On(d)) <= Budget

LEMMA TodayIs ==
  ASSUME BudgetInv, TypeOK
  PROVE  Today = On(day) /\ IsFiniteSet(Today)
<1>1. Today = On(day)
  BY DEF BudgetInv, Today, On
<1>2. On(day) \in SUBSET {r \in Runs : attempt[r].day # 0}
  BY DEF BudgetInv, On
<1> QED BY <1>1, <1>2, FS_Subset DEF BudgetInv

\* Charges go down, or the day changes.
LEMMA BudgetLighter ==
  ASSUME BudgetInv, TypeOK, TypeOK', day' \in {day, day + 1},
         \A r \in Runs : /\ attempt'[r].day = attempt[r].day
                         /\ attempt'[r].state = "NONE" <=> attempt[r].state = "NONE"
                         /\ attempt'[r].charge <= attempt[r].charge
  PROVE  BudgetInv'
<1>1. day \in Nat /\ day >= 1 /\ day' \in Nat /\ day' >= day
  BY DEF BudgetInv, TypeOK
<1>2. \A r \in Runs : attempt[r] \in AttemptType /\ attempt'[r] \in AttemptType
  BY DEF TypeOK
<1>3. \A r \in Runs : /\ attempt'[r].day <= day'
                      /\ attempt'[r].state = "NONE" <=> attempt'[r].day = 0
  BY <1>1, <1>2 DEF BudgetInv, AttemptType
<1>4. {r \in Runs : attempt'[r].day # 0} = {r \in Runs : attempt[r].day # 0}
  OBVIOUS
<1>5. ASSUME NEW d \in 1 .. day'
      PROVE  Total(Charges', On(d)') <= Budget
  <2>1. PICK S \in SUBSET Runs : S = On(d) /\ S = On(d)'
    BY DEF On
  <2>2. IsFiniteSet(S)
    <3>1. S \in SUBSET {r \in Runs : attempt[r].day # 0}
      BY <2>1, <1>5 DEF On
    <3> QED BY <3>1, FS_Subset DEF BudgetInv
  <2>3. PICK w, v : w = Charges /\ v = Charges'
    OBVIOUS
  <2>4. \A r \in Runs : w[r] \in Nat /\ v[r] \in Nat /\ v[r] <= w[r]
    BY <1>2, <2>3 DEF Charges, AttemptType
  <2>5. Total(v, S) <= Total(w, S) /\ Total(v, S) \in Nat /\ Total(w, S) \in Nat
        /\ (S = {} => Total(w, S) = 0)
    BY <2>2, <2>4, TotalFacts
  <2>6. Total(w, S) <= Budget
    <3>1. CASE d <= day
      <4>1. d \in 1 .. day
        BY <1>1, <1>5, <3>1
      <4>2. Total(Charges, On(d)) <= Budget
        BY <4>1 DEF BudgetInv
      <4> QED BY <2>1, <2>3, <4>2
    <3>2. CASE ~ (d <= day)
      <4>1. S = {}
        BY <1>1, <1>2, <1>5, <2>1, <3>2 DEF BudgetInv, On, AttemptType
      <4> QED BY <2>5, <4>1, LimitsAssumption
    <3> QED BY <3>1, <3>2
  <2>7. Total(v, S) <= Budget
    BY <2>5, <2>6, LimitsAssumption
  <2> QED BY <2>1, <2>3, <2>7
<1>6. (\A d \in 1 .. day : Total(Charges, On(d)) <= Budget)'
  BY <1>5
<1>7. IsFiniteSet({r \in Runs : attempt'[r].day # 0})
  BY <1>4 DEF BudgetInv
<1> QED BY <1>1, <1>3, <1>6, <1>7 DEF BudgetInv

\* One more attempt is reserved today, because it is affordable.
LEMMA BudgetReserves ==
  ASSUME BudgetInv, TypeOK, TypeOK', day' = day, NEW q \in Runs, attempt[q].state = "NONE",
         attempt'[q] = Reserved, \A r \in Runs \ {q} : attempt'[r] = attempt[r], Affordable
  PROVE  BudgetInv'
<1>1. day \in Nat /\ day >= 1
  BY DEF BudgetInv, TypeOK
<1>2. \A r \in Runs : attempt[r] \in AttemptType /\ attempt'[r] \in AttemptType
  BY DEF TypeOK
<1>3. /\ attempt'[q].state = "RESERVED" /\ attempt'[q].day = day /\ attempt'[q].charge = Reserve
      /\ attempt[q].day = 0
  BY DEF Reserved, BudgetInv
<1>4. \A r \in Runs : /\ attempt'[r].day <= day
                      /\ attempt'[r].state = "NONE" <=> attempt'[r].day = 0
  BY <1>1, <1>2, <1>3 DEF BudgetInv, AttemptType
<1>5. IsFiniteSet({r \in Runs : attempt'[r].day # 0})
  <2>1. PICK S : S = {r \in Runs : attempt[r].day # 0} /\ IsFiniteSet(S)
    BY DEF BudgetInv
  <2>2. {r \in Runs : attempt'[r].day # 0} = S \cup {q}
    BY <1>1, <1>3, <2>1
  <2> QED BY <2>1, <2>2, FS_AddElement
<1>6. ASSUME NEW d \in 1 .. day
      PROVE  Total(Charges', On(d)') <= Budget
  <2>1. PICK S \in SUBSET Runs : S = On(d)'
    BY DEF On
  <2>2. PICK w, v : w = Charges /\ v = Charges'
    OBVIOUS
  <2>3. IsFiniteSet(S)
    <3>1. S \in SUBSET {r \in Runs : attempt'[r].day # 0}
      BY <2>1, <1>6 DEF On
    <3> QED BY <1>5, <3>1, FS_Subset
  <2>4. \A r \in Runs : w[r] \in Nat /\ v[r] \in Nat
    BY <1>2, <2>2 DEF Charges, AttemptType
  <2>5. \A r \in Runs \ {q} : v[r] = w[r]
    BY <2>2 DEF Charges
  <2>6. CASE d # day
    <3>1. S = On(d) /\ q \notin S
      BY <1>3, <1>6, <2>1, <2>6 DEF On
    <3>2. Total(v, S) <= Total(w, S) /\ Total(v, S) \in Nat /\ Total(w, S) \in Nat
      <4>1. \A r \in S : v[r] <= w[r]
        BY <2>4, <2>5, <3>1
      <4> QED BY <2>3, <2>4, <4>1, TotalFacts
    <3>3. Total(w, S) <= Budget
      BY <2>2, <3>1 DEF BudgetInv
    <3>4. Total(v, S) <= Budget
      BY <3>2, <3>3, LimitsAssumption
    <3> QED BY <2>1, <2>2, <3>4
  <2>7. CASE d = day
    <3>1. PICK T \in SUBSET Runs : T = Today
      BY DEF Today
    <3>2. T = On(d) /\ IsFiniteSet(T)
      BY <2>7, <3>1, TodayIs
    <3>3. T = S \ {q} /\ q \in S
      BY <1>1, <1>3, <1>6, <2>1, <2>7, <3>2 DEF On
    <3>4. Total(w, T) + Reserve <= Budget
      BY <2>2, <3>1, <3>2, ChargedIs DEF Affordable
    <3>5. Total(v, S) = Total(v, T) + Reserve
      <4>1. v[q] = Reserve
        BY <1>3, <2>2 DEF Charges
      <4>2. Total(v, S) = Total(v, S \ {q}) + v[q]
        BY <2>3, <2>4, <3>3, TotalFacts
      <4> QED BY <3>3, <4>1, <4>2
    <3>6. Total(v, T) <= Total(w, T) /\ Total(v, T) \in Nat /\ Total(w, T) \in Nat
      <4>1. \A r \in T : v[r] <= w[r]
        BY <2>4, <2>5, <3>3
      <4> QED BY <2>4, <3>2, <4>1, TotalFacts
    <3>7. Total(v, S) <= Budget
      BY <3>4, <3>5, <3>6, LimitsAssumption
    <3> QED BY <2>1, <2>2, <3>7
  <2> QED BY <2>6, <2>7
<1>7. (\A d \in 1 .. day : Total(Charges, On(d)) <= Budget)'
  BY <1>6
<1> QED BY <1>1, <1>4, <1>5, <1>7 DEF BudgetInv

\* An attempt stays as it is, or is settled with what is known of its usage.
Settles ==
  \A q \in Runs :
    \/ attempt'[q] = attempt[q]
    \/ /\ bill' = bill
       /\ \E u, n : attempt'[q] = Settled(attempt[q], IF u # 0 THEN u ELSE attempt[q].usage, n)

LEMMA FinishedSettles ==
  ASSUME Typed, NEW r \in Runs, NEW status, NEW usage, NEW notSent,
         Finished(r, status, usage, notSent), bill' = bill
  PROVE  Settles
BY DEF Finished, Settles, Typed, TypeOK

LEMMA StoredSettles == UNCHANGED stored \/ UNCHANGED attempt => Settles
BY DEF stored, Settles

LEMMA DispatcherSettles ==
  ASSUME Typed, NEW j \in Jobs, Dispatcher(j) \/ Interrupt(j), ~ ReserveAttempt(j),
         \A q \in Runs : ~ NextStep(j, q)
  PROVE  Settles
<1>1. CASE ExecuteCall(j) \/ Save(j)
  BY <1>1, StoredSettles DEF ExecuteCall, Save
<1>2. CASE \E calls \in Answers : AfterModel(j, calls)
  <2>1. job[j].pc = "after" /\ Settleable(j) /\ SettleStep(j) /\ bill' = bill
    BY <1>2 DEF AfterModel, At, ghosts
  <2>2. job[j].step \in Runs
    BY <2>1, AfterAt
  <2>3. CASE job[j].step # job[j].run
    BY <2>1, <2>2, <2>3, FinishedSettles DEF SettleStep
  <2>4. CASE job[j].step = job[j].run /\ job[j].req.usage = 0
    BY <2>1, <2>4, StoredSettles DEF SettleStep
  <2>5. CASE job[j].step = job[j].run /\ job[j].req.usage # 0
    <3>1. attempt' = [attempt EXCEPT ![job[j].step] = Settled(@, job[j].req.usage, FALSE)]
      BY <2>1, <2>5 DEF SettleStep
    <3> QED BY <2>1, <2>2, <2>5, <3>1 DEF Settles, Typed, TypeOK
  <2> QED BY <2>3, <2>4, <2>5
<1>3. CASE Release(j)
  <2>1. CASE UNCHANGED <<run, attempt>>
    BY <2>1, StoredSettles
  <2>2. CASE job[j].step \in Runs /\ Finished(job[j].step, "FAILED", 0, FALSE)
    BY <1>3, <2>2, FinishedSettles DEF Release, ghosts
  <2> QED BY <1>3, <2>1, <2>2, ReleaseDoes
<1>4. CASE Refused(j)
  <2>1. job[j].run \in Runs /\ bill' = bill
    BY <1>4, Busy DEF Refused, At, ghosts
  <2>2. CASE UNCHANGED <<run, attempt, session>>
    BY <2>2, StoredSettles
  <2>3. CASE Finished(job[j].run, "FAILED", 0, FALSE)
    BY <2>1, <2>3, FinishedSettles
  <2> QED BY <1>4, <2>2, <2>3 DEF Refused
<1>5. CASE Finish(j)
  <2>1. job[j].run \in Runs /\ bill' = bill
    BY <1>5, Busy DEF Finish, At, ghosts
  <2>2. CASE UNCHANGED <<run, attempt, session>>
    BY <2>2, StoredSettles
  <2>3. CASE Finished(job[j].run, job[j].out, job[j].req.usage, Plain(j) /\ job[j].req.notSent)
    BY <2>1, <2>3, FinishedSettles
  <2> QED BY <1>5, <2>2, <2>3 DEF Finish
<1>6. CASE \/ Resume(j) \/ Refuse(j) \/ AskHuman(j) \/ ApprovedCall(j) \/ RejectedCall(j)
           \/ LoseCall(j) \/ RefuseCall(j) \/ LoseExecution(j) \/ SaveFails(j)
           \/ FirstStep(j) \/ NoStep(j) \/ SendRefused(j)
           \/ NotSent(j) \/ Unknown(j) \/ Answer(j) \/ LoseAnswer(j) \/ Interrupt(j)
           \/ \E cost \in Usages \cup {0} : Send(j, cost)
  <2>1. UNCHANGED stored
    BY <1>6 DEF Resume, Refuse, AskHuman, ApprovedCall, RejectedCall, LoseCall, RefuseCall,
       LoseExecution, SaveFails, FirstStep, NoStep, SendRefused, NotSent, Unknown, Answer,
       LoseAnswer, Interrupt, Send
  <2> QED BY <2>1, StoredSettles
<1> QED BY <1>1, <1>2, <1>3, <1>4, <1>5, <1>6 DEF Dispatcher

LEMMA NextSettles ==
  ASSUME Typed, [Next]_vars
  PROVE  \/ Settles
         \/ \E j \in Jobs : ReserveAttempt(j)
         \/ \E j \in Jobs : \E q \in Runs : NextStep(j, q)
<1>1. CASE \E r \in Runs : \/ \E s \in Sessions \cup {NoSession} : Propose(r, s)
                           \/ Reject(r) \/ ChangeContext(r)
                           \/ \E j \in Jobs : \/ Approve(r, j)
                                              \/ DecideCall(r, "APPROVED", j)
                                              \/ DecideCall(r, "REJECTED", j)
  BY <1>1, StoredSettles DEF Propose, Reject, ChangeContext, Approve, DecideCall, stored
<1>2. CASE \E r \in Runs : Stop(r) \/ Recover(r)
  BY <1>2, FinishedSettles DEF Stop, Recover, ghosts
<1>3. CASE \/ \E s \in Sessions : ChangeSession(s)
           \/ NewDay \/ Start \/ Crash \/ (\E j \in Jobs : EndLogin(j)) \/ UNCHANGED vars
  BY <1>3, StoredSettles DEF ChangeSession, NewDay, Start, Crash, EndLogin, vars
<1>4. CASE \E j \in Jobs : Dispatcher(j) \/ Interrupt(j)
  BY <1>4, DispatcherSettles
<1> QED BY <1>1, <1>2, <1>3, <1>4 DEF Next, Person

\* A dispatcher leaves the rest of the world alone.
LEMMA DispatcherWorld ==
  ASSUME NEW j \in Jobs, Dispatcher(j) \/ Interrupt(j)
  PROVE  UNCHANGED world
<1>1. CASE \/ ReserveAttempt(j) \/ Resume(j) \/ Refuse(j) \/ Refused(j)
           \/ AskHuman(j) \/ ApprovedCall(j) \/ RejectedCall(j) \/ LoseCall(j)
  BY <1>1 DEF ReserveAttempt, Resume, Refuse, Refused, AskHuman, ApprovedCall, RejectedCall,
     LoseCall
<1>2. CASE \/ ExecuteCall(j) \/ RefuseCall(j) \/ LoseExecution(j) \/ Save(j) \/ SaveFails(j)
           \/ FirstStep(j) \/ NoStep(j) \/ \E q \in Runs : NextStep(j, q)
  BY <1>2 DEF ExecuteCall, RefuseCall, LoseExecution, Save, SaveFails, FirstStep, NoStep, NextStep
<1>3. CASE \/ \E cost \in Usages \cup {0} : Send(j, cost)
           \/ NotSent(j) \/ Unknown(j) \/ Answer(j) \/ LoseAnswer(j)
           \/ \E calls \in Answers : AfterModel(j, calls)
           \/ Release(j) \/ Finish(j) \/ SendRefused(j) \/ Interrupt(j)
  BY <1>3 DEF Send, NotSent, Unknown, Answer, LoseAnswer, AfterModel, Release, Finish,
     SendRefused, Interrupt
<1> QED BY <1>1, <1>2, <1>3 DEF Dispatcher

\* A midnight is the only step that changes the day.
LEMMA NextDay ==
  ASSUME Typed, [Next]_vars
  PROVE  day' \in {day, day + 1}
         /\ (\A j \in Jobs : (ReserveAttempt(j) \/ \E q \in Runs : NextStep(j, q)) => day' = day)
<1>1. CASE UNCHANGED day
  BY <1>1
<1>2. CASE NewDay
  <2>1. UNCHANGED <<stored, job>> /\ day' = day + 1
    BY <1>2 DEF NewDay
  <2> QED BY <2>1 DEF ReserveAttempt, NextStep, world
<1>3. CASE \E j \in Jobs : Dispatcher(j) \/ Interrupt(j)
  BY <1>1, <1>3, DispatcherWorld DEF world
<1>4. CASE Person
  BY <1>4, <1>1 DEF Person, Propose, Reject, Stop, ChangeContext, Approve, DecideCall, ChangeSession, world
<1>5. CASE Crash \/ Start \/ (\E r \in Runs : Recover(r)) \/ (\E j \in Jobs : EndLogin(j)) \/ UNCHANGED vars
  BY <1>5, <1>1 DEF Crash, Start, Recover, EndLogin, vars, world
<1> QED BY <1>2, <1>3, <1>4, <1>5 DEF Next

\* A settlement charges no more than was charged before.
LEMMA SettledLighter ==
  ASSUME Safe, Safe', [Next]_vars, Settles, NEW r \in Runs
  PROVE  /\ attempt'[r].day = attempt[r].day
         /\ attempt'[r].state = "NONE" <=> attempt[r].state = "NONE"
         /\ attempt'[r].charge <= attempt[r].charge
<1>1. /\ attempt[r] \in AttemptType /\ attempt'[r] \in AttemptType
      /\ bill[r] \in Nat /\ bill'[r] \in Nat /\ Reserve \in Nat
      /\ Funded(run[r], attempt[r], paid[r], bill[r])
      /\ Funded(run'[r], attempt'[r], paid'[r], bill'[r])
  BY LimitsAssumption DEF Safe, MoneyInv, Typed, TypeOK
<1>2. CASE attempt'[r] = attempt[r]
  BY <1>1, <1>2 DEF AttemptType
<1>3. CASE attempt'[r] # attempt[r]
  <2>1. PICK u, n : attempt'[r] = Settled(attempt[r], IF u # 0 THEN u ELSE attempt[r].usage, n)
    BY <1>3 DEF Settles
  <2>2. bill' = bill
    BY <1>3 DEF Settles
  <2>3. attempt[r].state # "NOT_SENT"
    BY <1>1, <1>3, NextFinished DEF Funded, Safe
  <2>4. /\ attempt'[r].day = attempt[r].day
        /\ attempt'[r].state = "NONE" <=> attempt[r].state = "NONE"
    BY <1>1, <2>1 DEF Settled, AttemptType
  <2>5. CASE attempt[r].state = "RECONCILED"
    <3>1. (IF u # 0 THEN u ELSE attempt[r].usage) # 0
      BY <1>1, <2>5 DEF Funded
    <3>2. attempt'[r].state = "RECONCILED"
      BY <1>1, <2>1, <2>5, <3>1 DEF Settled, AttemptType
    <3> QED BY <1>1, <2>2, <2>4, <2>5, <3>2 DEF Funded
  <2>6. CASE attempt[r].state \in {"RESERVED", "UNKNOWN"}
    <3>1. attempt[r].charge = Reserve
      BY <1>1, <2>6 DEF Funded
    <3>2. attempt'[r].charge <= Reserve
      BY <1>1 DEF Funded, AttemptType
    <3> QED BY <2>4, <3>1, <3>2
  <2>7. CASE attempt[r].state = "NONE"
    BY <1>3, <2>1, <2>7 DEF Settled
  <2> QED BY <1>1, <2>3, <2>5, <2>6, <2>7 DEF AttemptType
<1> QED BY <1>2, <1>3

LEMMA NextBudget == Safe /\ Safe' /\ BudgetInv /\ [Next]_vars => BudgetInv'
<1> SUFFICES ASSUME Safe, Safe', BudgetInv, [Next]_vars PROVE BudgetInv'
  OBVIOUS
<1>0. Typed /\ TypeOK /\ TypeOK' /\ day' \in {day, day + 1}
  BY NextDay DEF Safe, Typed
<1>1. CASE Settles
  BY <1>0, <1>1, SettledLighter, BudgetLighter
<1>2. CASE \E j \in Jobs : ReserveAttempt(j)
  <2>1. PICK j \in Jobs : ReserveAttempt(j)
    BY <1>2
  <2>2. job[j].run \in Runs /\ attempt[job[j].run].state = "NONE" /\ Affordable
    BY <1>0, <2>1, Busy DEF ReserveAttempt, At, Reservable
  <2>3. /\ attempt'[job[j].run] = Reserved
        /\ \A q \in Runs \ {job[j].run} : attempt'[q] = attempt[q]
    BY <1>0, <2>1, ReserveAttemptDoes
  <2>4. day' = day
    BY <1>0, <2>1, NextDay
  <2> QED BY <1>0, <2>2, <2>3, <2>4, BudgetReserves
<1>3. CASE \E j \in Jobs : \E q \in Runs : NextStep(j, q)
  <2>1. PICK j \in Jobs, q \in Runs : NextStep(j, q)
    BY <1>3
  <2>0. Affordable
    BY <2>1 DEF NextStep, MayStep
  <2>2. attempt'[q] = Reserved /\ run[q].status = "NONE"
        /\ \A r \in Runs \ {q} : attempt'[r] = attempt[r]
    BY <1>0, <2>1, NextStepDoes
  <2>3. attempt[q].state = "NONE"
    BY <2>2 DEF Safe, StepInv, Stored, Begun
  <2>4. day' = day
    BY <1>0, <2>1, NextDay
  <2> QED BY <1>0, <2>0, <2>2, <2>3, <2>4, BudgetReserves
<1> QED BY <1>0, <1>1, <1>2, <1>3, NextSettles

LEMMA InitBudget == Init => BudgetInv
<1> SUFFICES ASSUME Init PROVE BudgetInv
  OBVIOUS
<1>1. day = 1 /\ \A r \in Runs : attempt[r].state = "NONE" /\ attempt[r].day = 0
  BY DEF Init, NoAttempt
<1>2. {r \in Runs : attempt[r].day # 0} = {}
  BY <1>1
<1>3. ASSUME NEW d \in 1 .. day
      PROVE  Total(Charges, On(d)) <= Budget
  <2>1. On(d) = {}
    BY <1>1 DEF On
  <2>2. Total(Charges, {}) = 0
    BY FS_EmptySet, TotalFacts
  <2> QED BY <2>1, <2>2, LimitsAssumption
<1>4. IsFiniteSet({r \in Runs : attempt[r].day # 0})
  BY <1>2, FS_EmptySet
<1> QED BY <1>1, <1>3, <1>4 DEF BudgetInv

\* The bills of a day stay within the daily budget: what is reserved, settled or
\* unknown of that day is counted before anything else is reserved, and covers
\* what the providers charge (gatewayReservation, settleGatewayMoney).
THEOREM BudgetHolds == Spec => []BudgetKept
<1>1. Init => BudgetInv
  BY InitBudget
<1>2. Safe /\ BudgetInv => BudgetKept
  <2> SUFFICES ASSUME Safe, BudgetInv, NEW d \in 1 .. day
               PROVE  MapThenSumSet(Billed, On(d)) <= Budget
    BY DEF BudgetKept, On
  <2>1. PICK S \in SUBSET Runs : S = On(d)
    BY DEF On
  <2>2. IsFiniteSet(S)
    <3>1. S \in SUBSET {r \in Runs : attempt[r].day # 0}
      BY <2>1 DEF On
    <3> QED BY <3>1, FS_Subset DEF BudgetInv
  <2>3. \A r \in S : bill[r] \in Nat /\ Charges[r] \in Nat /\ bill[r] <= Charges[r]
    <3>1. ASSUME NEW r \in Runs
          PROVE  bill[r] \in Nat /\ Charges[r] \in Nat /\ bill[r] <= Charges[r]
      <4>1. /\ attempt[r] \in AttemptType /\ bill[r] \in Nat
            /\ Charges[r] = attempt[r].charge
        BY DEF Safe, Typed, TypeOK, Charges
      <4>2. bill[r] <= attempt[r].charge
        BY <3>1, CoversBill DEF ChargeCoversBill
      <4> QED BY <4>1, <4>2 DEF AttemptType
    <3> QED BY <3>1
  <2>4. Total(bill, S) <= Total(Charges, S) /\ Total(bill, S) \in Nat /\ Total(Charges, S) \in Nat
    BY <2>2, <2>3, TotalFacts
  <2>5. Total(Charges, S) <= Budget
    BY <2>1 DEF BudgetInv
  <2>6. MapThenSumSet(Billed, S) = Total(bill, S)
    BY <2>2, BilledIs
  <2> QED BY <2>1, <2>4, <2>5, <2>6, LimitsAssumption
<1> QED BY <1>1, <1>2, NextBudget, AlwaysSafe, PTL DEF Spec

-----------------------------------------------------------------------------
(* The calls of a run.                                                         *)

\* A harness h and the executions done: a call is pending once, was asked for,
\* and was not executed yet; nor was a call that nobody asked for.
Tidy(h, done) ==
  /\ IsInjective(h.pending) /\ Range(h.pending) \subseteq h.asked
  /\ \A c \in Calls : c \in Range(h.pending) \/ c \notin h.asked => done[c] = 0

\* A dispatcher x that holds the stored version of its run, or is about to.
Current(x, rn) ==
  x.pc = "reserve" \/ (x.pc \in Work /\ x.ver = rn[x.run].version)

\* Such a dispatcher knows what was executed, and executes what was approved.
Held(x, rn, vd, cm) ==
  /\ x.pc \in Work => x.ver <= rn[x.run].version
  /\ x.pc \in Work /\ x.ver = rn[x.run].version /\ rn[x.run].status = "RUNNING" =>
       /\ Tidy(x.h, cm[x.run])
       /\ x.pc = "execute" => /\ Head(x.h.pending) \in Writes
                              /\ vd[x.run][Head(x.h.pending)].decision = "APPROVED"

Alone(x, y, rn) ==
  Current(x, rn) /\ Current(y, rn) /\ x.run = y.run => rn[x.run].status # "RUNNING"

\* A run with its harness h, verdicts v and executions done.
Executed(h, v, done) ==
  /\ Tidy(h, done)
  /\ \A c \in Calls : /\ done[c] <= 1
                      /\ done[c] > 0 /\ c \in Writes => v[c].decision = "APPROVED"

WriteInv ==
  /\ \A r \in Runs : Executed(harness[r], verdict[r], commits[r])
  /\ \A j \in Jobs : Held(job[j], run, verdict, commits)
  /\ \A j, k \in Jobs : j # k => Alone(job[j], job[k], run)

Sound == Typed /\ StepInv /\ WriteInv

LEMMA TidySame ==
  ASSUME NEW h, NEW g, NEW done, Tidy(h, done), g.pending = h.pending, g.asked = h.asked
  PROVE  Tidy(g, done)
BY DEF Tidy

\* The next call is taken off the harness; it alone may have been executed.
LEMMA TidyTail ==
  ASSUME NEW h \in HarnessType, h.pending # <<>>, NEW done, NEW later, Tidy(h, done),
         \A c \in Calls : c # Head(h.pending) => later[c] = done[c],
         NEW g, g.pending = Tail(h.pending), g.asked = h.asked
  PROVE  Tidy(g, later)
<1> DEFINE p == h.pending
<1>1. p \in Seq(Calls) /\ p # <<>> /\ IsInjective(p) /\ Range(p) \subseteq h.asked
  BY DEF HarnessType, Tidy
<1>2. /\ Tail(p) \in Seq(Calls) /\ Len(Tail(p)) = Len(p) - 1 /\ Len(p) \in Nat \ {0}
      /\ \A i \in 1 .. Len(Tail(p)) : Tail(p)[i] = p[i + 1]
      /\ DOMAIN p = 1 .. Len(p) /\ DOMAIN Tail(p) = 1 .. Len(Tail(p)) /\ Head(p) = p[1]
  BY <1>1
<1>3. IsInjective(Tail(p))
  <2>1. ASSUME NEW a \in 1 .. Len(Tail(p)), NEW b \in 1 .. Len(Tail(p)), Tail(p)[a] = Tail(p)[b]
        PROVE  a = b
    <3>1. /\ a + 1 \in DOMAIN p /\ b + 1 \in DOMAIN p /\ p[a + 1] = p[b + 1]
      BY <1>2, <2>1
    <3>2. a + 1 = b + 1
      BY <1>1, <3>1 DEF IsInjective
    <3> QED BY <3>2
  <2> QED BY <1>2, <2>1 DEF IsInjective
<1>4. Range(Tail(p)) \subseteq Range(p) /\ Head(p) \in Range(p)
  BY <1>2 DEF Range
<1>5. Head(p) \notin Range(Tail(p))
  BY <1>1, <1>2 DEF Range, IsInjective
<1>6. ASSUME NEW c \in Calls, c \in Range(Tail(p)) \/ c \notin h.asked
      PROVE  later[c] = 0
  <2>1. c # Head(p) /\ (c \in Range(p) \/ c \notin h.asked)
    BY <1>1, <1>4, <1>5, <1>6
  <2> QED BY <2>1 DEF Tidy
<1> QED BY <1>1, <1>3, <1>4, <1>6 DEF Tidy

\* The calls of an answer, none of them asked for before.
LEMMA TidyQueued ==
  ASSUME NEW h \in HarnessType, NEW done, Tidy(h, done), NEW calls \in Answers,
         IsInjective(calls), Range(calls) \cap h.asked = {}
  PROVE  Tidy(Queued(h, calls), done)
<1>1. Queued(h, calls).pending = calls /\ Queued(h, calls).asked = h.asked \cup Range(calls)
  BY DEF Queued, HarnessType
<1> QED BY <1>1 DEF Tidy

-----------------------------------------------------------------------------
(* What no step does to the calls of the other dispatchers.                    *)

\* Whatever is decided or executed moves the version of the run.
Bumps ==
  \A r \in Runs : run[r].status \notin Begun =>
    /\ run'[r].version >= run[r].version
    /\ run'[r].version = run[r].version => commits'[r] = commits[r] /\ verdict'[r] = verdict[r]

LEMMA StillRunning ==
  ASSUME Typed, [Next]_vars, NEW r \in Runs, run[r].status \notin Begun,
         run'[r].status = "RUNNING"
  PROVE  run[r].status = "RUNNING"
<1>1. run[r].status \in Final => run'[r] = run[r]
  BY NextFinished
<1>2. run[r].status \in Final \cup {"NONE", "WAITING_APPROVAL", "RUNNING"}
  BY Fields DEF Typed, RunType
<1> QED BY <1>1, <1>2 DEF Begun, Final

\* A dispatcher that does not move is not more current than before.
LEMMA OthersHeld ==
  ASSUME Sound, [Next]_vars, Bumps, NEW k \in Jobs, job'[k] = job[k]
  PROVE  /\ Held(job'[k], run', verdict', commits')
         /\ Current(job[k], run') => Current(job[k], run)
<1> DEFINE x == job[k]
<1>1. CASE x.pc \notin Work
  BY <1>1 DEF Held, Current
<1>2. CASE x.pc \in Work
  <2>1. /\ x.run \in Runs /\ x.ver \in Nat /\ run[x.run].status \notin Begun
        /\ run[x.run].version \in Nat
    BY <1>2, Busy DEF Sound, Work
  <2>2. Held(x, run, verdict, commits) /\ run'[x.run].version \in Nat
    BY <2>1, NextTyped, Fields DEF Sound, WriteInv, Typed, TypeOK, RunType
  <2>3. /\ run'[x.run].version >= run[x.run].version
        /\ run'[x.run].version = run[x.run].version =>
             commits'[x.run] = commits[x.run] /\ verdict'[x.run] = verdict[x.run]
    BY <2>1 DEF Bumps
  <2>4. run'[x.run].status = "RUNNING" => run[x.run].status = "RUNNING"
    BY <2>1, StillRunning DEF Sound
  <2>5. x.ver = run'[x.run].version => run'[x.run].version = run[x.run].version
    BY <1>2, <2>1, <2>2, <2>3 DEF Held
  <2>6. x.ver <= run'[x.run].version
    BY <1>2, <2>1, <2>2, <2>3 DEF Held
  <2> QED BY <1>2, <2>2, <2>3, <2>4, <2>5, <2>6 DEF Held, Current
<1> QED BY <1>1, <1>2

\* The invariant after a step of dispatcher j.
LEMMA WritesMove ==
  ASSUME Sound, [Next]_vars, Bumps, NEW j \in Jobs, Moves(j),
         \A r \in Runs : Executed(harness'[r], verdict'[r], commits'[r]),
         Held(job'[j], run', verdict', commits'),
         \A k \in Jobs \ {j} : Alone(job'[j], job[k], run')
  PROVE  WriteInv'
<1>1. \A k \in Jobs \ {j} :
        /\ job'[k] = job[k] /\ Held(job'[k], run', verdict', commits')
        /\ Current(job[k], run') => Current(job[k], run)
  BY OthersHeld DEF Moves
<1>2. ASSUME NEW k \in Jobs \ {j}, NEW l \in Jobs \ {j}, k # l
      PROVE  Alone(job'[k], job'[l], run')
  <2>1. SUFFICES ASSUME Current(job[k], run'), Current(job[l], run'), job[k].run = job[l].run,
                        run'[job[k].run].status = "RUNNING"
                 PROVE  FALSE
    BY <1>1 DEF Alone
  <2>2. run[job[k].run].status # "RUNNING"
    BY <1>1, <1>2, <2>1 DEF Sound, WriteInv, Alone
  <2>3. job[k].run \in Runs /\ run[job[k].run].status \notin Begun
    BY <2>1, Busy DEF Sound, Current, Work
  <2> QED BY <2>1, <2>2, <2>3, StillRunning DEF Sound
<1>3. ASSUME NEW k \in Jobs \ {j}
      PROVE  Alone(job'[j], job'[k], run') /\ Alone(job'[k], job'[j], run')
  BY <1>1 DEF Alone
<1> QED BY <1>1, <1>2, <1>3 DEF WriteInv

\* A dispatcher that goes on or stops, and is no more current than it was.
LEMMA WritesFollow ==
  ASSUME Sound, [Next]_vars, Bumps, NEW j \in Jobs, Moves(j),
         \A r \in Runs : Executed(harness'[r], verdict'[r], commits'[r]),
         Current(job'[j], run') => Current(job[j], run) /\ job'[j].run = job[j].run,
         Held(job'[j], run', verdict', commits')
  PROVE  WriteInv'
<1>1. ASSUME NEW k \in Jobs \ {j}
      PROVE  Alone(job'[j], job[k], run')
  <2>1. SUFFICES ASSUME Current(job'[j], run'), Current(job[k], run'), job'[j].run = job[k].run,
                        run'[job[k].run].status = "RUNNING"
                 PROVE  FALSE
    BY DEF Alone
  <2>2. Current(job[k], run)
    BY <2>1, OthersHeld DEF Moves
  <2>3. run[job[k].run].status # "RUNNING"
    BY <2>1, <2>2 DEF Sound, WriteInv, Alone
  <2>4. job[k].run \in Runs /\ run[job[k].run].status \notin Begun
    BY <2>1, Busy DEF Sound, Current, Work
  <2> QED BY <2>1, <2>3, <2>4, StillRunning DEF Sound
<1> QED BY <1>1, WritesMove

\* A step that changes nothing stored.
LEMMA WritesOnly ==
  ASSUME Sound, [Next]_vars, NEW j \in Jobs, Moves(j), UNCHANGED stored, UNCHANGED commits,
         job'[j].pc # "reserve",
         job'[j].pc \in Work =>
           /\ job[j].pc \in Work /\ job'[j].run = job[j].run /\ job'[j].ver = job[j].ver
           /\ \/ job'[j].h.pending = job[j].h.pending
              \/ job[j].h.pending # <<>> /\ job'[j].h.pending = Tail(job[j].h.pending)
           /\ job'[j].h.asked = job[j].h.asked,
         job'[j].pc = "execute" => /\ Head(job'[j].h.pending) \in Writes
                                   /\ verdict[job[j].run][Head(job'[j].h.pending)].decision = "APPROVED"
  PROVE  WriteInv'
<1> DEFINE x == job[j]
           y == job'[j]
<1>1. UNCHANGED <<run, harness, verdict, commits>>
  BY DEF stored
<1>2. Bumps
  <2>1. \A r \in Runs : run[r].version \in Nat
    BY Fields DEF Sound, Typed, RunType
  <2> QED BY <1>1, <2>1 DEF Bumps
<1>3. \A r \in Runs : Executed(harness'[r], verdict'[r], commits'[r])
  BY <1>1 DEF Sound, WriteInv
<1>4. CASE y.pc \notin Work
  BY <1>1, <1>2, <1>3, <1>4, WritesFollow DEF Held, Current
<1>5. CASE y.pc \in Work
  <2>1. x.h \in HarnessType /\ Held(x, run, verdict, commits)
    BY <1>5, Busy DEF Sound, WriteInv, Work
  <2>2. Tidy(x.h, commits[x.run]) => Tidy(y.h, commits[x.run])
    <3>1. CASE y.h.pending = x.h.pending
      BY <1>5, <3>1, TidySame
    <3>2. CASE x.h.pending # <<>> /\ y.h.pending = Tail(x.h.pending)
      BY <1>5, <2>1, <3>2, TidyTail
    <3> QED BY <1>5, <3>1, <3>2
  <2>3. Held(y, run', verdict', commits')
    BY <1>1, <1>5, <2>1, <2>2 DEF Held
  <2> QED BY <1>1, <1>2, <1>3, <1>5, <2>3, WritesFollow DEF Current
<1> QED BY <1>4, <1>5

\* A harness that fails or asks keeps its calls.
LEMMA WritesFailed ==
  ASSUME Sound, [Next]_vars, NEW j \in Jobs, Moves(j), UNCHANGED stored, UNCHANGED commits,
         job[j].pc \in Work, job'[j].pc = "persist",
         job'[j].run = job[j].run, job'[j].ver = job[j].ver,
         \/ job'[j].h = [job[j].h EXCEPT !.mode = "ERROR"]
         \/ job'[j].h = [job[j].h EXCEPT !.mode = "INTERRUPTED"]
         \/ job'[j].h = [job[j].h EXCEPT !.mode = "WAITING_APPROVAL"]
  PROVE  WriteInv'
<1>1. job[j].h \in HarnessType
  BY Busy DEF Work, Sound
<1>2. job'[j].h.pending = job[j].h.pending /\ job'[j].h.asked = job[j].h.asked
  BY <1>1 DEF HarnessType
<1> QED BY <1>2, WritesOnly

-----------------------------------------------------------------------------
(* Each action keeps it.                                                       *)

LEMMA WorkWrites ==
  ASSUME Sound, [Next]_vars, NEW j \in Jobs,
         \/ Refuse(j) \/ AskHuman(j) \/ LoseCall(j) \/ LoseExecution(j) \/ NoStep(j)
         \/ ApprovedCall(j) \/ RejectedCall(j) \/ RefuseCall(j) \/ SaveFails(j)
  PROVE  WriteInv'
<1>1. UNCHANGED stored /\ UNCHANGED commits
  BY DEF Refuse, AskHuman, LoseCall, LoseExecution, NoStep, ApprovedCall, RejectedCall,
         RefuseCall, SaveFails, ghosts
<1>2. CASE Refuse(j)
  BY <1>1, <1>2, RefuseDoes, WritesOnly DEF Sound, Work
<1>3. CASE AskHuman(j)
  <2>1. job[j].pc \in Work
    BY <1>3 DEF AskHuman, Working, At, Work
  <2> QED BY <1>1, <1>3, <2>1, AskHumanDoes, WritesFailed DEF Sound
<1>4. CASE LoseCall(j) \/ LoseExecution(j) \/ NoStep(j)
  <2>1. job[j].pc \in Work
    BY <1>4, WorkingAt DEF LoseCall, LoseExecution, NoStep, Work, Sound
  <2> QED BY <1>1, <1>4, <2>1, LoseCallDoes, WritesFailed DEF Sound
<1>5. CASE ApprovedCall(j)
  <2>1. job[j].pc \in Work
    BY <1>5 DEF ApprovedCall, Working, At, Work
  <2>2. CASE job'[j].pc = "execute"
    <3>1. Moves(j) /\ job'[j].run = job[j].run /\ job'[j].ver = job[j].ver /\ job'[j].h = job[j].h
      BY <1>5, <2>2, ApprovedCallDoes DEF Sound
    <3>2. /\ Head(job[j].h.pending) \in Writes
          /\ verdict[job[j].run][Head(job[j].h.pending)].decision = "APPROVED"
      BY <1>5 DEF ApprovedCall, Verdict, NextCall
    <3> QED BY <1>1, <2>1, <2>2, <3>1, <3>2, WritesOnly
  <2>3. CASE job'[j].pc # "execute"
    BY <1>1, <1>5, <2>1, <2>3, ApprovedCallDoes, WritesFailed DEF Sound
  <2> QED BY <2>2, <2>3
<1>6. CASE RejectedCall(j) \/ RefuseCall(j)
  <2>1. job[j].pc \in Work /\ job[j].h \in HarnessType /\ job[j].h.pending # <<>>
    BY <1>6, WorkingAt, Busy DEF RejectedCall, RefuseCall, Work, Sound
  <2>2. job'[j].h.pending = Tail(job[j].h.pending) /\ job'[j].h.asked = job[j].h.asked
    BY <1>6, <2>1, SkipCallDoes, AfterCallKeeps DEF Sound
  <2> QED BY <1>1, <1>6, <2>1, <2>2, SkipCallDoes, WritesOnly DEF Sound
<1>7. CASE SaveFails(j)
  <2>1. job[j].pc = "persist"
    BY <1>7 DEF SaveFails, At
  <2>2. CASE job'[j].pc = "persist"
    BY <1>1, <1>7, <2>1, <2>2, SaveFailsDoes, WritesFailed DEF Sound, Work
  <2>3. CASE job'[j].pc # "persist"
    BY <1>1, <1>7, <2>3, SaveFailsDoes, WritesOnly DEF Sound, Work
  <2> QED BY <2>2, <2>3
<1> QED BY <1>2, <1>3, <1>4, <1>5, <1>6, <1>7

LEMMA GiveUpWrites ==
  ASSUME Sound, [Next]_vars, NEW j \in Jobs, job[j].pc \in {"candidate", "sent", "loop", "after"},
         NEW out \in {"FAILED", "INTERRUPTED"}, GiveUp(j, out),
         UNCHANGED <<stored, access, world, ghosts>>
  PROVE  WriteInv'
<1>1. UNCHANGED stored /\ UNCHANGED commits /\ job[j].pc \in Work
  BY DEF ghosts, Work
<1>2. CASE job'[j].pc = "finish"
  BY <1>1, <1>2, GiveUpDoes, WritesOnly DEF Work, Sound
<1>3. CASE /\ job'[j].pc = "persist" /\ job'[j].ver = job[j].ver
           /\ \E mode \in Failing : job'[j].h = [job[j].h EXCEPT !.mode = mode]
  <2>1. \/ job'[j].h = [job[j].h EXCEPT !.mode = "ERROR"]
        \/ job'[j].h = [job[j].h EXCEPT !.mode = "INTERRUPTED"]
    BY <1>3 DEF Failing
  <2>2. Moves(j) /\ job'[j].run = job[j].run
    BY GiveUpDoes DEF Sound
  <2> QED BY <1>1, <1>3, <2>1, <2>2, WritesFailed
<1> QED BY <1>2, <1>3, GiveUpDoes DEF Sound

\* The provider knows nothing of the calls of a run before they are queued.
LEMMA ProviderWrites ==
  ASSUME Sound, [Next]_vars, NEW j \in Jobs,
         \/ FirstStep(j) \/ \E cost \in Usages \cup {0} : Send(j, cost)
         \/ SendRefused(j) \/ NotSent(j) \/ Unknown(j) \/ Answer(j) \/ LoseAnswer(j)
         \/ Interrupt(j)
  PROVE  WriteInv'
<1>1. UNCHANGED stored /\ UNCHANGED commits
  BY DEF FirstStep, Send, SendRefused, NotSent, Unknown, Answer, LoseAnswer, Interrupt, ghosts
<1>2. CASE FirstStep(j)
  <2>1. job[j].pc \in Work
    BY <1>2 DEF FirstStep, Asking, At, Work
  <2> QED BY <1>1, <1>2, <2>1, FirstStepDoes, WritesOnly DEF Sound
<1>3. ASSUME NEW cost \in Usages \cup {0}, Send(j, cost)
      PROVE  WriteInv'
  <2>1. job[j].pc \in Work
    BY <1>3 DEF Send, At, Work
  <2> QED BY <1>1, <1>3, <2>1, SendDoes, WritesOnly DEF Sound
<1>4. CASE SendRefused(j)
  BY <1>4, GiveUpWrites DEF SendRefused, At
<1>5. CASE Interrupt(j)
  BY <1>5, GiveUpWrites DEF Interrupt
<1>6. CASE LoseAnswer(j)
  <2>1. job[j].pc \in Work
    BY <1>6 DEF LoseAnswer, At, Work
  <2> QED BY <1>1, <1>6, <2>1, LoseAnswerDoes, WritesFailed DEF Sound
<1>7. CASE NotSent(j) \/ Unknown(j) \/ Answer(j)
  <2>1. job[j].pc = "sent" /\ job[j].pc \in Work
    BY <1>7 DEF NotSent, Unknown, Answer, At, Work
  <2>2. /\ Moves(j) /\ job'[j].run = job[j].run
        /\ \/ job'[j].pc = "finish"
           \/ job'[j].pc = "candidate" /\ job'[j].ver = job[j].ver /\ job'[j].h = job[j].h
           \/ /\ job'[j].pc = "persist" /\ job'[j].ver = job[j].ver
              /\ job'[j].h = [job[j].h EXCEPT !.mode = "ERROR"]
           \/ /\ job'[j].pc = "after" /\ job'[j].ver = job[j].ver
              /\ job'[j].h = [job[j].h EXCEPT !.steps = job[j].h.steps + 1]
    BY <1>7, NotSentDoes, UnknownDoes, AnswerDoes DEF Sound
  <2>3. job[j].h \in HarnessType
    BY <2>1, Busy DEF Sound
  <2>4. CASE job'[j].pc = "finish"
    BY <1>1, <2>2, <2>4, WritesOnly DEF Work
  <2>5. CASE job'[j].pc = "candidate"
    BY <1>1, <2>1, <2>2, <2>5, WritesOnly
  <2>6. CASE job'[j].pc = "persist"
    BY <1>1, <2>1, <2>2, <2>6, WritesFailed
  <2>7. CASE job'[j].pc = "after"
    <3>1. job'[j].h.pending = job[j].h.pending /\ job'[j].h.asked = job[j].h.asked
      BY <2>2, <2>3, <2>7 DEF HarnessType
    <3> QED BY <1>1, <2>1, <2>2, <2>7, <3>1, WritesOnly
  <2> QED BY <2>2, <2>4, <2>5, <2>6, <2>7
<1> QED BY <1>2, <1>3, <1>4, <1>5, <1>6, <1>7

LEMMA Versions ==
  ASSUME Typed
  PROVE  \A r \in Runs : run[r].version \in Nat
BY Fields DEF Typed, RunType

\* A run that ends moves its version.
LEMMA FinishedBumps ==
  ASSUME Typed, NEW r \in Runs, NEW status \in Final, NEW usage, NEW notSent,
         Finished(r, status, usage, notSent), UNCHANGED <<verdict, commits>>
  PROVE  Bumps
<1>1. run' = [run EXCEPT ![r].status = status, ![r].version = @ + 1]
  BY DEF Finished
<1>2. run \in [Runs -> RunType] /\ run[r].version \in Nat
  BY Versions DEF Typed, TypeOK
<1>3. run'[r].version = run[r].version + 1 /\ \A q \in Runs \ {r} : run'[q] = run[q]
  BY <1>1, <1>2 DEF RunType
<1> QED BY <1>2, <1>3, Versions DEF Bumps

LEMMA ReserveWrites ==
  ASSUME Sound, [Next]_vars, NEW j \in Jobs, ReserveAttempt(j) \/ Resume(j)
  PROVE  WriteInv'
<1> DEFINE r == job[j].run
           y == job'[j]
<1>1. /\ job[j].pc = "reserve" /\ UNCHANGED <<harness, verdict, commits>>
  BY DEF ReserveAttempt, Resume, At, stored, ghosts
<1>2. r \in Runs /\ harness[r] \in HarnessType /\ Moves(j) /\ y.run = r
  BY <1>1, Busy, Fields, ReserveAttemptDoes, ResumeDoes DEF Sound, Typed
<1>3. Bumps /\ y.ver = run'[r].version
  <2>1. CASE ReserveAttempt(j)
    BY <1>1, <1>2, <2>1, ReserveAttemptDoes, Versions DEF Sound, Bumps
  <2>2. CASE Resume(j)
    <3>1. run' = run
      BY <2>2 DEF Resume, stored
    <3>2. y.ver = run[r].version
      BY <2>2, ResumeDoes DEF Sound
    <3>3. \A q \in Runs : run[q].version \in Nat
      BY Versions DEF Sound
    <3> QED BY <1>1, <1>2, <3>1, <3>2, <3>3 DEF Bumps
  <2> QED BY <2>1, <2>2
<1>4. y.h.pending = harness[r].pending /\ y.h.asked = harness[r].asked
      /\ y.pc \in {"candidate", "loop"}
  BY <1>2, ReserveAttemptDoes, ResumeDoes DEF Sound, HarnessType
<1>5. \A q \in Runs : Executed(harness'[q], verdict'[q], commits'[q])
  BY <1>1 DEF Sound, WriteInv
<1>6. Tidy(y.h, commits'[r])
  <2>1. Tidy(harness[r], commits[r])
    BY <1>2 DEF Sound, WriteInv, Executed
  <2> QED BY <1>1, <1>4, <2>1, TidySame
<1>7. run'[r].version \in Nat
  BY <1>2, NextTyped, Fields DEF Sound, Typed, TypeOK, RunType
<1>8. Held(y, run', verdict', commits')
  BY <1>2, <1>3, <1>4, <1>6, <1>7 DEF Held
<1> QED BY <1>1, <1>2, <1>3, <1>5, <1>8, WritesFollow DEF Current

LEMMA NextStepWrites ==
  ASSUME Sound, [Next]_vars, NEW j \in Jobs, NEW q \in Runs, NextStep(j, q)
  PROVE  WriteInv'
<1> DEFINE r == job[j].run
<1>1. /\ Moves(j) /\ job'[j].pc = "candidate" /\ job'[j].run = r /\ job'[j].ver = job[j].ver
      /\ job'[j].h = job[j].h /\ run[q].status = "NONE"
      /\ \A p \in Runs \ {q} : run'[p] = run[p]
  BY NextStepDoes DEF Sound
<1>2. job[j].pc = "loop" /\ UNCHANGED <<harness, verdict, commits>>
  BY DEF NextStep, Asking, At, ghosts
<1>3. r \in Runs /\ r # q
  BY <1>1, <1>2, Busy DEF Sound, Begun
<1>4. Bumps
  BY <1>1, <1>2, Versions DEF Sound, Bumps, Begun
<1>5. \A p \in Runs : Executed(harness'[p], verdict'[p], commits'[p])
  BY <1>2 DEF Sound, WriteInv
<1>6. Held(job'[j], run', verdict', commits')
  BY <1>1, <1>2, <1>3 DEF Sound, WriteInv, Held, Work
<1> QED BY <1>1, <1>2, <1>3, <1>4, <1>5, <1>6, WritesFollow DEF Current, Work

\* The one action that executes a call.
LEMMA ExecuteCallWrites ==
  ASSUME Sound, [Next]_vars, NEW j \in Jobs, ExecuteCall(j)
  PROVE  WriteInv'
<1> DEFINE r == job[j].run
           x == job[j]
           y == job'[j]
           c == Head(x.h.pending)
<1>1. /\ Moves(j) /\ y.pc = "persist" /\ y.run = r /\ y.ver = x.ver + 1
      /\ harness'[r] = y.h
      /\ run'[r].version = run[r].version + 1
      /\ \A q \in Runs \ {r} : run'[q] = run[q] /\ harness'[q] = harness[q]
  BY ExecuteCallDoes DEF Sound
<1>2. /\ x.pc \in {"loop", "execute"} /\ x.h.pending # <<>> /\ c \in Calls /\ NextCall(j) = c
  BY WorkingAt DEF ExecuteCall, Sound, NextCall
<1>3. /\ r \in Runs /\ x.h \in HarnessType /\ x.ver \in Nat /\ run[r].version \in Nat
  BY <1>2, Busy DEF Sound
<1>4. x.ver = run[r].version /\ run[r].status = "RUNNING" /\ verdict' = verdict
  BY DEF ExecuteCall, Valid
<1>5. /\ commits'[r] = [commits[r] EXCEPT ![c] = commits[r][c] + 1]
      /\ \A q \in Runs \ {r} : commits'[q] = commits[q]
      /\ commits[r] \in [Calls -> Nat]
  <2>1. commits \in [Runs -> [Calls -> Nat]]
    BY DEF Sound, Typed, TypeOK
  <2>2. commits' = [commits EXCEPT ![r][c] = @ + 1]
    BY <1>2 DEF ExecuteCall
  <2> QED BY <1>3, <2>1, <2>2
<1>6. Held(x, run, verdict, commits) /\ Executed(harness[r], verdict[r], commits[r])
  BY <1>3 DEF Sound, WriteInv
<1>7. Tidy(x.h, commits[r]) /\ commits[r][c] = 0
  <2>1. Tidy(x.h, commits[r])
    BY <1>2, <1>4, <1>6 DEF Held, Work
  <2>2. c \in Range(x.h.pending)
    BY <1>2, <1>3 DEF HarnessType, Range
  <2> QED BY <1>2, <2>1, <2>2 DEF Tidy
<1>8. c \in Writes => verdict[r][c].decision = "APPROVED"
  BY <1>2, <1>4, <1>6 DEF Held, Work, ExecuteCall, Executing, At, Working
<1>9. Tidy(y.h, commits'[r])
  <2>1. \E executed \in BOOLEAN : y.h = AfterCall(x.h, c, executed)
    BY <1>2, ExecuteCallDoes DEF Sound
  <2>2. y.h.pending = Tail(x.h.pending) /\ y.h.asked = x.h.asked
    BY <1>3, <2>1, AfterCallKeeps
  <2>3. \A d \in Calls : d # c => commits'[r][d] = commits[r][d]
    BY <1>5
  <2> QED BY <1>2, <1>3, <1>7, <2>2, <2>3, TidyTail
<1>10. ASSUME NEW d \in Calls
       PROVE  /\ commits'[r][d] <= 1
              /\ commits'[r][d] > 0 /\ d \in Writes => verdict'[r][d].decision = "APPROVED"
  <2>1. CASE d = c
    BY <1>4, <1>5, <1>7, <1>8, <2>1
  <2>2. CASE d # c
    BY <1>4, <1>5, <1>6, <2>2 DEF Executed
  <2> QED BY <2>1, <2>2
<1>11. ASSUME NEW q \in Runs
       PROVE  Executed(harness'[q], verdict'[q], commits'[q])
  <2>1. CASE q = r
    BY <1>1, <1>9, <1>10, <2>1 DEF Executed
  <2>2. CASE q # r
    BY <1>1, <1>4, <1>5, <2>2 DEF Sound, WriteInv
  <2> QED BY <2>1, <2>2
<1>12. Bumps
  BY <1>1, <1>3, <1>4, <1>5, Versions DEF Sound, Bumps
<1>13. Held(y, run', verdict', commits')
  BY <1>1, <1>3, <1>4, <1>9 DEF Held
<1> QED BY <1>1, <1>2, <1>4, <1>11, <1>12, <1>13, WritesFollow DEF Current, Work

LEMMA SaveWrites ==
  ASSUME Sound, [Next]_vars, NEW j \in Jobs, Save(j)
  PROVE  WriteInv'
<1> DEFINE r == job[j].run
           x == job[j]
           y == job'[j]
<1>1. /\ Moves(j) /\ harness'[r] = x.h /\ run'[r].version = run[r].version + 1
      /\ \A q \in Runs \ {r} : run'[q] = run[q] /\ harness'[q] = harness[q]
      /\ \/ y.pc = "loop" /\ y.run = r /\ y.ver = x.ver + 1 /\ y.h = x.h
         \/ y.pc \in {"idle", "release", "finish"}
  BY SaveDoes DEF Sound
<1>2. /\ x.pc = "persist" /\ x.ver = run[r].version /\ run[r].status = "RUNNING"
      /\ UNCHANGED <<verdict, commits>>
  BY DEF Save, At, Saveable, Valid, ghosts
<1>3. /\ r \in Runs /\ x.ver \in Nat /\ run[r].version \in Nat
  BY <1>2, Busy DEF Sound
<1>4. Held(x, run, verdict, commits) /\ \A q \in Runs : Executed(harness[q], verdict[q], commits[q])
  BY DEF Sound, WriteInv
<1>5. Tidy(x.h, commits[r])
  BY <1>2, <1>4 DEF Held, Work
<1>6. ASSUME NEW q \in Runs
      PROVE  Executed(harness'[q], verdict'[q], commits'[q])
  BY <1>1, <1>2, <1>4, <1>5 DEF Executed
<1>7. Bumps
  BY <1>1, <1>2, <1>3, Versions DEF Sound, Bumps
<1>8. Held(y, run', verdict', commits')
  BY <1>1, <1>2, <1>3, <1>5 DEF Held, Work
<1> QED BY <1>1, <1>2, <1>6, <1>7, <1>8, WritesFollow DEF Current, Work

LEMMA AfterModelWrites ==
  ASSUME Sound, [Next]_vars, NEW j \in Jobs, NEW calls \in Answers, AfterModel(j, calls)
  PROVE  WriteInv'
<1> DEFINE r == job[j].run
           q == job[j].step
           x == job[j]
           y == job'[j]
<1>1. /\ Moves(j) /\ y.pc = "persist" /\ y.run = r
      /\ y.ver = IF q = r /\ x.req.usage # 0 THEN x.ver + 1 ELSE x.ver
      /\ \/ /\ IsInjective(calls) /\ Range(calls) \cap x.h.asked = {}
            /\ y.h = Queued(x.h, calls)
         \/ y.h = [x.h EXCEPT !.mode = "ERROR"]
  BY AfterModelDoes DEF Sound
<1>2. /\ x.pc = "after" /\ x.ver = run[r].version /\ run[r].status = "RUNNING"
      /\ UNCHANGED <<harness, verdict, commits>> /\ Settleable(j) /\ SettleStep(j)
  BY DEF AfterModel, At, Settleable, Valid, ghosts
<1>3. /\ q \in Runs /\ r \in Runs /\ x.h \in HarnessType /\ x.ver \in Nat /\ run[r].version \in Nat
  BY <1>2, AfterAt, Busy DEF Sound
<1>4. /\ \A p \in Runs \ {q} : run'[p] = run[p]
      /\ run'[q].version \in {run[q].version, run[q].version + 1}
      /\ q = r => run'[r].version = IF x.req.usage = 0 THEN run[r].version ELSE run[r].version + 1
  <2>1. CASE q = r
    BY <1>2, <2>1, SettleStepDoes DEF Sound
  <2>2. CASE q # r
    <3>1. run' = [run EXCEPT ![q].status = "SUCCEEDED", ![q].version = @ + 1]
      BY <1>2, <2>2 DEF SettleStep, Finished
    <3>2. run \in [Runs -> RunType]
      BY DEF Sound, Typed, TypeOK
    <3>3. run'[q].version = run[q].version + 1
      BY <1>3, <3>1, <3>2 DEF RunType
    <3> QED BY <1>2, <2>2, <3>3, SettleStepDoes DEF Sound
  <2> QED BY <2>1, <2>2
<1>5. Bumps
  BY <1>2, <1>3, <1>4, Versions DEF Sound, Bumps
<1>6. y.ver = run'[r].version
  BY <1>1, <1>2, <1>3, <1>4
<1>7. Tidy(y.h, commits[r])
  <2>1. Tidy(x.h, commits[r])
    BY <1>2 DEF Sound, WriteInv, Held, Work
  <2>2. CASE /\ IsInjective(calls) /\ Range(calls) \cap x.h.asked = {}
             /\ y.h = Queued(x.h, calls)
    BY <1>3, <2>1, <2>2, TidyQueued
  <2>3. CASE y.h = [x.h EXCEPT !.mode = "ERROR"]
    <3>1. y.h.pending = x.h.pending /\ y.h.asked = x.h.asked
      BY <1>3, <2>3 DEF HarnessType
    <3> QED BY <2>1, <3>1, TidySame
  <2> QED BY <1>1, <2>2, <2>3
<1>8. run'[r].version \in Nat
  BY <1>3, <1>4
<1>9. Held(y, run', verdict', commits')
  BY <1>1, <1>2, <1>6, <1>7, <1>8 DEF Held
<1>10. \A p \in Runs : Executed(harness'[p], verdict'[p], commits'[p])
  BY <1>2 DEF Sound, WriteInv
<1> QED BY <1>1, <1>2, <1>5, <1>9, <1>10, WritesFollow DEF Current, Work

\* A dispatch that ends, a person's request, and the rest of the world.
LEMMA RestWrites ==
  ASSUME Sound, [Next]_vars, Bumps,
         \A r \in Runs : Executed(harness'[r], verdict'[r], commits'[r]),
         \A k \in Jobs : job'[k] = job[k] \/ job'[k].pc \in {"idle", "finish"}
  PROVE  WriteInv'
<1>1. ASSUME NEW k \in Jobs
      PROVE  /\ Held(job'[k], run', verdict', commits')
             /\ Current(job'[k], run') => Current(job[k], run) /\ job'[k] = job[k]
  <2>1. CASE job'[k].pc \in {"idle", "finish"}
    BY <2>1 DEF Held, Current, Work
  <2>2. CASE job'[k] = job[k]
    BY <2>2, OthersHeld
  <2> QED BY <2>1, <2>2
<1>2. ASSUME NEW k \in Jobs, NEW l \in Jobs, k # l
      PROVE  Alone(job'[k], job'[l], run')
  <2>1. SUFFICES ASSUME Current(job'[k], run'), Current(job'[l], run'), job'[k].run = job'[l].run,
                        run'[job'[k].run].status = "RUNNING"
                 PROVE  FALSE
    BY DEF Alone
  <2>2. job'[k] = job[k] /\ job'[l] = job[l] /\ run[job[k].run].status # "RUNNING"
    BY <1>1, <1>2, <2>1 DEF Sound, WriteInv, Alone
  <2>3. job[k].run \in Runs /\ run[job[k].run].status \notin Begun
    BY <2>1, <2>2, Busy DEF Sound, Current, Work
  <2> QED BY <2>1, <2>2, <2>3, StillRunning DEF Sound
<1> QED BY <1>1, <1>2 DEF WriteInv

LEMMA EndWrites ==
  ASSUME Sound, [Next]_vars, NEW j \in Jobs, Release(j) \/ Refused(j) \/ Finish(j)
  PROVE  WriteInv'
<1>1. /\ Moves(j) /\ job'[j].pc \in {"idle", "finish"} /\ UNCHANGED <<harness, verdict, commits>>
  BY ReleaseDoes, RefusedDoes, FinishDoes DEF Sound, Release, Refused, Finish, ghosts
<1>2. Bumps
  <2>1. CASE UNCHANGED run
    BY <1>1, <2>1, Versions DEF Sound, Bumps
  <2>2. CASE ~ UNCHANGED run /\ Release(j)
    BY <1>1, <2>2, ReleaseDoes, FinishedBumps DEF Sound, Final
  <2>3. CASE ~ UNCHANGED run /\ Refused(j)
    <3>1. job[j].run \in Runs /\ Finished(job[j].run, "FAILED", 0, FALSE)
      BY <2>3, Busy DEF Refused, At, Sound
    <3> QED BY <1>1, <3>1, FinishedBumps DEF Sound, Final
  <2>4. CASE ~ UNCHANGED run /\ Finish(j)
    <3>1. job[j].pc = "finish"
      BY <2>4 DEF Finish, At
    <3>2. job[j].run \in Runs /\ job[j].out \in Final
      BY <3>1, Busy DEF Sound
    <3>3. Finished(job[j].run, job[j].out, job[j].req.usage, Plain(j) /\ job[j].req.notSent)
      BY <2>4 DEF Finish
    <3> QED BY <1>1, <3>2, <3>3, FinishedBumps DEF Sound
  <2> QED BY <2>1, <2>2, <2>3, <2>4
<1>3. \A r \in Runs : Executed(harness'[r], verdict'[r], commits'[r])
  BY <1>1 DEF Sound, WriteInv
<1> QED BY <1>1, <1>2, <1>3, RestWrites DEF Moves

LEMMA ApproveWrites ==
  ASSUME Sound, [Next]_vars, NEW r \in Runs, NEW j \in Jobs, Approve(r, j)
  PROVE  WriteInv'
<1>1. /\ Moves(j) /\ job'[j].pc = "reserve" /\ job'[j].run = r
      /\ run[r].status = "WAITING_APPROVAL" /\ \A q \in Runs \ {r} : run'[q] = run[q]
  BY ApproveDoes DEF Sound
<1>2. UNCHANGED <<harness, verdict, commits>>
  BY DEF Approve, ghosts
<1>3. Bumps
  BY <1>1, <1>2, Versions DEF Sound, Bumps, Begun
<1>4. ASSUME NEW k \in Jobs \ {j}
      PROVE  Alone(job'[j], job[k], run')
  <2>1. job[k].pc # "idle" => job[k].run # r
    BY <1>1, Busy DEF Sound, Begun
  <2> QED BY <1>1, <2>1 DEF Alone, Current, Work
<1>5. \A q \in Runs : Executed(harness'[q], verdict'[q], commits'[q])
  BY <1>2 DEF Sound, WriteInv
<1>6. Held(job'[j], run', verdict', commits')
  BY <1>1 DEF Held, Work
<1> QED BY <1>1, <1>3, <1>4, <1>5, <1>6, WritesMove

\* A decision is about a call that was not executed yet.
LEMMA DecideWrites ==
  ASSUME Sound, [Next]_vars, NEW r \in Runs, NEW decision \in {"APPROVED", "REJECTED"},
         NEW j \in Jobs, DecideCall(r, decision, j)
  PROVE  WriteInv'
<1> DEFINE c == Head(harness[r].pending)
<1>1. /\ Moves(j) /\ job'[j].pc = "reserve" /\ job'[j].run = r
      /\ run'[r].version = run[r].version + 1 /\ \A q \in Runs \ {r} : run'[q] = run[q]
      /\ \A q \in Runs : \A d \in Calls : q # r \/ d # c => verdict'[q][d] = verdict[q][d]
  BY DecideCallDoes DEF Sound
<1>2. UNCHANGED <<harness, commits>> /\ Queue(r) /\ harness[r].pending # <<>>
  BY DEF DecideCall, ghosts
<1>3. Bumps
  <2>1. \A q \in Runs \ {r} : verdict'[q] = verdict[q]
    BY DEF DecideCall, Sound, Typed, TypeOK
  <2> QED BY <1>1, <1>2, <2>1, Versions DEF Sound, Bumps
<1>4. ASSUME NEW k \in Jobs \ {j}
      PROVE  Alone(job'[j], job[k], run')
  <2>1. SUFFICES ASSUME Current(job[k], run'), job[k].run = r
                 PROVE  FALSE
    BY <1>1 DEF Alone
  <2>2. job[k].pc \in Work /\ job[k].ver = run'[r].version
    BY <1>2, <2>1 DEF Current, Queue
  <2>3. job[k].ver \in Nat /\ run[r].version \in Nat /\ job[k].ver <= run[r].version
    BY <2>1, <2>2, Busy, Versions DEF Sound, WriteInv, Held, Work
  <2> QED BY <1>1, <2>2, <2>3
<1>5. c \in Calls /\ commits[r][c] = 0
  <2>1. harness[r] \in HarnessType /\ Tidy(harness[r], commits[r])
    BY Fields DEF Sound, Typed, WriteInv, Executed
  <2>2. c \in Calls /\ c \in Range(harness[r].pending)
    BY <1>2, <2>1 DEF HarnessType, Range
  <2> QED BY <2>1, <2>2 DEF Tidy
<1>6. ASSUME NEW q \in Runs
      PROVE  Executed(harness'[q], verdict'[q], commits'[q])
  BY <1>1, <1>2, <1>5 DEF Sound, WriteInv, Executed
<1>7. Held(job'[j], run', verdict', commits')
  BY <1>1 DEF Held, Work
<1> QED BY <1>1, <1>3, <1>4, <1>6, <1>7, WritesMove

LEMMA WorldWrites ==
  ASSUME Sound, [Next]_vars, ~ \E j \in Jobs : Dispatcher(j) \/ Interrupt(j)
  PROVE  WriteInv'
<1>1. CASE \E r \in Runs : Stop(r) \/ Recover(r)
  <2>1. PICK r \in Runs : Stop(r) \/ Recover(r)
    BY <1>1
  <2>2. Finished(r, "INTERRUPTED", 0, FALSE) /\ UNCHANGED <<harness, verdict, commits, job>>
    BY <2>1 DEF Stop, Recover, ghosts
  <2>3. Bumps
    BY <2>2, FinishedBumps DEF Sound, Final
  <2> QED BY <2>2, <2>3, RestWrites DEF Sound, WriteInv
<1>2. CASE \E r \in Runs : \/ Reject(r) \/ \E s \in Sessions \cup {NoSession} : Propose(r, s)
  <2>1. UNCHANGED <<harness, verdict, commits, job>>
    BY <1>2 DEF Reject, Propose, ghosts
  <2>2. Bumps
    BY <1>2, <2>1, RejectDoes, ProposeDoes, Versions DEF Sound, Bumps, Begun
  <2> QED BY <2>1, <2>2, RestWrites DEF Sound, WriteInv
<1>3. CASE \/ \E r \in Runs : ChangeContext(r)
           \/ \E s \in Sessions : ChangeSession(s)
           \/ \E j \in Jobs : EndLogin(j)
           \/ NewDay \/ Start \/ UNCHANGED vars
  <2>1. UNCHANGED <<run, harness, verdict, commits, job>>
    BY <1>3, WorldDoes DEF Sound, stored, vars, ghosts, ChangeSession
  <2>2. Bumps
    BY <2>1, Versions DEF Sound, Bumps
  <2> QED BY <2>1, <2>2, RestWrites DEF Sound, WriteInv
<1>4. CASE Crash
  <2>1. UNCHANGED <<run, harness, verdict, commits>> /\ \A k \in Jobs : job'[k].pc = "idle"
    BY <1>4, CrashDoes DEF Sound, stored, ghosts
  <2>2. Bumps
    BY <2>1, Versions DEF Sound, Bumps
  <2> QED BY <2>1, <2>2, RestWrites DEF Sound, WriteInv
<1> QED BY <1>1, <1>2, <1>3, <1>4, ApproveWrites, DecideWrites DEF Next, Person

LEMMA DispatcherWrites ==
  ASSUME Sound, [Next]_vars, NEW j \in Jobs, Dispatcher(j) \/ Interrupt(j)
  PROVE  WriteInv'
BY ReserveWrites, NextStepWrites, WorkWrites, ProviderWrites, ExecuteCallWrites, SaveWrites,
   AfterModelWrites, EndWrites DEF Dispatcher

LEMMA InitWrites == Init => WriteInv
<1> SUFFICES ASSUME Init
             PROVE  WriteInv
  OBVIOUS
<1>1. \A r \in Runs : Executed(harness[r], verdict[r], commits[r])
  BY DEF Init, Executed, Tidy, NewHarness, IsInjective, Range
<1>2. \A j \in Jobs : job[j].pc = "idle"
  BY DEF Init, NoJob
<1> QED BY <1>1, <1>2 DEF WriteInv, Held, Alone, Current, Work

\* A write is executed once at most, and only while the last decision of the
\* person about it is an approval (agent-runtime.ts, execute and save).
THEOREM WritesOnceAndApproved == Spec => []WritesApprovedOnce
<1>1. Init => Sound
  BY InitTyped, InitSteps, InitWrites DEF Sound
<1>2. Sound /\ [Next]_vars => Sound'
  BY NextTyped, NextSteps, DispatcherWrites, WorldWrites DEF Sound
<1>3. Sound => WritesApprovedOnce
  BY DEF Sound, WriteInv, Executed, WritesApprovedOnce
<1> QED BY <1>1, <1>2, <1>3, PTL DEF Spec
-----------------------------------------------------------------------------
(* Who looks after a running run.                                              *)

\* A dispatcher x that will end the step it works on: it has the request of the
\* step, or has failed, or releases it.
Minds(x) ==
  \/ x.pc \in Asked \cup {"release"}
  \/ x.pc = "persist" /\ x.h.mode \in Failing

\* A dispatcher x looks after run r, stored as y with the attempt a: it works for r
\* and will not leave it to a person, it may still reserve or fail it, or r is the
\* child of the step it works on.
Cares(x, r, y, a) ==
  \/ x.run = r /\ x.pc \in Work \cup {"finish"}
  \/ x.run = r /\ x.pc = "release" /\ x.out # "WAIT"
  \/ x.run = r /\ x.pc \in {"reserve", "refused"} /\ a.state = "NONE" /\ x.ver = y.version
  \/ x.step = r /\ x.run # r /\ Minds(x)

\* The owner has left the conversations and the login alone, and the host is up.
Calm == host = "up" /\ spent["edit"] = 0 /\ spent["logout"] = 0

CareInv ==
  /\ host = "down" => \A j \in Jobs : job[j].pc = "idle"
  /\ spent["logout"] = 0 => \A j \in Jobs : job[j].pc # "idle" => j \in access
  /\ Calm => \A r \in Runs : Abandoned(r) /\ CanReport(r) =>
               \E j \in Jobs : Cares(job[j], r, run[r], attempt[r])

\* After a move of dispatcher j, a run that is neither over nor waiting, and can
\* report, is looked after by j; or j neither touched it nor was looking after it.
Looks(j) ==
  \A r \in Runs :
    \/ run'[r].status # "RUNNING" \/ harness'[r].mode = "WAITING_APPROVAL" \/ ~ CanReport(r)'
    \/ Cares(job'[j], r, run'[r], attempt'[r])
    \/ /\ run'[r] = run[r] /\ attempt'[r] = attempt[r] /\ harness'[r] = harness[r]
       /\ ~ Cares(job[j], r, run[r], attempt[r])

\* A step between a reservation and the end that stores nothing.
LEMMA WorkLooks ==
  ASSUME NEW j \in Jobs, UNCHANGED stored, job[j].pc \in Work,
         job'[j].run = job[j].run, job'[j].pc \in Work \cup {"finish"},
         Minds(job[j]) /\ job[j].step # job[j].run =>
           job'[j].step = job[j].step /\ Minds(job'[j])
  PROVE  Looks(j)
<1>1. run' = run /\ attempt' = attempt /\ harness' = harness
  BY DEF stored
<1> QED BY <1>1 DEF Looks, Cares, Work

LEMMA CallLooks ==
  ASSUME Typed, NEW j \in Jobs,
         \/ AskHuman(j) \/ LoseCall(j) \/ LoseExecution(j) \/ NoStep(j) \/ ApprovedCall(j)
         \/ RejectedCall(j) \/ RefuseCall(j) \/ FirstStep(j)
  PROVE  Looks(j)
<1>1. /\ job[j].pc \in {"loop", "execute"} /\ UNCHANGED stored
  BY DEF AskHuman, LoseCall, LoseExecution, NoStep, ApprovedCall, RejectedCall, RefuseCall,
         FirstStep, Working, Executing, Asking, At
<1>2. job'[j].run = job[j].run /\ job'[j].pc \in Work
  BY AskHumanDoes, LoseCallDoes, ApprovedCallDoes, SkipCallDoes, FirstStepDoes DEF Work
<1>3. ~ Minds(job[j]) /\ job[j].pc \in Work
  BY <1>1 DEF Minds, Asked, Work
<1> QED BY <1>1, <1>2, <1>3, WorkLooks

\* A plain run has no step but itself.
LEMMA PlainStep ==
  ASSUME Safe, NEW j \in Jobs, job[j].pc \in {"candidate", "sent", "after"}, Plain(j)
  PROVE  job[j].step = job[j].run
<1>1. run[job[j].run].session = NoSession
  BY DEF Plain
<1>2. job[j].pc # "after"
  BY <1>1, Busy, RunsAssumption DEF Safe, Conversing
<1>3. Requested(job[j], run, paid, bill)
  BY DEF Safe, MoneyInv
<1> QED BY <1>1, <1>2, <1>3 DEF Requested

LEMMA GiveUpLooks ==
  ASSUME Safe, NEW j \in Jobs, Interrupt(j) \/ SendRefused(j)
  PROVE  Looks(j)
<1>1. /\ job[j].pc \in {"loop", "candidate", "sent", "after"}
      /\ UNCHANGED <<stored, access, world, ghosts>>
      /\ \E out \in {"FAILED", "INTERRUPTED"} : GiveUp(j, out)
  BY DEF Interrupt, SendRefused, At
<1>2. /\ job'[j].run = job[j].run /\ job'[j].step = job[j].step
      /\ \/ Plain(j) /\ job'[j].pc = "finish"
         \/ /\ job'[j].pc = "persist"
            /\ \E mode \in Failing : job'[j].h = [job[j].h EXCEPT !.mode = mode]
  BY <1>1, GiveUpDoes DEF Safe
<1>3. job[j].pc \in Work /\ job'[j].pc \in Work \cup {"finish"} /\ job[j].h \in HarnessType
  BY <1>1, <1>2, Busy DEF Work, Safe
<1>4. job'[j].pc = "persist" => job'[j].h.mode \in Failing
  BY <1>2, <1>3, ModeKeeps
<1>5. Minds(job[j]) /\ job[j].step # job[j].run => Minds(job'[j])
  <2>1. Minds(job[j]) => job[j].pc \in {"candidate", "sent", "after"}
    BY <1>1 DEF Minds, Asked
  <2> QED BY <1>2, <1>4, <2>1, PlainStep DEF Minds
<1> QED BY <1>1, <1>2, <1>3, <1>5, WorkLooks

LEMMA ProviderLooks ==
  ASSUME Safe, NEW j \in Jobs,
         \/ \E cost \in Usages \cup {0} : Send(j, cost)
         \/ NotSent(j) \/ Unknown(j) \/ Answer(j) \/ LoseAnswer(j)
  PROVE  Looks(j)
<1>1. job[j].pc \in Asked /\ UNCHANGED stored
  BY DEF Send, NotSent, Unknown, Answer, LoseAnswer, At, Asked
<1>2. /\ job'[j].run = job[j].run /\ job'[j].step = job[j].step
      /\ \/ Plain(j) /\ job'[j].pc = "finish"
         \/ job'[j].pc \in Asked
         \/ job'[j].pc = "persist" /\ job'[j].h = [job[j].h EXCEPT !.mode = "ERROR"]
  <2>1. CASE \E cost \in Usages \cup {0} : Send(j, cost)
    BY <2>1, SendDoes DEF Safe, Asked
  <2>2. CASE NotSent(j)
    BY <2>2, NotSentDoes DEF Safe, Asked
  <2>3. CASE Unknown(j)
    BY <2>3, UnknownDoes DEF Safe, Asked
  <2>4. CASE Answer(j)
    BY <2>4, AnswerDoes DEF Safe, Asked
  <2>5. CASE LoseAnswer(j)
    BY <2>5, LoseAnswerDoes DEF Safe, Asked
  <2> QED BY <2>1, <2>2, <2>3, <2>4, <2>5
<1>3. job[j].pc \in Work /\ job'[j].pc \in Work \cup {"finish"} /\ job[j].h \in HarnessType
  BY <1>1, <1>2, Busy DEF Asked, Work, Safe
<1>4. job'[j].pc = "persist" => job'[j].h.mode \in Failing
  BY <1>2, <1>3, ModeKeeps DEF Failing, Asked
<1>5. job[j].step # job[j].run => Minds(job'[j])
  BY <1>1, <1>2, <1>4, PlainStep DEF Minds, Asked
<1> QED BY <1>1, <1>2, <1>3, <1>5, WorkLooks

LEMMA ReserveLooks ==
  ASSUME Typed, NEW j \in Jobs,
         ReserveAttempt(j) \/ Resume(j) \/ Refuse(j)
  PROVE  Looks(j)
<1>1. job[j].pc = "reserve" /\ job'[j].run = job[j].run /\ harness' = harness
  BY ReserveAttemptDoes, ResumeDoes, RefuseDoes DEF ReserveAttempt, Resume, Refuse, At, stored
<1>2. \A r \in Runs \ {job[j].run} : ~ Cares(job[j], r, run[r], attempt[r])
  BY <1>1 DEF Cares, Minds, Asked, Work
<1>3. CASE ReserveAttempt(j) \/ Resume(j)
  <2>1. /\ job'[j].pc \in {"candidate", "loop"}
        /\ \A r \in Runs \ {job[j].run} : run'[r] = run[r] /\ attempt'[r] = attempt[r]
    BY <1>3, ReserveAttemptDoes, ResumeDoes DEF Resume, stored
  <2> QED BY <1>1, <1>2, <2>1 DEF Looks, Cares, Work
<1>4. CASE Refuse(j)
  <2>1. job'[j].pc = "refused" /\ job'[j].ver = job[j].ver
    BY <1>4, GotoMoves DEF Refuse, Typed
  <2>2. UNCHANGED <<run, attempt, harness>>
    BY <1>4 DEF Refuse, stored
  <2> QED BY <1>1, <1>2, <2>1, <2>2 DEF Looks, Cares, Work
<1> QED BY <1>3, <1>4

\* The end of the runtime goes by the child of the last step, if there is one.
LEMMA LeaveCares ==
  ASSUME Typed, NEW j \in Jobs, job[j].pc = "persist",
         NEW out \in Final \cup {"WAIT"}, Leave(j, out)
  PROVE  /\ job[j].step # job[j].run =>
              /\ job'[j].pc = "release" /\ job'[j].run = job[j].run
              /\ job'[j].step = job[j].step /\ job'[j].out = out
         /\ out # "WAIT" =>
              /\ job'[j].pc \in {"release", "finish"} /\ job'[j].run = job[j].run
              /\ job'[j].out = out
<1>1. job[j] \in JobType /\ job[j].run \in Runs /\ job[j].step \in Runs
  BY Busy, Fields DEF Typed, Conversing, Stepping
<1>2. PICK next \in {"idle", "release", "finish"} :
        /\ Becomes(j, IF next = "idle" THEN NoJob
             ELSE [NoJob EXCEPT !.pc = next, !.run = job[j].run, !.step = job[j].step, !.out = out])
        /\ job[j].step # job[j].run => next = "release"
        /\ out # "WAIT" => next # "idle"
  BY DEF Leave
<1>3. CASE next = "idle"
  BY <1>2, <1>3
<1>4. CASE next # "idle"
  <2> DEFINE x == [NoJob EXCEPT !.pc = next, !.run = job[j].run, !.step = job[j].step, !.out = out]
  <2>1. /\ x \in JobType /\ x.pc = next /\ x.run = job[j].run /\ x.step = job[j].step
        /\ x.out = out
    BY <1>1, <1>4, Constants DEF JobType
  <2>2. Becomes(j, x)
    BY <1>2, <1>4
  <2> HIDE DEF x
  <2>3. job'[j] = x
    BY <2>1, <2>2, BecomesMoves DEF Typed
  <2> QED BY <1>2, <1>4, <2>1, <2>3
<1> QED BY <1>3, <1>4

LEMMA SaveLooks ==
  ASSUME Typed, NEW j \in Jobs, Save(j) \/ SaveFails(j)
  PROVE  Looks(j)
<1>1. /\ job[j].pc = "persist" /\ job[j].run \in Runs /\ attempt' = attempt
      /\ job[j].h \in HarnessType
  BY Busy DEF Save, SaveFails, At, stored
<1>2. /\ \A r \in Runs \ {job[j].run} : run'[r] = run[r] /\ harness'[r] = harness[r]
      /\ \/ job'[j].pc \in Work /\ job'[j].run = job[j].run
         \/ harness'[job[j].run].mode = "WAITING_APPROVAL"
         \/ /\ job'[j].pc \in {"release", "finish"} /\ job'[j].run = job[j].run
            /\ job'[j].out # "WAIT"
      /\ Minds(job[j]) /\ job[j].step # job[j].run =>
           job'[j].pc = "release" /\ job'[j].run = job[j].run /\ job'[j].step = job[j].step
  <2>1. CASE Save(j)
    <3>1. /\ harness'[job[j].run] = job[j].h
          /\ \A r \in Runs \ {job[j].run} : run'[r] = run[r] /\ harness'[r] = harness[r]
      BY <2>1, SaveDoes
    <3>2. CASE job[j].h.mode = "RUNNING"
      <4>1. job'[j].pc = "loop" /\ job'[j].run = job[j].run
        <5>1. Becomes(j, [job[j] EXCEPT !.pc = "loop", !.ver = @ + 1])
          BY <2>1, <3>2 DEF Save
        <5>2. job \in [Jobs -> JobType]
          BY DEF Typed, TypeOK
        <5> QED BY <5>1, <5>2 DEF Becomes, JobType
      <4>2. ~ Minds(job[j])
        BY <1>1, <3>2 DEF Minds, Asked, Failing
      <4> QED BY <3>1, <4>1, <4>2 DEF Work
    <3>3. CASE job[j].h.mode # "RUNNING"
      <4>1. PICK out \in Final \cup {"WAIT"} : out = OutOf(job[j].h.mode)
        BY OutOfType
      <4>2. Leave(j, out)
        BY <2>1, <3>3, <4>1 DEF Save
      <4>3. out = "WAIT" => job[j].h.mode = "WAITING_APPROVAL"
        BY <4>1 DEF OutOf
      <4> QED BY <1>1, <3>1, <4>2, <4>3, LeaveCares
    <3> QED BY <3>2, <3>3
  <2>2. CASE SaveFails(j)
    <3>1. run' = run /\ harness' = harness
      BY <2>2 DEF SaveFails, stored
    <3>2. CASE job[j].h.mode \in Failing
      <4>1. Leave(j, "FAILED") /\ "FAILED" \in Final \cup {"WAIT"}
        BY <2>2, <3>2 DEF SaveFails, Final
      <4> QED BY <1>1, <3>1, <4>1, LeaveCares
    <3>3. CASE job[j].h.mode \notin Failing
      <4>1. Fail(j, "ERROR")
        BY <2>2, <3>3 DEF SaveFails
      <4>2. job'[j].pc = "persist" /\ job'[j].run = job[j].run
        BY <4>1, FailMoves DEF Failing, Typed
      <4>3. ~ Minds(job[j])
        BY <1>1, <3>3 DEF Minds, Asked
      <4> QED BY <3>1, <4>2, <4>3 DEF Work
    <3> QED BY <3>2, <3>3
  <2> QED BY <2>1, <2>2
<1>3. ASSUME NEW r \in Runs, r # job[j].run, Cares(job[j], r, run[r], attempt[r])
      PROVE  Cares(job'[j], r, run'[r], attempt'[r])
  <2>1. job[j].step = r /\ Minds(job[j])
    BY <1>3 DEF Cares
  <2>2. job'[j].pc = "release" /\ job'[j].run = job[j].run /\ job'[j].step = r
    BY <1>2, <1>3, <2>1
  <2> QED BY <1>3, <2>2 DEF Cares, Minds
<1>4. \/ harness'[job[j].run].mode = "WAITING_APPROVAL"
      \/ Cares(job'[j], job[j].run, run'[job[j].run], attempt'[job[j].run])
  BY <1>2 DEF Cares
<1> QED BY <1>1, <1>2, <1>3, <1>4 DEF Looks

LEMMA ExecuteCallLooks ==
  ASSUME Typed, NEW j \in Jobs, ExecuteCall(j)
  PROVE  Looks(j)
<1>1. job[j].pc \in {"loop", "execute"} /\ attempt' = attempt
  BY DEF ExecuteCall, Executing, Working, At
<1>2. /\ job'[j].pc = "persist" /\ job'[j].run = job[j].run
      /\ \A r \in Runs \ {job[j].run} : run'[r] = run[r] /\ harness'[r] = harness[r]
  BY ExecuteCallDoes
<1> QED BY <1>1, <1>2 DEF Looks, Cares, Minds, Asked, Work

LEMMA NextStepLooks ==
  ASSUME Typed, NEW j \in Jobs, NEW q \in Runs, NextStep(j, q)
  PROVE  Looks(j)
<1>1. job[j].pc = "loop" /\ harness' = harness
  BY DEF NextStep, Asking, At
<1>2. /\ job'[j].pc = "candidate" /\ job'[j].run = job[j].run /\ job'[j].step = q
      /\ run[q].status = "NONE"
      /\ \A r \in Runs \ {q} : run'[r] = run[r] /\ attempt'[r] = attempt[r]
  BY NextStepDoes
<1>3. job[j].run # q
  BY <1>1, <1>2, Busy DEF Begun
<1> QED BY <1>1, <1>2, <1>3 DEF Looks, Cares, Minds, Asked, Work

LEMMA AfterModelLooks ==
  ASSUME Typed, NEW j \in Jobs, NEW calls \in Answers, AfterModel(j, calls)
  PROVE  Looks(j)
<1>1. job[j].pc = "after" /\ Settleable(j) /\ SettleStep(j) /\ harness' = harness
  BY DEF AfterModel, At
<1>2. job'[j].pc = "persist" /\ job'[j].run = job[j].run
  BY AfterModelDoes
<1>3. /\ \A r \in Runs \ {job[j].step} : run'[r] = run[r] /\ attempt'[r] = attempt[r]
      /\ job[j].step # job[j].run => run'[job[j].step].status = "SUCCEEDED"
  BY <1>1, SettleStepDoes
<1> QED BY <1>1, <1>2, <1>3 DEF Looks, Cares, Minds, Asked, Work

\* The ends of a dispatch; a release needs the login.
LEMMA ReleaseLooks ==
  ASSUME Typed, NEW j \in Jobs, Release(j), j \in access
  PROVE  Looks(j)
<1>1. /\ job[j].pc = "release" /\ job[j].step \in Runs /\ job[j].run \in Runs
      /\ harness' = harness
  BY Busy DEF Release, At, Stepping
<1>2. /\ \A r \in Runs \ {job[j].step} : run'[r] = run[r] /\ attempt'[r] = attempt[r]
      /\ run'[job[j].step].status # "RUNNING"
  <2>1. CASE run[job[j].step].status = "RUNNING"
    <3>1. Finished(job[j].step, "FAILED", 0, FALSE)
      BY <2>1 DEF Release
    <3> QED BY <1>1, <3>1, FinishedType DEF Final, Typed
  <2>2. CASE run[job[j].step].status # "RUNNING"
    <3>1. UNCHANGED <<run, attempt>>
      BY <2>2 DEF Release
    <3> QED BY <2>2, <3>1
  <2> QED BY <2>1, <2>2
<1>3. \/ job[j].out = "WAIT"
      \/ job'[j].pc = "finish" /\ job'[j].run = job[j].run
  <2>1. CASE job[j].out = "WAIT"
    BY <2>1
  <2>2. CASE job[j].out # "WAIT"
    <3>1. Becomes(j, [job[j] EXCEPT !.pc = "finish", !.out = job[j].out])
      BY <2>2 DEF Release
    <3>2. job \in [Jobs -> JobType]
      BY DEF Typed, TypeOK
    <3> QED BY <3>1, <3>2 DEF Becomes, JobType
  <2> QED BY <2>1, <2>2
<1> QED BY <1>1, <1>2, <1>3 DEF Looks, Cares, Work

LEMMA EndLooks ==
  ASSUME Typed, NEW j \in Jobs, Refused(j) \/ Finish(j)
  PROVE  Looks(j)
<1> DEFINE r == job[j].run
<1>1. job[j].pc \in {"refused", "finish"} /\ harness' = harness
  BY DEF Refused, Finish, At
<1>2. r \in Runs /\ job[j] \in JobType
  BY <1>1, Busy, Fields DEF Typed
<1>3. CASE UNCHANGED <<run, attempt, session>>
  <2>1. \A q \in Runs : CanReport(q)' = CanReport(q)
    BY <1>3 DEF CanReport, Room
  <2>2. run[r].status # "RUNNING" \/ ~ CanReport(r) \/ ~ Cares(job[j], r, run[r], attempt[r])
    <3>1. CASE Refused(j)
      <4>1. job[j].pc = "refused"
        BY <3>1 DEF Refused, At
      <4>2. CASE Finished(r, "FAILED", 0, FALSE)
        <5>1. run'[r].status = "FAILED"
          BY <1>2, <4>2, FinishedType DEF Final, Typed
        <5> QED BY <1>3, <5>1
      <4>3. CASE ~ (/\ run[r].status = "RUNNING" /\ attempt[r].state = "NONE"
                    /\ run[r].version = job[j].ver /\ CanReport(r))
        BY <4>1, <4>3 DEF Cares, Minds, Asked, Work
      <4> QED BY <3>1, <4>2, <4>3 DEF Refused
    <3>2. CASE Finish(j)
      <4>1. CASE Finished(r, job[j].out, job[j].req.usage, Plain(j) /\ job[j].req.notSent)
        <5>1. job[j].out \in Final /\ job[j].req.usage \in Nat
          BY <1>2, <3>2, Busy DEF Finish, At, JobType
        <5>2. run'[r].status = job[j].out
          BY <1>2, <4>1, <5>1, FinishedType DEF Typed
        <5> QED BY <1>3, <5>1, <5>2 DEF Final
      <4>2. CASE ~ (run[r].status = "RUNNING" /\ CanReport(r))
        BY <4>2
      <4> QED BY <3>2, <4>1, <4>2 DEF Finish
    <3> QED BY <3>1, <3>2
  <2>3. \A q \in Runs \ {r} : ~ Cares(job[j], q, run[q], attempt[q])
    BY <1>1 DEF Cares, Minds, Asked
  <2> QED BY <1>1, <1>2, <1>3, <2>1, <2>2, <2>3 DEF Looks
<1>4. CASE ~ UNCHANGED <<run, attempt, session>>
  <2>1. PICK status \in Final, usage \in Nat, notSent \in BOOLEAN :
          Finished(r, status, usage, notSent)
    <3>1. CASE Refused(j)
      BY <1>4, <3>1 DEF Refused, Final
    <3>2. CASE Finish(j)
      <4>1. job[j].out \in Final /\ job[j].req.usage \in Nat
        BY <1>2, <3>2, Busy DEF Finish, At, JobType
      <4>2. PICK n \in BOOLEAN : n = (Plain(j) /\ job[j].req.notSent)
        OBVIOUS
      <4> QED BY <1>4, <3>2, <4>1, <4>2 DEF Finish
    <3> QED BY <3>1, <3>2
  <2>2. /\ run'[r].status # "RUNNING"
        /\ \A q \in Runs \ {r} : run'[q] = run[q] /\ attempt'[q] = attempt[q]
    BY <1>2, <2>1, FinishedType DEF Typed, Final
  <2>3. \A q \in Runs \ {r} : ~ Cares(job[j], q, run[q], attempt[q])
    BY <1>1 DEF Cares, Minds, Asked
  <2> QED BY <1>1, <2>2, <2>3 DEF Looks
<1> QED BY <1>3, <1>4

\* Whom a person sends off was doing nothing.
LEMMA DispatchLooks ==
  ASSUME Safe, NEW j \in Jobs, NEW r \in Runs,
         \/ Approve(r, j)
         \/ \E decision \in {"APPROVED", "REJECTED"} : DecideCall(r, decision, j)
  PROVE  Looks(j)
<1>1. \A q \in Runs : ~ Cares(job[j], q, run[q], attempt[q])
  BY DEF Approve, DecideCall, Dispatch, Cares, Minds, Asked, Work
<1>2. CASE Approve(r, j)
  <2>1. attempt' = attempt /\ harness' = harness
    BY <1>2 DEF Approve
  <2>2. /\ \A q \in Runs \ {r} : run'[q] = run[q]
        /\ job'[j].pc = "reserve" /\ job'[j].run = r /\ job'[j].ver = run'[r].version
        /\ attempt[r].state = "NONE"
    BY <1>2, ApproveDoes DEF Safe, StepInv, Stored, Begun
  <2> QED BY <1>1, <2>1, <2>2 DEF Looks, Cares
<1>3. CASE \E decision \in {"APPROVED", "REJECTED"} : DecideCall(r, decision, j)
  <2>1. attempt' = attempt /\ harness' = harness /\ harness[r].mode = "WAITING_APPROVAL"
    BY <1>3 DEF DecideCall, Waiting
  <2>2. \A q \in Runs \ {r} : run'[q] = run[q]
    BY <1>3, DecideCallDoes DEF Safe
  <2> QED BY <1>1, <2>1, <2>2 DEF Looks
<1> QED BY <1>2, <1>3

LEMMA DispatcherLooks ==
  ASSUME Safe, NEW j \in Jobs, Dispatcher(j) \/ Interrupt(j), j \in access
  PROVE  Looks(j)
BY CallLooks, GiveUpLooks, ProviderLooks, ReserveLooks, SaveLooks, ExecuteCallLooks,
   NextStepLooks, AfterModelLooks, ReleaseLooks, EndLooks DEF Dispatcher, Safe

\* The logins, when dispatcher j moves.
Logged(j) ==
  /\ \A k \in Jobs \ {j} : k \in access => k \in access'
  /\ job'[j].pc # "idle" /\ (job[j].pc # "idle" => j \in access) => j \in access'

LEMMA DispatcherLogged ==
  ASSUME Typed, NEW j \in Jobs, Dispatcher(j) \/ Interrupt(j)
  PROVE  Logged(j) /\ job[j].pc # "idle"
<1>1. job[j].pc # "idle"
  BY DEF Dispatcher, Interrupt, ReserveAttempt, Resume, Refuse, Refused, AskHuman, ApprovedCall,
     RejectedCall, LoseCall, ExecuteCall, RefuseCall, LoseExecution, Save, SaveFails, FirstStep,
     NoStep, NextStep, SendRefused, Send, NotSent, Unknown, Answer, LoseAnswer, AfterModel,
     Release, Finish, At, Working, Executing, Asking
<1>2. \/ UNCHANGED access
      \/ access' = access \ {j} /\ job' = [job EXCEPT ![j] = NoJob]
  BY DEF Dispatcher, Interrupt, ReserveAttempt, Resume, Refuse, Refused, AskHuman, ApprovedCall,
     RejectedCall, LoseCall, ExecuteCall, RefuseCall, LoseExecution, Save, SaveFails, FirstStep,
     NoStep, NextStep, SendRefused, Send, NotSent, Unknown, Answer, LoseAnswer, AfterModel,
     Release, Finish, Leave, Idle, Becomes
<1>3. CASE UNCHANGED access
  BY <1>1, <1>3 DEF Logged
<1>4. CASE access' = access \ {j} /\ job' = [job EXCEPT ![j] = NoJob]
  <2>1. job'[j] = NoJob
    BY <1>4 DEF Typed, TypeOK
  <2> QED BY <1>1, <1>4, <2>1, Constants DEF Logged
<1> QED BY <1>1, <1>2, <1>3, <1>4

LEMMA DispatcherMoves ==
  ASSUME Typed, NEW j \in Jobs, Dispatcher(j) \/ Interrupt(j)
  PROVE  Moves(j)
<1>1. CASE SendRefused(j) \/ Interrupt(j)
  <2>1. /\ job[j].pc \in {"candidate", "sent", "loop", "after"}
        /\ UNCHANGED <<stored, access, world, ghosts>>
        /\ \E out \in {"FAILED", "INTERRUPTED"} : GiveUp(j, out)
    BY <1>1 DEF SendRefused, Interrupt, At
  <2> QED BY <2>1, GiveUpDoes
<1>2. CASE \/ ReserveAttempt(j) \/ Resume(j) \/ Refuse(j) \/ Refused(j)
           \/ AskHuman(j) \/ ApprovedCall(j) \/ RejectedCall(j) \/ LoseCall(j)
  BY <1>2, ReserveAttemptDoes, ResumeDoes, RefuseDoes, RefusedDoes, AskHumanDoes,
     ApprovedCallDoes, SkipCallDoes, LoseCallDoes
<1>3. CASE \/ ExecuteCall(j) \/ RefuseCall(j) \/ LoseExecution(j) \/ Save(j) \/ SaveFails(j)
           \/ FirstStep(j) \/ NoStep(j) \/ \E q \in Runs : NextStep(j, q)
  BY <1>3, ExecuteCallDoes, SkipCallDoes, LoseCallDoes, SaveDoes, SaveFailsDoes, FirstStepDoes,
     NextStepDoes
<1>4. CASE \/ \E cost \in Usages \cup {0} : Send(j, cost)
           \/ NotSent(j) \/ Unknown(j) \/ Answer(j) \/ LoseAnswer(j)
           \/ \E calls \in Answers : AfterModel(j, calls)
           \/ Release(j) \/ Finish(j)
  BY <1>4, SendDoes, NotSentDoes, UnknownDoes, AnswerDoes, LoseAnswerDoes, AfterModelDoes,
     ReleaseDoes, FinishDoes
<1> QED BY <1>1, <1>2, <1>3, <1>4 DEF Dispatcher

\* A conversation that its owner leaves alone only grows.
Grows ==
  \A s \in Sessions : /\ session'[s].live => session[s].live
                      /\ session[s].count <= session'[s].count

LEMMA AppendedGrows ==
  ASSUME Typed, NEW s, NEW n \in Nat, session' = Appended(s, n)
  PROVE  Grows
<1>1. session \in [Sessions -> [live : BOOLEAN, version : Nat, count : Nat]]
  BY DEF Typed, TypeOK
<1>2. CASE s \in Sessions
  <2>1. PICK v \in Nat, c \in Nat : v = session[s].version + n /\ c = session[s].count + n
    BY <1>1, <1>2
  <2>2. session' = [session EXCEPT ![s] = [session[s] EXCEPT !.version = v, !.count = c]]
    BY <2>1 DEF Appended
  <2>3. session[s].count <= c
    BY <1>1, <1>2, <2>1
  <2>4. /\ session'[s].live = session[s].live /\ session'[s].count = c
        /\ \A t \in Sessions \ {s} : session'[t] = session[t]
    BY <1>1, <1>2, <2>2
  <2> QED BY <1>1, <2>3, <2>4 DEF Grows
<1>3. CASE s \notin Sessions
  BY <1>1, <1>3 DEF Appended, Grows
<1> QED BY <1>2, <1>3

LEMMA SameGrows == ASSUME Typed, UNCHANGED session PROVE Grows
BY DEF Grows, Typed, TypeOK

LEMMA ReportsGrows == ASSUME Typed, NEW r, Reports(r, 1) PROVE Grows
BY AppendedGrows, SameGrows DEF Reports

LEMMA NextGrows ==
  ASSUME Typed, [Next]_vars, ~ (\E s \in Sessions : ChangeSession(s))
  PROVE  Grows
<1>1. ASSUME NEW j \in Jobs, Dispatcher(j) \/ Interrupt(j)
      PROVE  Grows
  <2>1. CASE ExecuteCall(j)
    BY <2>1, AppendedGrows DEF ExecuteCall
  <2>2. CASE Save(j)
    BY <2>2, AppendedGrows, ResultsType DEF Save, Typed
  <2>3. CASE Refused(j)
    BY <2>3, ReportsGrows, SameGrows DEF Refused
  <2>4. CASE Finish(j)
    BY <2>4, ReportsGrows, SameGrows DEF Finish
  <2>5. CASE ~ (ExecuteCall(j) \/ Save(j) \/ Refused(j) \/ Finish(j))
    <3>1. UNCHANGED session
      BY <1>1, <2>5 DEF Dispatcher, Interrupt, ReserveAttempt, Resume, Refuse, AskHuman,
         ApprovedCall, RejectedCall, LoseCall, RefuseCall, LoseExecution, SaveFails, FirstStep,
         NoStep, NextStep, SendRefused, Send, NotSent, Unknown, Answer, LoseAnswer, AfterModel,
         Release, stored
    <3> QED BY <3>1, SameGrows
  <2> QED BY <2>1, <2>2, <2>3, <2>4, <2>5
<1>2. CASE Person
  <2>1. ASSUME NEW r \in Runs, NEW s \in Sessions \cup {NoSession}, Propose(r, s)
        PROVE  Grows
    BY <2>1, AppendedGrows, SameGrows DEF Propose
  <2>2. ASSUME NEW r \in Runs, Reject(r) \/ Stop(r)
        PROVE  Grows
    BY <2>2, ReportsGrows DEF Reject, Stop
  <2>3. ASSUME NEW r \in Runs,
               \/ ChangeContext(r)
               \/ \E j \in Jobs : \/ Approve(r, j)
                                  \/ DecideCall(r, "APPROVED", j)
                                  \/ DecideCall(r, "REJECTED", j)
        PROVE  Grows
    BY <2>3, SameGrows DEF ChangeContext, Approve, DecideCall, stored
  <2> QED BY <1>2, <2>1, <2>2, <2>3 DEF Person
<1>3. ASSUME NEW r \in Runs, Recover(r)
      PROVE  Grows
  BY <1>3, ReportsGrows DEF Recover
<1>4. CASE \/ NewDay \/ Crash \/ Start \/ UNCHANGED vars
           \/ \E j \in Jobs : EndLogin(j)
  BY <1>4, SameGrows DEF NewDay, Crash, Start, EndLogin, vars, stored
<1> QED BY <1>1, <1>2, <1>3, <1>4 DEF Next

\* A run that can report after a step could before it.
LEMMA CouldReport ==
  ASSUME Typed, Typed', Grows, NEW r \in Runs, run'[r].session = run[r].session, CanReport(r)'
  PROVE  CanReport(r)
<1>1. CASE run[r].session = NoSession
  BY <1>1 DEF CanReport
<1>2. CASE run[r].session # NoSession
  <2>1. PICK s \in Sessions : s = run[r].session
    BY <1>2, Fields DEF Typed, RunType
  <2>2. /\ session[s].count \in Nat /\ session'[s].count \in Nat
        /\ session[s].count <= session'[s].count
        /\ session'[s].live => session[s].live
    BY DEF Typed, TypeOK, Grows
  <2>3. session'[s].live /\ session'[s].count + 1 <= MaxMessages
    BY <1>2, <2>1 DEF CanReport, Room
  <2>4. session[s].count + 1 <= MaxMessages
    BY <2>2, <2>3, LimitsAssumption
  <2>5. Room(s, 1)
    BY <2>2, <2>3, <2>4 DEF Room
  <2> QED BY <2>1, <2>5 DEF CanReport
<1> QED BY <1>1, <1>2

\* The invariant after a move of dispatcher j.
LEMMA CareMoves ==
  ASSUME Safe, Typed', CareInv, NEW j \in Jobs, Moves(j), Logged(j),
         Calm => Looks(j) /\ Grows, UNCHANGED <<host, spent>>,
         host = "down" => job'[j].pc = "idle"
  PROVE  CareInv'
<1>1. host' = host /\ spent' = spent /\ Typed
  BY DEF Safe
<1>2. host' = "down" => \A k \in Jobs : job'[k].pc = "idle"
  BY <1>1 DEF CareInv, Moves
<1>3. spent'["logout"] = 0 => \A k \in Jobs : job'[k].pc # "idle" => k \in access'
  <2> SUFFICES ASSUME spent'["logout"] = 0, NEW k \in Jobs, job'[k].pc # "idle"
               PROVE  k \in access'
    OBVIOUS
  <2>1. \A l \in Jobs : job[l].pc # "idle" => l \in access
    BY <1>1 DEF CareInv
  <2> QED BY <2>1 DEF Moves, Logged
<1>4. ASSUME Calm', NEW r \in Runs, Abandoned(r)', CanReport(r)'
      PROVE  \E k \in Jobs : Cares(job'[k], r, run'[r], attempt'[r])
  <2>1. Calm
    BY <1>1, <1>4 DEF Calm
  <2>2. run'[r].status = "RUNNING" /\ harness'[r].mode # "WAITING_APPROVAL"
    BY <1>4 DEF Abandoned, Waiting
  <2>3. CASE Cares(job'[j], r, run'[r], attempt'[r])
    BY <2>3
  <2>4. CASE /\ run'[r] = run[r] /\ attempt'[r] = attempt[r] /\ harness'[r] = harness[r]
             /\ ~ Cares(job[j], r, run[r], attempt[r])
    <3>1. CanReport(r)
      BY <1>1, <1>4, <2>1, <2>4, CouldReport
    <3>2. Abandoned(r)
      BY <2>2, <2>4 DEF Abandoned, Waiting
    <3>3. PICK k \in Jobs : Cares(job[k], r, run[r], attempt[r])
      BY <2>1, <3>1, <3>2 DEF CareInv
    <3>4. k # j /\ job'[k] = job[k]
      BY <2>4, <3>3 DEF Moves
    <3> QED BY <2>4, <3>3, <3>4
  <2> QED BY <1>4, <2>1, <2>2, <2>3, <2>4 DEF Looks
<1> QED BY <1>2, <1>3, <1>4 DEF CareInv

\* A step that moves no dispatcher, and starts no run.
LEMMA CareRests ==
  ASSUME Safe, Typed', CareInv, UNCHANGED job, host' = "down" => host = "down",
         spent'["logout"] = 0 => spent["logout"] = 0 /\ access' = access,
         Calm' => /\ Grows
                  /\ \/ Calm
                     \/ \A r \in Runs : ~ Abandoned(r),
         \A r \in Runs : \/ run'[r].status # "RUNNING"
                         \/ /\ run'[r] = run[r] /\ attempt'[r] = attempt[r]
                            /\ harness'[r] = harness[r]
  PROVE  CareInv'
<1>1. host' = "down" => \A k \in Jobs : job'[k].pc = "idle"
  BY DEF CareInv
<1>2. spent'["logout"] = 0 => \A k \in Jobs : job'[k].pc # "idle" => k \in access'
  BY DEF CareInv
<1>3. ASSUME Calm', NEW r \in Runs, Abandoned(r)', CanReport(r)'
      PROVE  \E k \in Jobs : Cares(job'[k], r, run'[r], attempt'[r])
  <2>1. run'[r].status = "RUNNING" /\ harness'[r].mode # "WAITING_APPROVAL"
    BY <1>3 DEF Abandoned, Waiting
  <2>2. run'[r] = run[r] /\ attempt'[r] = attempt[r] /\ harness'[r] = harness[r]
    BY <2>1
  <2>3. CanReport(r)
    BY <1>3, <2>2, CouldReport DEF Safe
  <2>4. Abandoned(r)
    BY <2>1, <2>2 DEF Abandoned, Waiting
  <2>5. PICK k \in Jobs : Cares(job[k], r, run[r], attempt[r])
    BY <1>3, <2>3, <2>4 DEF CareInv
  <2> QED BY <2>2, <2>5
<1> QED BY <1>1, <1>2, <1>3 DEF CareInv

LEMMA WorldCares ==
  ASSUME Safe, Typed', CareInv,
         \/ \E r \in Runs : \/ \E s \in Sessions \cup {NoSession} : Propose(r, s)
                            \/ Reject(r) \/ Stop(r) \/ Recover(r) \/ ChangeContext(r)
         \/ \E s \in Sessions : ChangeSession(s)
         \/ \E j \in Jobs : EndLogin(j)
         \/ NewDay \/ Start \/ Crash \/ UNCHANGED vars
  PROVE  CareInv'
<1>0. /\ spent \in [DOMAIN Allowed -> Nat] /\ spent' \in [DOMAIN Allowed -> Nat]
      /\ "edit" \in DOMAIN Allowed /\ "logout" \in DOMAIN Allowed
      /\ "crash" \in DOMAIN Allowed /\ "change" \in DOMAIN Allowed
      /\ "midnight" \in DOMAIN Allowed
  BY Kinds DEF Safe, Typed, TypeOK
<1>1. \A what \in DOMAIN Allowed : Allow(what) =>
        /\ spent'[what] # 0
        /\ \A other \in DOMAIN Allowed : other # what => spent'[other] = spent[other]
  BY <1>0 DEF Allow
<1>2. (\A s \in Sessions : ~ ChangeSession(s)) => Grows
  BY NextGrows DEF Safe, Next, Person
<1>3. ASSUME NEW r \in Runs,
             \/ \E s \in Sessions \cup {NoSession} : Propose(r, s)
             \/ Reject(r) \/ Stop(r) \/ Recover(r) \/ ChangeContext(r)
      PROVE  CareInv'
  <2>1. UNCHANGED <<job, access, host, harness>>
    BY <1>3 DEF Propose, Reject, Stop, Recover, ChangeContext, world, stored
  <2>2. spent'["edit"] = spent["edit"] /\ spent'["logout"] = spent["logout"]
    <3>1. CASE ChangeContext(r)
      BY <1>0, <1>1, <3>1 DEF ChangeContext
    <3>2. CASE ~ ChangeContext(r)
      BY <1>3, <3>2 DEF Propose, Reject, Stop, Recover, world
    <3> QED BY <3>1, <3>2
  <2>3. Grows
    <3>1. CASE ChangeContext(r)
      BY <3>1, SameGrows DEF ChangeContext, stored, Safe
    <3>2. CASE Reject(r) \/ Stop(r) \/ Recover(r)
      BY <3>2, ReportsGrows DEF Reject, Stop, Recover, Safe
    <3>3. CASE \E s \in Sessions \cup {NoSession} : Propose(r, s)
      BY <3>3, AppendedGrows, SameGrows DEF Propose, Safe
    <3> QED BY <1>3, <3>1, <3>2, <3>3
  <2>4. \A q \in Runs : \/ run'[q].status # "RUNNING"
                        \/ run'[q] = run[q] /\ attempt'[q] = attempt[q]
    <3>1. CASE \E s \in Sessions \cup {NoSession} : Propose(r, s)
      BY <3>1, ProposeDoes DEF Propose, Safe
    <3>2. CASE Reject(r)
      BY <3>2, RejectDoes DEF Reject, Safe
    <3>3. CASE Stop(r) \/ Recover(r)
      BY <3>3, EndsDoes, FinishedType DEF Final, Safe, Typed
    <3>4. CASE ChangeContext(r)
      BY <3>4 DEF ChangeContext, stored
    <3> QED BY <1>3, <3>1, <3>2, <3>3, <3>4
  <2>5. Calm' => Calm
    BY <2>1, <2>2 DEF Calm
  <2> QED BY <2>1, <2>2, <2>3, <2>4, <2>5, CareRests
<1>4. ASSUME NEW s \in Sessions, ChangeSession(s)
      PROVE  CareInv'
  <2>1. /\ UNCHANGED <<run, harness, attempt, job, access, host>> /\ Allow("edit")
    BY <1>4 DEF ChangeSession
  <2>2. spent'["edit"] # 0 /\ spent'["logout"] = spent["logout"]
    BY <1>0, <1>1, <2>1
  <2> QED BY <2>1, <2>2, CareRests DEF Calm
<1>5. ASSUME NEW j \in Jobs, EndLogin(j)
      PROVE  CareInv'
  <2>1. UNCHANGED <<run, harness, attempt, job, host>> /\ Allow("logout")
    BY <1>5 DEF EndLogin, stored
  <2>2. spent'["logout"] # 0
    BY <1>0, <1>1, <2>1
  <2> QED BY <2>1, <2>2, CareRests DEF Calm
<1>6. CASE NewDay
  <2>1. UNCHANGED <<run, harness, attempt, session, job, access, host>> /\ Allow("midnight")
    BY <1>6 DEF NewDay, stored
  <2>2. spent'["edit"] = spent["edit"] /\ spent'["logout"] = spent["logout"]
    BY <1>0, <1>1, <2>1
  <2> QED BY <2>1, <2>2, SameGrows, CareRests DEF Calm, Safe
<1>7. CASE Start
  <2>1. UNCHANGED <<run, harness, attempt, session, job, access, spent>>
    BY <1>7 DEF Start, stored
  <2>2. host' = "up" /\ \A r \in Runs : ~ Abandoned(r)
    BY <1>7 DEF Start
  <2> QED BY <2>1, <2>2, SameGrows, CareRests DEF Safe
<1>8. CASE Crash
  <2>1. host' = "down" /\ \A j \in Jobs : job'[j].pc = "idle"
    BY <1>8, CrashDoes DEF Crash, Safe
  <2> QED BY <2>1 DEF CareInv, Calm
<1>9. CASE UNCHANGED vars
  <2>1. UNCHANGED <<run, harness, attempt, session, job, access, host, spent>>
    BY <1>9 DEF vars, stored, world
  <2> QED BY <2>1, SameGrows, CareRests DEF Calm, Safe
<1> QED BY <1>3, <1>4, <1>5, <1>6, <1>7, <1>8, <1>9

LEMMA NextCare == Safe /\ Safe' /\ CareInv /\ [Next]_vars => CareInv'
<1> SUFFICES ASSUME Safe, Safe', CareInv, [Next]_vars
             PROVE  CareInv'
  OBVIOUS
<1>0. Typed /\ Typed'
  BY DEF Safe
<1>1. ASSUME NEW j \in Jobs, Dispatcher(j) \/ Interrupt(j)
      PROVE  CareInv'
  <2>1. Logged(j) /\ job[j].pc # "idle" /\ UNCHANGED <<host, spent>>
    <3>1. UNCHANGED world
      BY <1>1, DispatcherWorld
    <3> QED BY <1>0, <1>1, <3>1, DispatcherLogged DEF world
  <2>2. Moves(j)
    BY <1>1, <1>0, DispatcherMoves
  <2>3. host # "down"
    BY <2>1 DEF CareInv
  <2>4. Calm => Looks(j)
    <3>1. Calm => j \in access
      BY <2>1 DEF Calm, CareInv
    <3> QED BY <1>1, <3>1, DispatcherLooks
  <2>5. Calm => Grows
    <3>1. Grows \/ \E s \in Sessions : ChangeSession(s)
      BY <1>0, NextGrows
    <3>2. ASSUME NEW s \in Sessions, ChangeSession(s)
          PROVE  spent' # spent
      <4>1. spent \in [DOMAIN Allowed -> Nat] /\ "edit" \in DOMAIN Allowed
        BY <1>0, Kinds DEF Typed, TypeOK
      <4>2. spent' = [spent EXCEPT !["edit"] = @ + 1]
        BY <3>2 DEF ChangeSession, Allow
      <4> QED BY <4>1, <4>2
    <3> QED BY <2>1, <3>1, <3>2
  <2> QED BY <1>0, <2>1, <2>2, <2>3, <2>4, <2>5, CareMoves
<1>2. ASSUME NEW r \in Runs, NEW j \in Jobs,
             \/ Approve(r, j)
             \/ \E decision \in {"APPROVED", "REJECTED"} : DecideCall(r, decision, j)
      PROVE  CareInv'
  <2>1. /\ Moves(j) /\ access' = access \cup {j} /\ host = "up"
        /\ UNCHANGED <<host, spent, session>>
    BY <1>0, <1>2, ApproveDoes, DecideCallDoes DEF Approve, DecideCall, Dispatch, world
  <2>2. Logged(j)
    BY <2>1 DEF Logged
  <2>3. Looks(j)
    BY <1>2, DispatchLooks
  <2>4. Grows
    BY <1>0, <2>1, SameGrows
  <2> QED BY <1>0, <2>1, <2>2, <2>3, <2>4, CareMoves
<1>3. CASE Person
  BY <1>0, <1>2, <1>3, WorldCares DEF Person
<1> QED BY <1>0, <1>1, <1>3, WorldCares DEF Next

LEMMA InitCare == Init => CareInv
BY Constants DEF Init, CareInv, Calm, Abandoned, NewRun

\* While its owner leaves the conversation alone, stays logged in, and has room in
\* it, no running run is without a dispatcher, except one that waits for a person.
THEOREM NoneIsAbandoned == Spec => []NoneAbandoned
<1>1. Init => CareInv
  BY InitCare
<1>2. CareInv => NoneAbandoned
  BY DEF CareInv, Calm, NoneAbandoned, Cares, Minds, Work, Asked
<1> QED BY <1>1, <1>2, NextCare, AlwaysSafe, PTL DEF Spec
=============================================================================
