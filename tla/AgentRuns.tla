------------------------------ MODULE AgentRuns ------------------------------
(***************************************************************************)
(* Runs of the assistant on the host: a person proposes a run and approves *)
(* it, a dispatcher reserves the money of its attempt and sends it to a    *)
(* provider, a run in a conversation goes on step by step - every further  *)
(* provider call is a child run with a reservation of its own - and stops  *)
(* for a person before each write it wants to make.                        *)
(*                                                                         *)
(* Each action is one transaction of the host's database (db.request),     *)
(* together with the code that follows it without awaiting another one.    *)
(* Between two of them anything else may happen: another window, a second  *)
(* dispatcher, a login that ends, the end of the process.                  *)
(*                                                                         *)
(* Abstractions.  One account and one priced route with its fallbacks, all *)
(* of one price.  A request that is refused for its version is not an      *)
(* action, as it changes nothing.  The approved context of a run is either *)
(* what it was or stale for good.  An amount of 0 stands for no usage.     *)
(* The limits of a response (text, number of calls) are one failure.       *)
(***************************************************************************)
EXTENDS Integers, Sequences, FiniteSetsExt

CONSTANTS
  Runs, Jobs, Sessions,
  NoRun, NoSession,
  Calls,          \* the tool calls a provider may ask for
  Writes,         \* those of them that write
  Answers,        \* the responses of a provider: sequences of calls
  MaxSteps,       \* provider calls of one run (8 in the code)
  MaxWrites,      \* writes of one run (5)
  MaxMessages,    \* messages of one conversation (1000)
  Routes,         \* the primary route and its fallbacks (3 at most)
  Reserve,        \* what gatewayReservation sets aside for one attempt
  Usages,         \* what a provider may charge for one request
  Budget,         \* dailyBudgetMicros
  RequestLimit,   \* requests of one day
  MaxDays,        \* bound: midnights
  MaxCrashes,     \* bound: crashes of the host
  MaxEdits,       \* bound: changes of a conversation by its owner
  MaxLogouts,     \* bound: logins that end under a dispatcher
  MaxChanges,     \* bound: approved contexts that change
  MaxFaults       \* bound: all of these together

ASSUME RunsAssumption ==
  /\ NoRun \notin Runs /\ NoSession \notin Sessions
  /\ Writes \subseteq Calls /\ Answers \subseteq Seq(Calls) /\ IsFiniteSet(Calls)
ASSUME LimitsAssumption ==
  /\ MaxSteps \in Nat /\ MaxWrites \in Nat /\ MaxMessages \in Nat
  /\ Routes \in Nat \ {0} /\ Reserve \in Nat /\ Usages \subseteq 1 .. Reserve
  /\ Budget \in Nat /\ RequestLimit \in Nat
ASSUME BoundsAssumption ==
  /\ MaxDays \in Nat /\ MaxCrashes \in Nat /\ MaxEdits \in Nat
  /\ MaxLogouts \in Nat /\ MaxChanges \in Nat /\ MaxFaults \in Nat

VARIABLES
  run,       \* the stored run
  harness,   \* its stored harness state
  verdict,   \* its stored toolApprovals
  attempt,   \* its stored attempt and the money of it
  session,   \* the conversations
  job,       \* the dispatchers at work
  access,    \* the dispatchers whose login is still valid
  stale,     \* the runs whose approved context has changed
  host,      \* is the host up?
  day,       \* today
  spent,     \* how often each bounded event has happened
  paid,      \* ghost: requests of each run that reached a provider
  bill,      \* ghost: what the providers charge for them
  commits    \* ghost: how often each call was executed

stored == <<run, harness, verdict, attempt, session>>
ghosts == <<paid, bill, commits>>
world == <<stale, host, day, spent>>
vars == <<stored, job, access, world, ghosts>>

Final == {"SUCCEEDED", "FAILED", "INTERRUPTED", "REJECTED"}
Failing == {"ERROR", "INTERRUPTED"}      \* how a harness ends without an answer
Allowed == [crash |-> MaxCrashes, edit |-> MaxEdits, logout |-> MaxLogouts,
            change |-> MaxChanges, midnight |-> MaxDays]

NewHarness == [mode |-> "RUNNING", steps |-> 0, writes |-> 0, pending |-> <<>>,
               asked |-> {}, answered |-> {}]
NoAttempt == [state |-> "NONE", charge |-> 0, day |-> 0, usage |-> 0]
\* A request of a dispatcher to a provider: its route, what it costs there, the
\* usage that is known of it; notSent: certainly no provider has it.
NewRequest == [route |-> 1, cost |-> 0, usage |-> 0, notSent |-> TRUE]
NoJob == [pc |-> "idle", run |-> NoRun, ver |-> 0, h |-> NewHarness, step |-> NoRun,
          req |-> NewRequest, out |-> "FAILED"]
NewRun == [status |-> "NONE", version |-> 0, session |-> NoSession, sv |-> 0,
           parent |-> NoRun, approved |-> 0]

RunType == [status : Final \cup {"NONE", "WAITING_APPROVAL", "RUNNING"}, version : Nat,
            session : Sessions \cup {NoSession}, sv : Nat,
            parent : Runs \cup {NoRun}, approved : Nat]
HarnessType == [mode : Failing \cup {"RUNNING", "WAITING_APPROVAL", "FINAL"},
                steps : Nat, writes : Nat, pending : Seq(Calls),
                asked : SUBSET Calls, answered : SUBSET Calls]
VerdictType == [Calls -> [decision : {"NONE", "APPROVED", "REJECTED"}, sv : Nat]]
AttemptType == [state : {"NONE", "RESERVED", "RECONCILED", "NOT_SENT", "UNKNOWN"},
                charge : Nat, day : Nat, usage : Nat]
JobType == [pc : {"idle", "reserve", "refused", "loop", "execute", "persist",
                  "candidate", "sent", "after", "release", "finish"},
            run : Runs \cup {NoRun}, ver : Nat, h : HarnessType,
            step : Runs \cup {NoRun}, out : Final \cup {"WAIT"},
            req : [route : Nat, cost : Nat, usage : Nat, notSent : BOOLEAN]]

\* Every variable keeps its type, and a dispatcher at work works for a run.
TypeOK ==
  /\ run \in [Runs -> RunType] /\ harness \in [Runs -> HarnessType]
  /\ verdict \in [Runs -> VerdictType] /\ attempt \in [Runs -> AttemptType]
  /\ session \in [Sessions -> [live : BOOLEAN, version : Nat, count : Nat]]
  /\ job \in [Jobs -> JobType] /\ access \subseteq Jobs /\ stale \subseteq Runs
  /\ \A j \in Jobs : job[j].pc # "idle" => job[j].run \in Runs
  /\ host \in {"up", "down"} /\ day \in Nat
  /\ spent \in [DOMAIN Allowed -> Nat]
  /\ paid \in [Runs -> Nat] /\ bill \in [Runs -> Nat]
  /\ commits \in [Runs -> [Calls -> Nat]]

-----------------------------------------------------------------------------
\* Conversations.

Room(s, n) == session[s].live /\ session[s].count + n <= MaxMessages
Appended(s, n) ==
  [session EXCEPT ![s].version = @ + n, ![s].count = @ + n]

\* A run outside a conversation has nothing to append to.
Reports(r, n) ==
  IF run[r].session = NoSession THEN UNCHANGED session
  ELSE Room(run[r].session, n) /\ session' = Appended(run[r].session, n)
CanReport(r) == run[r].session # NoSession => Room(run[r].session, 1)

-----------------------------------------------------------------------------
\* ConnectedService and the money of the gateway.

Today == {q \in Runs : attempt[q].state # "NONE" /\ attempt[q].day = day}
Charged(q) == attempt[q].charge
Billed(q) == bill[q]

AffordableNow ==   \* mutant: the new reservation itself is not counted
  Cardinality(Today) < RequestLimit /\ MapThenSumSet(Charged, Today) <= Budget

\* gatewayReservation: may one more attempt be reserved today?
Affordable ==
  /\ Cardinality(Today) < RequestLimit
  /\ MapThenSumSet(Charged, Today) + Reserve <= Budget

ApprovableAnyway(p) ==   \* mutant: runs that are running do not count
  Cardinality({q \in Runs : run[q].approved = day}) < RequestLimit

\* decide: may a run be approved while its parent p (or none) is running?
Approvable(p) ==
  /\ \A q \in Runs : run[q].status = "RUNNING" => q = p
  /\ Cardinality({q \in Runs : run[q].approved = day}) < RequestLimit

Reserved == [state |-> "RESERVED", charge |-> Reserve, day |-> day, usage |-> 0]

SettledFree(a, usage, notSent) ==   \* mutant: without usage nothing is charged
  IF a.state = "NONE" THEN a
  ELSE IF usage # 0 THEN [a EXCEPT !.state = "RECONCILED", !.charge = usage, !.usage = usage]
  ELSE [a EXCEPT !.state = "NOT_SENT", !.charge = 0]

\* settleGatewayMoney
Settled(a, usage, notSent) ==
  IF a.state = "NONE" THEN a
  ELSE IF usage # 0 THEN [a EXCEPT !.state = "RECONCILED", !.charge = usage, !.usage = usage]
  ELSE IF notSent THEN [a EXCEPT !.state = "NOT_SENT", !.charge = 0]
  ELSE [a EXCEPT !.state = "UNKNOWN"]

\* finish: usage that the attempt already holds stands in for a missing one.
Finished(r, status, usage, notSent) ==
  /\ run[r].status = "RUNNING"
  /\ run' = [run EXCEPT ![r].status = status, ![r].version = @ + 1]
  /\ attempt' = [attempt EXCEPT ![r] =
       Settled(@, IF usage # 0 THEN usage ELSE @.usage, notSent)]

Fresh(r) == run[r].status = "NONE"

-----------------------------------------------------------------------------
\* Requests of a person.

Happened == MapThenSumSet(LAMBDA what : spent[what], DOMAIN spent)
Allow(what) ==
  /\ spent[what] < Allowed[what] /\ Happened < MaxFaults
  /\ spent' = [spent EXCEPT ![what] = @ + 1]

Becomes(j, x) == job' = [job EXCEPT ![j] = x]
Dispatch(j, r, version) ==
  /\ job[j].pc = "idle"
  /\ Becomes(j, [NoJob EXCEPT !.pc = "reserve", !.run = r, !.ver = version])
  /\ access' = access \cup {j}

\* propose, in a conversation or (s = NoSession) outside of one
Propose(r, s) ==
  /\ host = "up" /\ Fresh(r)
  /\ s # NoSession => /\ Room(s, 3)
                      /\ \A q \in Runs : run[q].session = s =>
                           run[q].status \notin {"RUNNING", "WAITING_APPROVAL"}
  /\ session' = IF s = NoSession THEN session ELSE Appended(s, 1)
  /\ run' = [run EXCEPT ![r] =
       [NewRun EXCEPT !.status = "WAITING_APPROVAL", !.version = 1, !.session = s,
                      !.sv = IF s = NoSession THEN 0 ELSE session[s].version + 1]]
  /\ UNCHANGED <<harness, verdict, attempt, job, access, world, ghosts>>

Approve(r, j) ==
  /\ host = "up" /\ run[r].status = "WAITING_APPROVAL"
  /\ r \notin stale /\ Approvable(NoRun)
  /\ run' = [run EXCEPT ![r].status = "RUNNING", ![r].version = @ + 1, ![r].approved = day]
  /\ Dispatch(j, r, run[r].version + 1)
  /\ UNCHANGED <<harness, verdict, attempt, session, world, ghosts>>

Reject(r) ==
  /\ host = "up" /\ run[r].status = "WAITING_APPROVAL"
  /\ Reports(r, 1)
  /\ run' = [run EXCEPT ![r].status = "REJECTED", ![r].version = @ + 1]
  /\ UNCHANGED <<harness, verdict, attempt, job, access, world, ghosts>>

\* The queue of db.request: a request made with the version that an approval has
\* left comes after the reservation which that approval has dispatched.
Queue(r) == \A j \in Jobs : job[j].pc = "reserve" => job[j].run # r

Waiting(r) == run[r].status = "RUNNING" /\ harness[r].mode = "WAITING_APPROVAL"

\* harness/decide: the stored harness is left waiting, the next save moves it.
DecideCall(r, decision, j) ==
  LET c == Head(harness[r].pending)
      s == run[r].session IN
  /\ host = "up" /\ Waiting(r) /\ Queue(r) /\ r \notin stale
  /\ harness[r].pending # <<>>
  /\ session[s].live /\ session[s].version = run[r].sv
  /\ verdict' = [verdict EXCEPT ![r][c] = [decision |-> decision, sv |-> session[s].version]]
  /\ run' = [run EXCEPT ![r].version = @ + 1]
  /\ Dispatch(j, r, run[r].version + 1)
  /\ UNCHANGED <<harness, attempt, session, world, ghosts>>

\* harness/stop
Stop(r) ==
  /\ host = "up" /\ Waiting(r) /\ Queue(r)
  /\ Finished(r, "INTERRUPTED", 0, FALSE) /\ Reports(r, 1)
  /\ UNCHANGED <<harness, verdict, job, access, world, ghosts>>

\* sessions/update: a new title, a new place, the trash or back from it; n > 0:
\* two messages of a tool that the person ran in the conversation.
ChangeSession(s) ==
  /\ host = "up" /\ Allow("edit")
  /\ \/ session' = [session EXCEPT ![s].version = @ + 1]
     \/ session' = [session EXCEPT ![s].version = @ + 1, ![s].live = ~@]
     \/ Room(s, 3) /\ session' = Appended(s, 2)
  /\ UNCHANGED <<run, harness, verdict, attempt, job, access, stale, host, day, ghosts>>

ChangeContext(r) ==
  /\ Allow("change") /\ host = "up"
  /\ run[r].status \in {"WAITING_APPROVAL", "RUNNING"} /\ r \notin stale
  /\ stale' = stale \cup {r}
  /\ UNCHANGED <<stored, job, access, host, day, ghosts>>

\* The login that approved the run ends: a logout, an expiry, a new password.
EndLogin(j) ==
  /\ Allow("logout") /\ job[j].pc # "idle" /\ j \in access
  /\ access' = access \ {j}
  /\ UNCHANGED <<stored, job, stale, host, day, ghosts>>

NewDay ==
  /\ Allow("midnight") /\ day' = day + 1
  /\ UNCHANGED <<stored, job, access, stale, host, ghosts>>

-----------------------------------------------------------------------------
\* A dispatcher.

At(j, pc) == job[j].pc = pc
Goto(j, pc) == Becomes(j, [job[j] EXCEPT !.pc = pc])
Plain(j) == run[job[j].run].session = NoSession
Idle(j) == Becomes(j, NoJob) /\ access' = access \ {j}

\* The harness leaves its loop in this mode, which it then saves.
Fail(j, mode) ==
  Becomes(j, [job[j] EXCEPT !.pc = "persist", !.h.mode = mode, !.req = NewRequest])

\* transaction(operation, contextCheck) of the runtime, up to the operation
Valid(j, contextCheck) ==
  LET r == job[j].run
      s == run[r].session IN
  /\ run[r].version = job[j].ver /\ run[r].status = "RUNNING"
  /\ session[s].live /\ session[s].version = run[r].sv
  /\ contextCheck => r \notin stale
  /\ j \in access

\* What reserve and a resumed run both need.
Dispatchable(j) ==
  LET r == job[j].run IN
  /\ j \in access /\ r \notin stale
  /\ ~ Plain(j) => session[run[r].session].live /\ session[run[r].session].version = run[r].sv

Resumed(r) == attempt[r].state # "NONE" /\ run[r].session # NoSession
Reservable(j) ==
  LET r == job[j].run IN
  /\ run[r].status = "RUNNING" /\ run[r].version = job[j].ver
  /\ attempt[r].state = "NONE" /\ Affordable

ReserveAttempt(j) ==
  LET r == job[j].run IN
  /\ At(j, "reserve") /\ Dispatchable(j) /\ ~ Resumed(r) /\ Reservable(j)
  /\ run' = [run EXCEPT ![r].version = @ + 1]
  /\ attempt' = [attempt EXCEPT ![r] = Reserved]
  /\ Becomes(j,
       [job[j] EXCEPT !.pc = IF Plain(j) THEN "candidate" ELSE "loop",
                      !.ver = run[r].version + 1, !.h = harness[r], !.step = r])
  /\ UNCHANGED <<harness, verdict, session, access, world, ghosts>>

\* A run that has its attempt is taken up where its harness was saved - waiting,
\* or the person could not have decided - whatever its version and status are.
Resume(j) ==
  LET r == job[j].run IN
  /\ At(j, "reserve") /\ Dispatchable(j) /\ Resumed(r)
  /\ Becomes(j,
       [job[j] EXCEPT !.pc = "loop", !.ver = run[r].version, !.step = r,
                      !.h = [harness[r] EXCEPT !.mode = "RUNNING"]])
  /\ UNCHANGED <<stored, access, world, ghosts>>

Refuse(j) ==
  /\ At(j, "reserve")
  /\ ~ (Dispatchable(j) /\ (Resumed(job[j].run) \/ Reservable(j)))
  /\ Goto(j, "refused")
  /\ UNCHANGED <<stored, access, world, ghosts>>

\* The catch of the reservation: only a run that nobody has reserved, at the
\* version that was dispatched, is failed.
Refused(j) ==
  LET r == job[j].run IN
  /\ At(j, "refused") /\ Idle(j)
  /\ IF /\ run[r].status = "RUNNING" /\ attempt[r].state = "NONE"
        /\ run[r].version = job[j].ver /\ CanReport(r)
     THEN Finished(r, "FAILED", 0, FALSE) /\ Reports(r, 1)
     ELSE UNCHANGED <<run, attempt, session>>
  /\ UNCHANGED <<harness, verdict, world, ghosts>>

\* The next call of the last response.
Working(j) == At(j, "loop") /\ job[j].h.pending # <<>>
NextCall(j) == Head(job[j].h.pending)
Verdict(j) ==
  LET v == verdict[job[j].run][NextCall(j)] IN
  IF v.sv = run[job[j].run].sv THEN v.decision ELSE "NONE"

AskHuman(j) ==
  /\ Working(j) /\ NextCall(j) \in Writes
  /\ Valid(j, TRUE) /\ Verdict(j) = "NONE"
  /\ Fail(j, "WAITING_APPROVAL")
  /\ UNCHANGED <<stored, access, world, ghosts>>

ApprovedCall(j) ==
  /\ Working(j) /\ NextCall(j) \in Writes
  /\ Valid(j, TRUE) /\ Verdict(j) = "APPROVED"
  /\ IF job[j].h.writes < MaxWrites THEN Goto(j, "execute") ELSE Fail(j, "ERROR")
  /\ UNCHANGED <<stored, access, world, ghosts>>

\* The harness after a call: its result is known, the next one is due.
AfterCall(h, c, executed) ==
  [h EXCEPT !.pending = Tail(h.pending), !.answered = h.answered \cup {c},
            !.writes = IF executed /\ c \in Writes THEN h.writes + 1 ELSE h.writes]

RejectedCall(j) ==
  /\ Working(j) /\ NextCall(j) \in Writes
  /\ Valid(j, TRUE) /\ Verdict(j) = "REJECTED"
  /\ Becomes(j, [job[j] EXCEPT !.pc = "persist", !.h = AfterCall(@, NextCall(j), FALSE)])
  /\ UNCHANGED <<stored, access, world, ghosts>>

\* No approval can be read any more.
LoseCall(j) ==
  /\ Working(j) /\ NextCall(j) \in Writes /\ ~ Valid(j, TRUE)
  /\ Fail(j, "ERROR") /\ UNCHANGED <<stored, access, world, ghosts>>

\* A write that was approved, or a read.
Executing(j) == At(j, "execute") \/ (Working(j) /\ NextCall(j) \notin Writes)

ExecuteThenSave(j) ==   \* mutant: the harness is advanced by the next save only
  LET r == job[j].run
      s == run[r].session
      h == AfterCall(job[j].h, NextCall(j), TRUE) IN
  /\ Executing(j) /\ Valid(j, TRUE) /\ Room(s, 2)
  /\ run' = [run EXCEPT ![r].version = @ + 1]
  /\ commits' = [commits EXCEPT ![r][NextCall(j)] = @ + 1]
  /\ Becomes(j, [job[j] EXCEPT !.pc = "persist", !.ver = @ + 1, !.h = h])
  /\ UNCHANGED <<harness, session, verdict, attempt, access, world, paid, bill>>

\* execute: the call, its two messages and the advanced harness commit together.
ExecuteCall(j) ==
  LET r == job[j].run
      s == run[r].session
      c == NextCall(j)
      h == AfterCall(job[j].h, c, TRUE) IN
  /\ Executing(j) /\ Valid(j, TRUE) /\ Room(s, 2)
  /\ session' = Appended(s, 2)
  /\ run' = [run EXCEPT ![r].version = @ + 1, ![r].sv = session[s].version + 2]
  /\ harness' = [harness EXCEPT ![r] = h]
  /\ commits' = [commits EXCEPT ![r][c] = @ + 1]
  /\ Becomes(j, [job[j] EXCEPT !.pc = "persist", !.ver = @ + 1, !.h = h])
  /\ UNCHANGED <<verdict, attempt, access, world, paid, bill>>

\* The call is refused by the rules of what it would change, or by a full
\* conversation: its error is its result.
RefuseCall(j) ==
  /\ Executing(j) /\ Valid(j, TRUE)
  /\ Becomes(j, [job[j] EXCEPT !.pc = "persist", !.h = AfterCall(@, NextCall(j), TRUE)])
  /\ UNCHANGED <<stored, access, world, ghosts>>

LoseExecution(j) ==
  /\ Executing(j) /\ ~ Valid(j, TRUE)
  /\ Fail(j, "ERROR") /\ UNCHANGED <<stored, access, world, ghosts>>

\* The runtime returns: to the finally that releases the child of the last
\* step if there is one, and to the end of the dispatch.
Leave(j, out) ==
  LET next == IF job[j].step # job[j].run THEN "release"
              ELSE IF out = "WAIT" THEN "idle" ELSE "finish" IN
  /\ Becomes(j, IF next = "idle" THEN NoJob
       ELSE [NoJob EXCEPT !.pc = next, !.run = job[j].run, !.step = job[j].step, !.out = out])
  /\ access' = IF next = "idle" THEN access \ {j} ELSE access

\* save: results that are not stored yet are appended, two messages each.
Results(j) == 2 * Cardinality(job[j].h.answered \ harness[job[j].run].answered)
SaveableAnyway(j) ==   \* mutant: the save does not compare the version
  Room(run[job[j].run].session, Results(j))
Saveable(j) ==
  /\ Valid(j, job[j].h.mode \notin Failing)
  /\ Room(run[job[j].run].session, Results(j))

OutOf(mode) == CASE mode = "FINAL" -> "SUCCEEDED"
                 [] mode = "WAITING_APPROVAL" -> "WAIT"
                 [] mode = "INTERRUPTED" -> "INTERRUPTED"
                 [] OTHER -> "FAILED"

Save(j) ==
  LET r == job[j].run
      s == run[r].session
      mode == job[j].h.mode IN
  /\ At(j, "persist") /\ Saveable(j)
  /\ session' = Appended(s, Results(j))
  /\ run' = [run EXCEPT ![r].version = @ + 1, ![r].sv = session[s].version + Results(j)]
  /\ harness' = [harness EXCEPT ![r] = job[j].h]
  /\ IF mode = "RUNNING"
     THEN /\ Becomes(j, [job[j] EXCEPT !.pc = "loop", !.ver = @ + 1])
          /\ UNCHANGED access
     ELSE Leave(j, OutOf(mode))
  /\ UNCHANGED <<verdict, attempt, world, ghosts>>

\* A save that fails is tried once more with the error; then the run is given up.
SaveFails(j) ==
  /\ At(j, "persist") /\ ~ Saveable(j)
  /\ IF job[j].h.mode \in Failing THEN Leave(j, "FAILED")
     ELSE Fail(j, "ERROR") /\ UNCHANGED access
  /\ UNCHANGED <<stored, world, ghosts>>

\* beforeModel.  The first call of a run uses the run's own attempt ...
Asking(j) == At(j, "loop") /\ job[j].h.pending = <<>>

FirstStep(j) ==
  /\ Asking(j) /\ job[j].h.steps = 0 /\ job[j].h.steps < MaxSteps /\ Valid(j, TRUE)
  /\ Becomes(j, [job[j] EXCEPT !.pc = "candidate", !.step = job[j].run])
  /\ UNCHANGED <<stored, access, world, ghosts>>

\* ... and each later one a child: proposed, approved and reserved in one
\* transaction, in the name of its parent.
MayStep(j) ==
  /\ job[j].h.steps < MaxSteps /\ Valid(j, TRUE)
  /\ harness[job[j].run].mode = "RUNNING" /\ Approvable(job[j].run) /\ Affordable

NextStep(j, child) ==
  /\ Asking(j) /\ job[j].h.steps > 0 /\ MayStep(j) /\ Fresh(child)
  /\ run' = [run EXCEPT ![child] =
       [NewRun EXCEPT !.status = "RUNNING", !.version = 4, !.parent = job[j].run,
                      !.approved = day]]
  /\ attempt' = [attempt EXCEPT ![child] = Reserved]
  /\ Becomes(j, [job[j] EXCEPT !.pc = "candidate", !.step = child])
  /\ UNCHANGED <<harness, verdict, session, access, world, ghosts>>

NoStep(j) ==
  /\ Asking(j)
  /\ \/ job[j].h.steps >= MaxSteps \/ ~ Valid(j, TRUE)
     \/ job[j].h.steps > 0 /\ (~ MayStep(j) \/ \A q \in Runs : ~ Fresh(q))
  /\ Fail(j, "ERROR") /\ UNCHANGED <<stored, access, world, ghosts>>

-----------------------------------------------------------------------------
\* The provider.

\* The check before each candidate route: of the runtime, or of a plain run.
MaySend(j) ==
  IF ~ Plain(j) THEN Valid(j, TRUE)
  ELSE LET r == job[j].run IN
       /\ run[r].version = job[j].ver /\ run[r].status = "RUNNING"
       /\ r \notin stale /\ j \in access

\* The request goes out; cost 0: it never reaches the provider.
Send(j, cost) ==
  LET q == job[j].step IN
  /\ At(j, "candidate") /\ MaySend(j)
  /\ Becomes(j, [job[j] EXCEPT !.pc = "sent", !.req.cost = cost, !.req.notSent = FALSE])
  /\ paid' = [paid EXCEPT ![q] = @ + (IF cost = 0 THEN 0 ELSE 1)]
  /\ bill' = [bill EXCEPT ![q] = @ + cost]
  /\ UNCHANGED <<stored, access, world, commits>>

GiveUp(j, out) ==
  IF Plain(j)
  THEN Becomes(j, [job[j] EXCEPT !.pc = "finish", !.out = out])
  ELSE Fail(j, IF out = "INTERRUPTED" THEN "INTERRUPTED" ELSE "ERROR")

SendRefused(j) ==
  /\ At(j, "candidate") /\ ~ MaySend(j)
  /\ GiveUp(j, "FAILED") /\ UNCHANGED <<stored, access, world, ghosts>>

FallBack(j) ==   \* mutant: every failure falls back to the next route
  /\ At(j, "sent") /\ job[j].req.route < Routes
  /\ Becomes(j, [job[j] EXCEPT !.pc = "candidate", !.req.route = @ + 1, !.req.notSent = TRUE])
  /\ UNCHANGED <<stored, access, world, ghosts>>

\* ModelNotSentError: the request certainly did not reach the provider, so the
\* next candidate may have it.
NotSent(j) ==
  /\ At(j, "sent") /\ job[j].req.cost = 0
  /\ IF job[j].req.route < Routes
     THEN Becomes(j, [job[j] EXCEPT !.pc = "candidate", !.req.route = @ + 1, !.req.notSent = TRUE])
     ELSE IF Plain(j)
     THEN Becomes(j, [job[j] EXCEPT !.pc = "finish", !.out = "FAILED", !.req.notSent = TRUE])
     ELSE Fail(j, "ERROR")
  /\ UNCHANGED <<stored, access, world, ghosts>>

\* Any other failure: a timeout, a broken stream, an invalid answer.  A plain
\* run keeps the usage it has seen.
Unknown(j) ==
  /\ At(j, "sent")
  /\ IF Plain(j)
     THEN \E usage \in {0, job[j].req.cost} :
            Becomes(j, [job[j] EXCEPT !.pc = "finish", !.out = "FAILED", !.req.usage = usage])
     ELSE Fail(j, "ERROR")
  /\ UNCHANGED <<stored, access, world, ghosts>>

\* The answer, with the usage the provider reports or without.
Answer(j) ==
  /\ At(j, "sent") /\ job[j].req.cost # 0
  /\ \E usage \in {0, job[j].req.cost} :
       Becomes(j, IF Plain(j)
         THEN [job[j] EXCEPT !.pc = "finish", !.req.usage = usage, !.out = "SUCCEEDED"]
         ELSE [job[j] EXCEPT !.pc = "after", !.req.usage = usage, !.h.steps = @ + 1])
  /\ UNCHANGED <<stored, access, world, ghosts>>

\* afterModel: the attempt of this step is settled; then the calls of the
\* response are queued.
SettleStep(j) ==
  LET r == job[j].run
      q == job[j].step IN
  IF q # r
  THEN Finished(q, "SUCCEEDED", job[j].req.usage, FALSE)
  ELSE IF job[j].req.usage = 0 THEN UNCHANGED <<run, attempt>>
  ELSE /\ attempt' = [attempt EXCEPT ![r] = Settled(@, job[j].req.usage, FALSE)]
       /\ run' = [run EXCEPT ![r].version = @ + 1]

Settleable(j) ==
  /\ Valid(j, TRUE)
  /\ job[j].step # job[j].run => run[job[j].step].status = "RUNNING"

Queued(h, calls) ==
  [h EXCEPT !.pending = calls, !.asked = h.asked \cup Range(calls),
            !.mode = IF calls = <<>> THEN "FINAL" ELSE "RUNNING"]

AfterModel(j, calls) ==
  LET ownUsage == job[j].step = job[j].run /\ job[j].req.usage # 0
      new == IsInjective(calls) /\ Range(calls) \cap job[j].h.asked = {} IN
  /\ At(j, "after") /\ Settleable(j) /\ SettleStep(j)
  /\ Becomes(j,
       [job[j] EXCEPT !.pc = "persist", !.req = NewRequest, !.ver = IF ownUsage THEN @ + 1 ELSE @,
                      !.h = IF new THEN Queued(@, calls) ELSE [job[j].h EXCEPT !.mode = "ERROR"]])
  /\ UNCHANGED <<harness, verdict, session, access, world, ghosts>>

LoseAnswer(j) ==
  /\ At(j, "after") /\ ~ Settleable(j)
  /\ Fail(j, "ERROR") /\ UNCHANGED <<stored, access, world, ghosts>>

\* The time of the run, of a provider call or of the host is over.
Interrupt(j) ==
  /\ job[j].pc \in {"loop", "candidate", "sent", "after"}
  /\ GiveUp(j, "INTERRUPTED") /\ UNCHANGED <<stored, access, world, ghosts>>

-----------------------------------------------------------------------------
\* The end of a dispatch.

ReleaseNothing(j) ==   \* mutant: the child of a failed step is left alone
  /\ At(j, "release")
  /\ IF job[j].out = "WAIT" THEN Idle(j)
     ELSE Becomes(j, [job[j] EXCEPT !.pc = "finish"]) /\ UNCHANGED access
  /\ UNCHANGED <<run, attempt, harness, verdict, session, world, ghosts>>

\* The finally of the runtime: a child that still runs is finished, in a
\* transaction that needs the login.
Release(j) ==
  LET q == job[j].step
      out == IF j \in access THEN job[j].out ELSE "FAILED" IN
  /\ At(j, "release")
  /\ IF j \in access /\ run[q].status = "RUNNING"
     THEN Finished(q, "FAILED", 0, FALSE)
     ELSE UNCHANGED <<run, attempt>>
  /\ IF out = "WAIT" THEN Idle(j)
     ELSE /\ Becomes(j, [job[j] EXCEPT !.pc = "finish", !.out = out])
          /\ UNCHANGED access
  /\ UNCHANGED <<harness, verdict, session, world, ghosts>>

\* The last transaction: no login is needed, and no version is compared.
Finish(j) ==
  LET r == job[j].run IN
  /\ At(j, "finish") /\ Idle(j)
  /\ IF run[r].status = "RUNNING" /\ CanReport(r)
     THEN /\ Finished(r, job[j].out, job[j].req.usage, Plain(j) /\ job[j].req.notSent)
          /\ Reports(r, 1)
     ELSE UNCHANGED <<run, attempt, session>>
  /\ UNCHANGED <<harness, verdict, world, ghosts>>

-----------------------------------------------------------------------------
\* The process of the host.

Crash ==
  /\ host = "up" /\ Allow("crash")
  /\ host' = "down" /\ job' = [j \in Jobs |-> NoJob] /\ access' = {}
  /\ UNCHANGED <<stored, stale, day, ghosts>>

Abandoned(r) == run[r].status = "RUNNING" /\ ~ Waiting(r)

\* One abandoned run; if its message cannot be appended the host does not start.
Recover(r) ==
  /\ host = "down" /\ Abandoned(r)
  /\ Finished(r, "INTERRUPTED", 0, FALSE) /\ Reports(r, 1)
  /\ UNCHANGED <<harness, verdict, job, access, world, ghosts>>

StartAnyway ==   \* mutant: the host starts before the abandoned runs are finished
  /\ host = "down" /\ host' = "up"
  /\ UNCHANGED <<stored, job, access, stale, day, spent, ghosts>>
Start ==
  /\ host = "down" /\ \A r \in Runs : ~ Abandoned(r)
  /\ host' = "up"
  /\ UNCHANGED <<stored, job, access, stale, day, spent, ghosts>>

-----------------------------------------------------------------------------
Init ==
  /\ run = [r \in Runs |-> NewRun] /\ harness = [r \in Runs |-> NewHarness]
  /\ verdict = [r \in Runs |-> [c \in Calls |-> [decision |-> "NONE", sv |-> 0]]]
  /\ attempt = [r \in Runs |-> NoAttempt]
  /\ session = [s \in Sessions |-> [live |-> TRUE, version |-> 1, count |-> 0]]
  /\ job = [j \in Jobs |-> NoJob] /\ access = {} /\ stale = {}
  /\ host = "up" /\ day = 1
  /\ spent = [what \in DOMAIN Allowed |-> 0]
  /\ paid = [r \in Runs |-> 0] /\ bill = [r \in Runs |-> 0]
  /\ commits = [r \in Runs |-> [c \in Calls |-> 0]]

Person ==
  \/ \E r \in Runs : \/ \E s \in Sessions \cup {NoSession} : Propose(r, s)
                     \/ Reject(r) \/ Stop(r) \/ ChangeContext(r)
                     \/ \E j \in Jobs : \/ Approve(r, j)
                                        \/ DecideCall(r, "APPROVED", j)
                                        \/ DecideCall(r, "REJECTED", j)
  \/ \E s \in Sessions : ChangeSession(s)

Dispatcher(j) ==
  \/ ReserveAttempt(j) \/ Resume(j) \/ Refuse(j) \/ Refused(j)
  \/ AskHuman(j) \/ ApprovedCall(j) \/ RejectedCall(j) \/ LoseCall(j)
  \/ ExecuteCall(j) \/ RefuseCall(j) \/ LoseExecution(j) \/ Save(j) \/ SaveFails(j)
  \/ FirstStep(j) \/ NoStep(j) \/ \E q \in Runs : NextStep(j, q)
  \/ SendRefused(j) \/ \E cost \in Usages \cup {0} : Send(j, cost)
  \/ NotSent(j) \/ Unknown(j) \/ Answer(j)
  \/ LoseAnswer(j) \/ \E calls \in Answers : AfterModel(j, calls)
  \/ Release(j) \/ Finish(j)

Next ==
  \/ Person \/ NewDay \/ Crash \/ Start
  \/ \E r \in Runs : Recover(r)
  \/ \E j \in Jobs : Dispatcher(j) \/ Interrupt(j) \/ EndLogin(j)

Spec == Init /\ [][Next]_vars

\* The process runs what it has begun: a dispatch, and the start of the host.
FairSpec ==
  /\ Spec /\ WF_vars(Start)
  /\ \A r \in Runs : WF_vars(Recover(r))
  /\ \A j \in Jobs : WF_vars(Dispatcher(j))

-----------------------------------------------------------------------------
\* A write is executed once at most, and only while the last decision of the
\* person about it is an approval: neither a second dispatcher nor a restart
\* between the commit and the next step executes it again.
WritesApprovedOnce ==
  \A r \in Runs : \A c \in Calls :
    /\ commits[r][c] <= 1
    /\ commits[r][c] > 0 /\ c \in Writes => verdict[r][c].decision = "APPROVED"

\* One attempt pays one provider at most: no fallback, retry or second
\* dispatcher sends what may have been sent already.
PaidOnce == \A r \in Runs : paid[r] <= 1

\* What the providers charge is always covered by what the ledger charges, in
\* flight as well as after a crash, a timeout or a lost answer.
ChargeCoversBill == \A r \in Runs : bill[r] <= attempt[r].charge

\* The bills of a day stay within the daily budget.
BudgetKept ==
  \A d \in 1 .. day :
    MapThenSumSet(Billed, {r \in Runs : attempt[r].day = d}) <= Budget

\* At most one approved run works at a time, and at most one provider call of
\* its steps is under way, whoever dispatched them.
OneRunning ==
  \A p, q \in Runs :
    /\ run[p].status = "RUNNING" /\ run[q].status = "RUNNING"
    /\ run[p].parent = NoRun <=> run[q].parent = NoRun
    => p = q

\* What is over stays over: no late answer, second dispatcher or recovery moves
\* a finished run, its money or its harness.
FinishedStays ==
  [][\A r \in Runs : run[r].status \in Final =>
       /\ run'[r] = run[r] /\ attempt'[r] = attempt[r] /\ harness'[r] = harness[r]]_vars

\* While its owner leaves the conversation alone, stays logged in, and has room
\* in it, no running run is without a dispatcher, its own or its parent's, except
\* one that waits for a person: the money reserved for it will be settled, and
\* the next run can be approved.
NoneAbandoned ==
  host = "up" /\ spent["edit"] = 0 /\ spent["logout"] = 0 =>
    \A r \in Runs : Abandoned(r) /\ CanReport(r) =>
      \E j \in Jobs : job[j].pc # "idle" /\ r \in {job[j].run, job[j].step}

-----------------------------------------------------------------------------
\* What the decision record says of it, and the code does not do: "Restart
\* interrupts unresolved runs" (docs/adr/0031).
RestartEnds == host = "down" ~> host = "up"
=============================================================================
