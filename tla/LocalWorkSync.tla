--------------------------- MODULE LocalWorkSync ---------------------------
(***************************************************************************)
(* The durable local-first synchronisation of one installation with its   *)
(* server: the local database (local rows, canonical bases, Outbox, sync  *)
(* binding, workspace revision), the LocalWorkSyncCoordinator of every    *)
(* open tab, the conflict review, and the server's replay of commands     *)
(* with its change log and request receipts.                               *)
(*                                                                         *)
(* All tabs share one IndexedDB; a coordinator coalesces only the runs of *)
(* its own tab, so two coordinators interleave at every await.  A tab's   *)
(* step below is what one coordinator does between two awaits that another *)
(* actor can be seen through; reads that are compare-and-set by the commit *)
(* that follows them are merged into that commit.                          *)
(*                                                                         *)
(* Row contents are abstracted to [ver, by]: a version and the author of   *)
(* that version, the command that wrote it or the constant Remote (a write *)
(* of another device).                                                     *)
(***************************************************************************)
EXTENDS Integers, Sequences, FiniteSets

CONSTANTS
  Entities,    \* the rows of the bound workspace (items, notes, ...)
  Existing,    \* the rows that exist on the server at first binding
  Intents,     \* the edits a user may make on this installation
  Targets,     \* Targets[i]: the rows edit i writes; several: a compound command
  Tabs,        \* the open tabs (or windows), one coordinator each
  Remote,      \* the author of every write of another device
  PageSize,    \* rows of the change log in one page (500 in the code)
  MaxReplace,  \* bound: how often a command may be replaced by a rebase or review
  MaxRemote,   \* bound: writes of other devices
  MaxFaults    \* bound: lost exchanges, closed tabs and crashes

ASSUME EntitiesAssumption == IsFiniteSet(Entities) /\ Existing \subseteq Entities
ASSUME TargetsAssumption ==
  Targets \in [Intents -> SUBSET Entities] /\ \A i \in Intents : Targets[i] # {}
ASSUME BoundsAssumption ==
  /\ PageSize \in Nat \ {0}
  /\ MaxReplace \in Nat /\ MaxRemote \in Nat /\ MaxFaults \in Nat

\* Command <<i, g>> carries edit i after g replacements: a rebase or a review
\* archives the command under $local.superseded and adds one with a new id.
Commands == Intents \X (0 .. MaxReplace)

ASSUME RemoteAssumption == Remote \notin Commands

VARIABLES
  row,       \* row[e]: the local row shown to the user (ver 0: absent)
  base,      \* base[e]: $local.remoteBase, the canonical row last seen (ver 0: none)
  outbox,    \* outbox[c]: "ABSENT" or the state shared by the command's mutations
  command,   \* command[c]: immutable $local.command and mutation data
  revision,  \* the $local.workspace revision
  binding,   \* [version, cursor] of the stored LocalSyncState
  server,    \* server[e]: the canonical row (ver 0: absent)
  changes,   \* the workspace_change log: a sequence of [e, ver, by]
  receipts,  \* the commands with a row in request_receipt
  sent,      \* the commands whose request was handed to the network
  pc,        \* pc[t]: where the coordinator of tab t awaits
  phase,     \* phase[t]: the part of the cycle it is in
  scope,     \* scope[t]: the binding it captured before a network call
  page,      \* page[t]: the pulled page
  others,    \* others[t]: rows with other pending mutations, when it listed the Outbox
  plan,      \* plan[t]: its snapshot of planned commands still to handle
  todo,      \* todo[t]: planned commands the rebase loop has not reached
  blocked,   \* blocked[t]: the rows it must not send for in this cycle
  faults     \* faults taken so far

local  == <<row, base, outbox, command, revision, binding>>
remote == <<server, changes, receipts, sent>>
tabs   == <<pc, phase, scope, page, others, plan, todo, blocked>>
vars   == <<local, remote, tabs, faults>>

Rows(c)     == Targets[c[1]]
Singleton(c) == \E e \in Entities : Rows(c) = {e}
Authors     == Commands \cup {Remote}
Versions    == [ver : Nat, by : Authors]
Unseen      == [ver |-> 0, by |-> Remote]

PlanStates  == {"NONE", "READY", "RECEIPT_REQUIRED", "CONFLICT"}
NoPlan      == [c \in Commands |-> "NONE"]
NoPage      == [upTo |-> 0, rows |-> {}, values |-> [e \in Entities |-> Unseen],
                more |-> FALSE]
NoCommand   == [base |-> [e \in Entities |-> Unseen], order |-> 0]

LocalOK ==
  /\ row \in [Entities -> Versions]
  /\ base \in [Entities -> Versions]
  /\ outbox \in [Commands -> {"ABSENT", "PENDING", "SENDING", "CONFLICT"}]
  /\ command \in [Commands -> [base : [Entities -> Versions], order : Nat]]
  /\ revision \in Nat
  /\ binding \in [version : Nat, cursor : Nat]

RemoteOK ==
  /\ server \in [Entities -> Versions]
  /\ changes \in Seq([e : Entities, ver : Nat, by : Authors])
  /\ receipts \subseteq Commands
  /\ sent \subseteq Commands

TabsOK ==
  /\ pc \in [Tabs -> {"idle", "pull", "page", "project", "recover", "rebase",
                      "send", "await", "refused", "receipt", "acknowledge"}]
  /\ phase \in [Tabs -> {"first", "recover", "plan", "replan", "send", "final"}]
  /\ scope \in [Tabs -> [version : Nat, cursor : Nat]]
  /\ page \in [Tabs -> [upTo : Nat, rows : SUBSET Entities,
                        values : [Entities -> Versions], more : BOOLEAN]]
  /\ others \in [Tabs -> SUBSET Entities]
  /\ plan \in [Tabs -> [Commands -> PlanStates]]
  /\ todo \in [Tabs -> SUBSET Commands]
  /\ blocked \in [Tabs -> SUBSET Entities]

\* Every variable keeps its shape: what a page, a plan or a replacement may hold.
TypeOK == LocalOK /\ RemoteOK /\ TabsOK /\ faults \in Nat

-----------------------------------------------------------------------------
(* The Outbox and its plans. *)

Queued      == {c \in Commands : outbox[c] # "ABSENT"}
Pending(e)  == {c \in Queued : e \in Rows(c)}
Busy(S)     == {e \in Entities : Pending(e) \ S # {}}
Latest(e, a) == a \in Pending(e) /\ \A d \in Pending(e) : command[d].order <= command[a].order

\* planLocalCommands: an attempted command needs its receipt before anything else.
PlanState(c) ==
  CASE outbox[c] = "PENDING"  -> "READY"
    [] outbox[c] = "SENDING"  -> "RECEIPT_REQUIRED"
    [] outbox[c] = "CONFLICT" -> "CONFLICT"
    [] OTHER                  -> "NONE"

PlanLocalCommands == [c \in Commands |-> PlanState(c)]

Planned(t)  == {c \in Commands : plan[t][c] # "NONE"}
First(c, S) == c \in S /\ \A d \in S : command[c].order <= command[d].order

-----------------------------------------------------------------------------
(* The tabs between steps. *)

Reset(t) ==
  /\ pc' = [pc EXCEPT ![t] = "idle"]
  /\ phase' = [phase EXCEPT ![t] = "first"]
  /\ scope' = [scope EXCEPT ![t] = [version |-> 0, cursor |-> 0]]
  /\ page' = [page EXCEPT ![t] = NoPage]
  /\ others' = [others EXCEPT ![t] = {}]
  /\ plan' = [plan EXCEPT ![t] = NoPlan]
  /\ todo' = [todo EXCEPT ![t] = {}]
  /\ blocked' = [blocked EXCEPT ![t] = {}]

\* A guard, a compare-and-set or the transport throws: the cycle ends, the
\* scheduler starts another one later.
Throw(t) == Reset(t) /\ UNCHANGED <<local, remote, faults>>

Goto(t, p) == pc' = [pc EXCEPT ![t] = p]
Enter(t, f) == phase' = [phase EXCEPT ![t] = f]

\* The loop over the plans leaves c behind.
Leave(t, c) == plan' = [plan EXCEPT ![t][c] = "NONE"]
BlockNothing(t, c) == UNCHANGED blocked   \* mutant
Block(t, c) == blocked' = [blocked EXCEPT ![t] = @ \cup Rows(c)]

-----------------------------------------------------------------------------
(* The user: edits and reviews.  Each is one IndexedDB transaction guarded  *)
(* by the workspace revision, whichever tab it comes from.                 *)

\* LocalMutationTransaction.commit: every row moves to its next version, the
\* command joins the Outbox behind all earlier ones.
CommitLocalCommand(i) ==
  LET c == <<i, 0>> IN
  /\ command[c].order = 0
  /\ command' = [command EXCEPT ![c] =
       [base |-> [e \in Entities |-> IF e \in Rows(c) THEN row[e] ELSE Unseen],
        order |-> revision + 1]]
  /\ row' = [e \in Entities |->
       IF e \in Rows(c) THEN [ver |-> row[e].ver + 1, by |-> c] ELSE row[e]]
  /\ outbox' = [outbox EXCEPT ![c] = "PENDING"]
  /\ revision' = revision + 1
  /\ UNCHANGED <<base, binding, remote, tabs, faults>>

\* A replacement waits behind everything; with followers it takes the place of c.
OrderAtTheEnd(c, followers) == revision + 1   \* mutant
ReplacementOrder(c, followers) ==
  IF followers = {} THEN revision + 1 ELSE command[c].order

\* commitPendingWorkRebase: c leaves the Outbox and its replacement, built on
\* the canonical base, enters it.  With followers the row keeps showing the
\* last of them.
Replace(c, e, followers) ==
  LET d == <<c[1], c[2] + 1>> IN
  /\ command' = [command EXCEPT ![d] =
       [base |-> [x \in Entities |-> IF x = e THEN base[e] ELSE Unseen],
        order |-> ReplacementOrder(c, followers)]]
  /\ outbox' = [outbox EXCEPT ![c] = "ABSENT", ![d] = "PENDING"]
  /\ row' = IF followers = {}
              THEN [row EXCEPT ![e] = [ver |-> base[e].ver + 1, by |-> d]]
              ELSE row
  /\ revision' = revision + 1
  /\ UNCHANGED <<base, binding>>

\* What a rebase and a review both require of c and its only row e.
Replaceable(c, e) ==
  /\ c[2] < MaxReplace
  /\ Rows(c) = {e}
  /\ command[c].base[e].ver > 0
  /\ base[e].ver > command[c].base[e].ver

\* localConflictSuccessors: the other pending edits of row e form a chain of
\* never-sent singleton edits, each built on exactly the one before it.
Successors(c, e) ==
  LET F == Pending(e) \ {c} IN
  /\ \A d \in F :
       /\ outbox[d] = "PENDING"
       /\ Singleton(d)
       /\ command[d].order > command[c].order
       /\ \E p \in F \cup {c} :
            /\ command[p].order < command[d].order
            /\ command[d].base[e] = [ver |-> command[p].base[e].ver + 1, by |-> p]
            /\ \A q \in F : command[q].order <= command[p].order
                            \/ command[q].order >= command[d].order

\* The user resolves a conflict, for the local or for the remote value, after
\* one more look for a receipt.  Either choice sends a new command: they differ
\* in the contents of the row only.
ReviewConflict(c, e) ==
  /\ outbox[c] = "CONFLICT"
  /\ c \notin receipts
  /\ Replaceable(c, e)
  /\ Successors(c, e)
  /\ Latest(e, row[e].by)
  /\ Replace(c, e, Pending(e) \ {c})
  /\ UNCHANGED <<remote, tabs, faults>>

-----------------------------------------------------------------------------
(* The server. *)

\* WorkReplayUnitOfWork: every effect must start from the canonical version.
Current(c) == \A e \in Rows(c) : server[e].ver = command[c].base[e].ver

ForgetReceipt(c) == receipts' = receipts   \* mutant
StoreReceipt(c)  == receipts' = receipts \cup {c}

\* One SQLite transaction: the rows, their log entries and the receipt.
Apply(c) ==
  /\ server' = [e \in Entities |->
       IF e \in Rows(c) THEN [ver |-> server[e].ver + 1, by |-> c] ELSE server[e]]
  /\ \E s \in [1 .. Cardinality(Rows(c)) -> Rows(c)] :
       /\ \A e \in Rows(c) : \E k \in DOMAIN s : s[k] = e
       /\ changes' = changes \o
            [k \in DOMAIN s |-> [e |-> s[k], ver |-> server[s[k]].ver + 1, by |-> c]]
  /\ StoreReceipt(c)

\* A request for c reaches the server: a command with a receipt is answered
\* from it and changes nothing.
Accepts(c) == c \notin receipts /\ Current(c)

TimesOut(c) == UNCHANGED <<server, changes, receipts>>   \* mutant
Process(c)  == IF Accepts(c) THEN Apply(c) ELSE UNCHANGED <<server, changes, receipts>>

\* Another device of the account writes row e.
RemoteWrite(e) ==
  /\ server[e].ver > 0
  /\ Cardinality({k \in DOMAIN changes : changes[k].by = Remote}) < MaxRemote
  /\ server' = [server EXCEPT ![e] = [ver |-> @.ver + 1, by |-> Remote]]
  /\ changes' = Append(changes, [e |-> e, ver |-> server[e].ver + 1, by |-> Remote])
  /\ UNCHANGED <<receipts, sent, local, tabs, faults>>

\* A request nobody waits for any more (or a duplicate) arrives.
LateDelivery(c) ==
  /\ c \in sent
  /\ Accepts(c)
  /\ Apply(c)
  /\ UNCHANGED <<sent, local, tabs, faults>>

-----------------------------------------------------------------------------
(* The coordinator of tab t, in the order of cycle(). *)

Start(t) ==
  /\ pc[t] = "idle"
  /\ Goto(t, "pull")
  /\ scope' = [scope EXCEPT ![t] = binding]
  /\ UNCHANGED <<local, remote, phase, page, others, plan, todo, blocked, faults>>

PageRowsAfterNext(from, upTo) == {changes[k].e : k \in (from + 2) .. upTo}   \* mutant
PageRows(from, upTo) == {changes[k].e : k \in (from + 1) .. upTo}

\* transport.pull: the log entries after the cursor, with the rows as they are now.
PullPage(t) ==
  LET from == scope[t].cursor
      upTo == IF Len(changes) - from > PageSize THEN from + PageSize ELSE Len(changes)
  IN
  /\ pc[t] = "pull"
  /\ page' = [page EXCEPT ![t] =
       [upTo   |-> upTo,
        rows   |-> PageRows(from, upTo),
        values |-> server,
        more   |-> upTo < Len(changes)]]
  /\ Goto(t, "page")
  /\ UNCHANGED <<local, remote, phase, scope, others, plan, todo, blocked, faults>>

\* outbox.list: the rows a projection must leave to their pending edits.
ListPending(t) ==
  /\ pc[t] = "page"
  /\ others' = [others EXCEPT ![t] = Busy({})]
  /\ Goto(t, "project")
  /\ UNCHANGED <<local, remote, phase, scope, page, plan, todo, blocked, faults>>

\* A newer base than the one arriving is kept.
Newest(e, v) == IF base[e].ver > v.ver THEN base[e] ELSE v

KeepBlocked(t) == UNCHANGED blocked   \* mutant
Unblock(t) == blocked' = [blocked EXCEPT ![t] = {}]

\* After a page: the next page, the recovery of receipts, or the end of the cycle.
AfterPage(t) ==
  \/ /\ page[t].more
     /\ Goto(t, "pull")
     /\ scope' = [scope EXCEPT ![t] = binding']
     /\ UNCHANGED <<phase, plan, blocked>>
  \/ /\ ~page[t].more /\ phase[t] = "first"
     /\ Goto(t, "recover") /\ Enter(t, "recover")
     /\ plan' = [plan EXCEPT ![t] = [c \in Commands |->
          IF PlanState(c) = "RECEIPT_REQUIRED" THEN PlanState(c) ELSE "NONE"]]
     /\ UNCHANGED <<scope, blocked>>
  \/ /\ ~page[t].more /\ phase[t] = "final"
     /\ Goto(t, "idle") /\ Enter(t, "first")
     /\ scope' = [scope EXCEPT ![t] = [version |-> 0, cursor |-> 0]]
     /\ Unblock(t)
     /\ UNCHANGED plan

\* prepareLocalWorkPull has nothing to commit.
PullNothing(t) ==
  /\ pc[t] = "project" /\ page[t].rows = {}
  /\ UNCHANGED <<local, remote, todo, faults>>
  /\ AfterPage(t)
  /\ page' = [page EXCEPT ![t] = NoPage]
  /\ others' = [others EXCEPT ![t] = {}]

\* The guards of commitReplica: nothing was committed since the binding was
\* captured; no row is written that has another pending edit now.
AnyBinding(t) == TRUE   \* mutant
SameBinding(t) == binding = scope[t]

OverwritesPending(S, own) == TRUE   \* mutant
LeavesPending(S, own) == \A e \in S : Pending(e) \subseteq own

\* A base of the same version must be the same row.
AdvancesBase(e, v) == base[e].ver < v.ver   \* mutant
AgreesWithBase(e, v) == base[e].ver = v.ver => base[e] = v

\* What prepareLocalWorkPull and commitReplica check of a page.
PullGuard(t) ==
  LET shown == page[t].rows \ others[t] IN
  /\ SameBinding(t)
  /\ \A e \in page[t].rows : AgreesWithBase(e, page[t].values[e])
  /\ \A e \in shown :
       /\ base[e].ver > 0 \/ row[e].ver = 0
       /\ row[e].ver <= Newest(e, page[t].values[e]).ver
  /\ LeavesPending(shown, {})

\* replica.commit of a page: bases, the rows without pending edits, the cursor.
PullCommit(t) ==
  /\ pc[t] = "project" /\ page[t].rows # {}
  /\ PullGuard(t)
  /\ base' = [e \in Entities |->
       IF e \in page[t].rows THEN Newest(e, page[t].values[e]) ELSE base[e]]
  /\ row' = [e \in Entities |->
       IF e \in page[t].rows \ others[t] THEN base'[e] ELSE row[e]]
  /\ binding' = [version |-> binding.version + 1, cursor |-> page[t].upTo]
  /\ revision' = revision + 1
  /\ AfterPage(t)
  /\ page' = [page EXCEPT ![t] = NoPage]
  /\ others' = [others EXCEPT ![t] = {}]
  /\ UNCHANGED <<outbox, command, remote, todo, faults>>

PullThrow(t) ==
  /\ pc[t] = "project" /\ page[t].rows # {}
  /\ ~PullGuard(t)
  /\ Throw(t)

\* recoverLocalWorkReceipts: look up the attempted commands, never send.
RecoverLookup(t) ==
  /\ pc[t] = "recover"
  /\ \E c \in Planned(t) :
       /\ First(c, Planned(t))
       /\ IF c \in receipts
            THEN /\ Goto(t, "receipt")
                 /\ scope' = [scope EXCEPT ![t] = binding]
                 /\ UNCHANGED plan
            ELSE /\ Leave(t, c)
                 /\ UNCHANGED <<pc, scope>>
  /\ UNCHANGED <<local, remote, phase, page, others, todo, blocked, faults>>

\* The plans of this cycle are taken once.
PlanCycle(t) ==
  /\ pc[t] = "recover" /\ Planned(t) = {}
  /\ plan' = [plan EXCEPT ![t] = PlanLocalCommands]
  /\ todo' = [todo EXCEPT ![t] = Queued]
  /\ Goto(t, "rebase") /\ Enter(t, "plan")
  /\ scope' = [scope EXCEPT ![t] = [version |-> 0, cursor |-> 0]]
  /\ UNCHANGED <<local, remote, page, others, blocked, faults>>

MaybeSent(t, c) == plan[t][c] = "READY" /\ outbox[c] \in {"PENDING", "SENDING"}   \* mutant
NeverSent(t, c) == plan[t][c] = "READY" /\ outbox[c] = "PENDING"

\* prepareLocalPendingWorkRebase without a review: only a command that never
\* left this installation, alone on its row, still shown there.
Rebasable(t, c, e) ==
  /\ NeverSent(t, c)
  /\ Replaceable(c, e)
  /\ Pending(e) = {c}
  /\ row[e].by = c

\* The three-way merge is clean (Replace) or not (the command stays); which of
\* the two depends on field contents.
RebaseNext(t) ==
  /\ pc[t] = "rebase"
  /\ \E c \in todo[t] :
       /\ First(c, todo[t])
       /\ todo' = [todo EXCEPT ![t] = @ \ {c}]
       /\ \/ \E e \in Entities :
               /\ Rebasable(t, c, e)
               /\ Replace(c, e, {})
               /\ Enter(t, "replan")
          \/ UNCHANGED <<local, phase>>
  /\ UNCHANGED <<remote, pc, scope, page, others, plan, blocked, faults>>

RebaseDone(t) ==
  /\ pc[t] = "rebase" /\ todo[t] = {}
  /\ plan' = IF phase[t] = "replan" THEN [plan EXCEPT ![t] = PlanLocalCommands] ELSE plan
  /\ Goto(t, "send") /\ Enter(t, "send")
  /\ UNCHANGED <<local, remote, scope, page, others, todo, blocked, faults>>

\* A conflicted plan, or one that shares a row with a blocked plan, is skipped
\* and blocks its own rows.
SkipBlocked(t) ==
  /\ pc[t] = "send"
  /\ \E c \in Planned(t) :
       /\ First(c, Planned(t))
       /\ Rows(c) \cap blocked[t] # {} \/ plan[t][c] = "CONFLICT"
       /\ Block(t, c) /\ Leave(t, c)
  /\ UNCHANGED <<local, remote, pc, phase, scope, page, others, todo, faults>>

Sendable(t, c) ==
  pc[t] = "send" /\ First(c, Planned(t)) /\ Rows(c) \cap blocked[t] = {}

SendUnclaimed(c) == outbox' = outbox   \* mutant
Claim(c) == outbox' = [outbox EXCEPT ![c] = "SENDING"]

\* outbox.transitionMany PENDING -> SENDING is durable before the request leaves.
ClaimAndSend(t) ==
  \E c \in Planned(t) :
    /\ Sendable(t, c) /\ plan[t][c] = "READY"
    /\ IF outbox[c] = "PENDING"
         THEN /\ Claim(c)
              /\ sent' = sent \cup {c}
              /\ Goto(t, "await")
              /\ UNCHANGED <<row, base, command, revision, binding,
                             server, changes, receipts, phase, scope, page,
                             others, plan, todo, blocked, faults>>
         ELSE Throw(t)

\* An attempted command: its receipt first, the original request again without one.
LookupOrResend(t) ==
  \E c \in Planned(t) :
    /\ Sendable(t, c) /\ plan[t][c] = "RECEIPT_REQUIRED"
    /\ IF c \in receipts
         THEN Goto(t, "receipt") /\ UNCHANGED sent
         ELSE Goto(t, "await") /\ sent' = sent \cup {c}
    /\ UNCHANGED <<local, server, changes, receipts, phase, scope, page,
                   others, plan, todo, blocked, faults>>

\* The request is processed and its answer arrives: a receipt or VERSION_CONFLICT.
Answer(t) ==
  /\ pc[t] = "await"
  /\ \E c \in Planned(t) :
       /\ First(c, Planned(t))
       /\ Process(c)
       /\ Goto(t, IF c \in receipts' THEN "receipt" ELSE "refused")
  /\ UNCHANGED <<local, sent, phase, scope, page, others, plan, todo, blocked, faults>>

Discard(c) == outbox' = [outbox EXCEPT ![c] = "ABSENT"]   \* mutant
MarkConflict(c) == outbox' = [outbox EXCEPT ![c] = "CONFLICT"]

\* After VERSION_CONFLICT: the receipt again, and only without one CONFLICT.
Refused(t) ==
  /\ pc[t] = "refused"
  /\ \E c \in Planned(t) :
       /\ First(c, Planned(t))
       /\ \/ /\ c \in receipts
             /\ Goto(t, "receipt")
             /\ UNCHANGED <<local, phase, scope, page, others, plan, todo, blocked>>
          \/ /\ c \notin receipts /\ outbox[c] = "SENDING"
             /\ MarkConflict(c)
             /\ Block(t, c) /\ Leave(t, c) /\ Goto(t, "send")
             /\ UNCHANGED <<row, base, command, revision, binding, phase, scope, page,
                            others, todo>>
          \/ /\ c \notin receipts /\ outbox[c] # "SENDING"
             /\ Reset(t) /\ UNCHANGED local
  /\ UNCHANGED <<remote, faults>>

\* acceptedPlan: later plans on the same rows wait for the next cycle.
Accepted(t, c) ==
  /\ Leave(t, c)
  /\ IF phase[t] = "send"
       THEN /\ Goto(t, "send")
            /\ IF \E d \in Planned(t) \ {c} : Rows(d) \cap Rows(c) # {}
                 THEN Block(t, c)
                 ELSE UNCHANGED blocked
       ELSE Goto(t, "recover") /\ UNCHANGED blocked

\* With a receipt in hand the Outbox is listed again; a command another tab
\* acknowledged meanwhile is left alone.
ReceiptArrives(t) ==
  /\ pc[t] = "receipt"
  /\ \E c \in Planned(t) :
       /\ First(c, Planned(t))
       /\ IF outbox[c] = "ABSENT"
            THEN Accepted(t, c) /\ UNCHANGED others
            ELSE /\ Goto(t, "acknowledge")
                 /\ others' = [others EXCEPT ![t] = Busy({c})]
                 /\ UNCHANGED <<plan, blocked>>
  /\ UNCHANGED <<local, remote, phase, scope, page, todo, faults>>

\* The canonical rows of the receipt of c.
Effect(c, e) == [ver |-> command[c].base[e].ver + 1, by |-> c]

ShownToo(t, c) ==   \* mutant
  {e \in Rows(c) : row[e].ver <= Newest(e, Effect(c, e)).ver}

\* The rows the acknowledgement shows: no other pending edit, not newer locally.
Shown(t, c) ==
  {e \in Rows(c) \ others[t] : row[e].ver <= Newest(e, Effect(c, e)).ver}

\* What prepareLocalWorkReplayAcknowledgement and commitReplica check.
AckGuard(t, c) ==
  /\ outbox[c] = "SENDING"
  /\ phase[t] = "recover" => SameBinding(t)
  /\ \A e \in Rows(c) : AgreesWithBase(e, Effect(c, e))
  /\ LeavesPending(Shown(t, c), {c})

\* replica.commit of an acknowledgement: bases, rows and the Outbox together.
Acknowledge(t) ==
  /\ pc[t] = "acknowledge"
  /\ \E c \in Planned(t) :
       /\ First(c, Planned(t))
       /\ AckGuard(t, c)
       /\ base' = [e \in Entities |->
            IF e \in Rows(c) THEN Newest(e, Effect(c, e)) ELSE base[e]]
       /\ row' = [e \in Entities |-> IF e \in Shown(t, c) THEN base'[e] ELSE row[e]]
       /\ outbox' = [outbox EXCEPT ![c] = "ABSENT"]
       /\ Accepted(t, c)
  /\ binding' = [binding EXCEPT !.version = @ + 1]
  /\ revision' = revision + 1
  /\ others' = [others EXCEPT ![t] = {}]
  /\ UNCHANGED <<command, remote, phase, scope, page, todo, faults>>

AcknowledgeThrow(t) ==
  /\ pc[t] = "acknowledge"
  /\ \E c \in Planned(t) : First(c, Planned(t)) /\ ~AckGuard(t, c)
  /\ Throw(t)

SendDone(t) ==
  /\ pc[t] = "send" /\ Planned(t) = {}
  /\ Goto(t, "pull") /\ Enter(t, "final")
  /\ scope' = [scope EXCEPT ![t] = binding]
  /\ UNCHANGED <<local, remote, page, others, plan, todo, blocked, faults>>

\* A request or its answer is lost, the tab is closed or the process dies: what
\* the coordinator held in memory is gone, what IndexedDB committed stays.
Fault(t) ==
  /\ pc[t] # "idle"
  /\ faults < MaxFaults
  /\ faults' = faults + 1
  /\ Reset(t)
  /\ UNCHANGED <<local, remote>>

-----------------------------------------------------------------------------

Init ==
  /\ server = [e \in Entities |->
       IF e \in Existing THEN [ver |-> 1, by |-> Remote] ELSE Unseen]
  /\ row = server
  /\ base = server
  /\ outbox = [c \in Commands |-> "ABSENT"]
  /\ command = [c \in Commands |-> NoCommand]
  /\ revision = 1
  /\ binding = [version |-> 1, cursor |-> 0]
  /\ changes = << >>
  /\ receipts = {}
  /\ sent = {}
  /\ pc = [t \in Tabs |-> "idle"]
  /\ phase = [t \in Tabs |-> "first"]
  /\ scope = [t \in Tabs |-> [version |-> 0, cursor |-> 0]]
  /\ page = [t \in Tabs |-> NoPage]
  /\ others = [t \in Tabs |-> {}]
  /\ plan = [t \in Tabs |-> NoPlan]
  /\ todo = [t \in Tabs |-> {}]
  /\ blocked = [t \in Tabs |-> {}]
  /\ faults = 0

Coordinate(t) ==
  \/ Start(t) \/ PullPage(t) \/ ListPending(t)
  \/ PullNothing(t) \/ PullCommit(t) \/ PullThrow(t)
  \/ RecoverLookup(t) \/ PlanCycle(t) \/ RebaseNext(t) \/ RebaseDone(t)
  \/ SkipBlocked(t) \/ ClaimAndSend(t) \/ LookupOrResend(t)
  \/ Answer(t) \/ Refused(t)
  \/ ReceiptArrives(t) \/ Acknowledge(t) \/ AcknowledgeThrow(t)
  \/ SendDone(t)

Next ==
  \/ \E i \in Intents : CommitLocalCommand(i)
  \/ \E c \in Commands, e \in Entities : ReviewConflict(c, e)
  \/ \E e \in Entities : RemoteWrite(e)
  \/ \E c \in Commands : LateDelivery(c)
  \/ \E t \in Tabs : Coordinate(t) \/ Fault(t)

Spec == Init /\ [][Next]_vars

\* The scheduler of a tab always arms its next cycle (30 s, or a back-off after
\* a failure), and a coordinator runs whatever promise settles.
FairSpec == Spec /\ \A t \in Tabs : WF_vars(Coordinate(t))
\* A user who resolves every conflict that is offered for review.
ReviewingSpec == FairSpec /\ WF_vars(\E c \in Commands, e \in Entities : ReviewConflict(c, e))

-----------------------------------------------------------------------------
(* What the installation promises its user. *)

\* The edits the server has: the authors its change log names.
Applied == {c \in Commands : \E k \in DOMAIN changes : changes[k].by = c}

\* Every edit reaches the server at most once, whatever is retried, rebased,
\* reviewed or sent by two tabs: of all the commands that ever carried it, at
\* most one was applied, and that one wrote each of its rows once.
EditAppliedOnce ==
  /\ \A c, d \in Applied : c[1] = d[1] => c = d
  /\ \A j, k \in DOMAIN changes :
       changes[j].by \in Commands /\ changes[j].by = changes[k].by
       /\ changes[j].e = changes[k].e => j = k

\* The server once held version x of row e.
Held(e, x) ==
  \/ e \in Existing /\ x = [ver |-> 1, by |-> Remote]
  \/ \E k \in DOMAIN changes :
       changes[k].e = e /\ changes[k].ver = x.ver /\ changes[k].by = x.by

\* No silent last-write-wins: the server applied a command only over the very
\* row its author had edited, version and content.
NoLostUpdate ==
  \A k \in DOMAIN changes :
    LET x == changes[k] IN
    x.by # Remote =>
      /\ command[x.by].base[x.e].ver = x.ver - 1
      /\ x.ver > 1 => Held(x.e, command[x.by].base[x.e])

\* An edit is never dropped: it waits in the Outbox or the server has it; and it
\* never waits in two commands at once.
EditNeverDropped ==
  \A i \in Intents :
    command[<<i, 0>>].order > 0 =>
      /\ \E c \in Queued \cup Applied : c[1] = i
      /\ \A c, d \in Queued : c[1] = i /\ d[1] = i => c = d

\* The row shown is the user's last unsynchronised edit, or without one the
\* canonical row: a pull or an acknowledgement never paints over a newer edit.
NewestEditShown ==
  \A e \in Entities :
    IF Pending(e) = {} THEN row[e] = base[e] ELSE Latest(e, row[e].by)

\* The cursor never passes a change the installation has not taken over, and a
\* canonical base is a row the server really had.
CursorCoversChanges ==
  /\ \A k \in 1 .. binding.cursor : base[changes[k].e].ver >= changes[k].ver
  /\ \A e \in Entities : base[e].ver > 0 => Held(e, base[e])

\* The cursor and the canonical bases only move forward, however stale the page
\* or the receipt that moves them.
NeverBackwards ==
  [][/\ binding'.cursor >= binding.cursor
     /\ \A e \in Entities : base'[e].ver >= base[e].ver]_vars

\* The fate of an edit, whichever of its commands carries it.
Stage(i) ==
  LET states == {outbox[c] : c \in {i} \X (0 .. MaxReplace)} IN
  IF command[<<i, 0>>].order = 0 THEN "none"
  ELSE IF "PENDING" \in states THEN "waiting"
  ELSE IF "SENDING" \in states THEN "attempted"
  ELSE IF "CONFLICT" \in states THEN "refused"
  ELSE "settled"

Ledger == INSTANCE EditLedger WITH
  Edits   <- Intents,
  stage   <- [i \in Intents |-> Stage(i)],
  applied <- {c[1] : c \in Applied}

\* Tabs, retries, rebases, reviews and the server together keep the ledger of
\* edits: an edit is applied only while it is attempted, leaves the Outbox only
\* when applied, and is offered for review only when it is not.
KeepsLedger == Ledger!Spec

\* Once the rest is quiet every attempted command is settled: acknowledged or
\* handed to the user as a conflict; nothing is SENDING forever.
SendingSettles ==
  \A c \in Commands : outbox[c] = "SENDING" ~> outbox[c] # "SENDING"

\* Every command ends acknowledged or replaced, in conflict, or behind a conflict on one of
\* its rows (directly or through other waiting commands).
Behind(c) ==
  \E d \in Queued : outbox[d] = "CONFLICT" /\
    \/ Rows(c) \cap Rows(d) # {}
    \/ \E x \in Queued : Rows(c) \cap Rows(x) # {} /\ Rows(x) \cap Rows(d) # {}
PendingSettles ==
  \A c \in Commands : outbox[c] = "PENDING" ~> (outbox[c] = "ABSENT" \/ Behind(c))

\* Changes of other devices arrive: the installation catches up with the log.
CatchesUp == <>[](binding.cursor = Len(changes))

\* docs/adr/0107-pending-work-rebase.md:13: "After explicit predecessor
\* resolution, successors either synchronize normally or receive their own
\* conflict review."  With a user who resolves every conflict offered, no
\* single-row edit waits unsent forever.
SuccessorsProceed ==
  \A c \in Commands : Singleton(c) /\ outbox[c] = "PENDING" ~> outbox[c] # "PENDING"

-----------------------------------------------------------------------------
(* Why no edit is dropped: the inductive strengthening of EditNeverDropped. *)

DistinctOrders(S) ==
  \A c, d \in S : command[c].order = command[d].order => c = d

\* A queued command is the last generation of its edit, and has its own place.
QueueOK ==
  /\ DistinctOrders(Queued)
  /\ \A c \in Queued :
       /\ 0 < command[c].order /\ command[c].order <= revision
       /\ \A d \in Commands : d[1] = c[1] /\ d[2] > c[2] => command[d].order = 0

\* A replacement descends from a recorded edit.
OriginOK ==
  \A c \in Commands : command[c].order > 0 => command[<<c[1], 0>>].order > 0

\* What a tab planned was queued once, in an order that never changes.
PlansOK ==
  \A t \in Tabs :
    /\ DistinctOrders(Planned(t))
    /\ \A c \in Planned(t) : command[c].order > 0

\* A receipt is only found for an applied command, and a tab that holds a
\* receipt holds that of its next planned command.
ReceiptsOK ==
  /\ receipts \subseteq Applied
  /\ \A t \in Tabs, c \in Commands :
       pc[t] \in {"receipt", "acknowledge"} /\ First(c, Planned(t)) => c \in receipts

EditKept ==
  \A i \in Intents :
    command[<<i, 0>>].order > 0 => \E c \in Queued \cup Applied : c[1] = i

NeverDroppedInv ==
  TypeOK /\ QueueOK /\ OriginOK /\ PlansOK /\ ReceiptsOK /\ EditKept
=============================================================================
