------------------------ MODULE LocalWorkSync_proofs ------------------------
(***************************************************************************)
(* Facts of LocalWorkSync that hold for any rows, edits, tabs and bounds:  *)
(* the types, and that no edit is dropped (NeverDroppedInv is inductive    *)
(* and implies EditNeverDropped).                                          *)
(***************************************************************************)
EXTENDS LocalWorkSync, SequenceTheorems, FiniteSetTheorems, TLAPS

-----------------------------------------------------------------------------
(* Types of the pieces the actions are built from. *)

LEMMA TargetsType == ASSUME NEW c \in Commands PROVE Rows(c) \in SUBSET Entities
BY TargetsAssumption DEF Rows, Commands

LEMMA UnseenType == Unseen \in Versions
BY DEF Unseen, Versions, Authors

LEMMA NoPageType ==
  NoPage \in [upTo : Nat, rows : SUBSET Entities, values : [Entities -> Versions],
              more : BOOLEAN]
BY UnseenType DEF NoPage

LEMMA NoPlanType == NoPlan \in [Commands -> PlanStates]
BY DEF NoPlan, PlanStates

LEMMA PlansType ==
  /\ PlanLocalCommands \in [Commands -> PlanStates]
  /\ \A c \in Commands : PlanState(c) \in PlanStates
BY DEF PlanLocalCommands, PlanState, PlanStates

LEMMA NewestType ==
  ASSUME LocalOK, NEW e \in Entities, NEW v \in Versions
  PROVE  Newest(e, v) \in Versions
BY DEF LocalOK, Newest

LEMMA EffectType ==
  ASSUME LocalOK, NEW c \in Commands, NEW e \in Entities
  PROVE  Effect(c, e) \in Versions
<1>1. command[c].base[e] \in Versions
  BY DEF LocalOK
<1> QED BY <1>1 DEF Effect, Versions, Authors

LEMMA FirstType ==
  ASSUME TabsOK, NEW t \in Tabs
  PROVE  Planned(t) \in SUBSET Commands
BY DEF Planned

LEMMA BusyType == ASSUME NEW S PROVE Busy(S) \in SUBSET Entities
BY DEF Busy

LEMMA BlockType ==
  ASSUME TabsOK, NEW t \in Tabs, NEW c \in Commands, Block(t, c)
  PROVE  blocked' \in [Tabs -> SUBSET Entities]
<1>1. blocked[t] \cup Rows(c) \in SUBSET Entities
  BY TargetsType DEF TabsOK
<1> QED BY <1>1 DEF Block, TabsOK

LEMMA LeaveType ==
  ASSUME TabsOK, NEW t \in Tabs, NEW c \in Commands, Leave(t, c)
  PROVE  plan' \in [Tabs -> [Commands -> PlanStates]]
<1>1. [plan[t] EXCEPT ![c] = "NONE"] \in [Commands -> PlanStates]
  BY DEF TabsOK, PlanStates
<1>2. plan' = [plan EXCEPT ![t] = [plan[t] EXCEPT ![c] = "NONE"]]
  BY DEF Leave, TabsOK
<1> QED BY <1>1, <1>2 DEF TabsOK

LEMMA ResetType ==
  ASSUME TabsOK, NEW t \in Tabs, Reset(t)
  PROVE  TabsOK'
BY NoPageType, NoPlanType DEF TabsOK, Reset

\* The invariant only depends on the variables of its part.
LEMMA Frame ==
  /\ LocalOK /\ UNCHANGED local => LocalOK'
  /\ RemoteOK /\ UNCHANGED remote => RemoteOK'
  /\ TabsOK /\ UNCHANGED tabs => TabsOK'
<1>1. LocalOK /\ UNCHANGED local => LocalOK'
  BY DEF LocalOK, local
<1>2. RemoteOK /\ UNCHANGED remote => RemoteOK'
  BY DEF RemoteOK, remote
<1>3. TabsOK /\ UNCHANGED tabs => TabsOK'
  BY DEF TabsOK, tabs
<1> QED BY <1>1, <1>2, <1>3

LEMMA InitType == Init => TypeOK
<1> SUFFICES ASSUME Init PROVE TypeOK
  OBVIOUS
<1>1. server \in [Entities -> Versions]
  BY UnseenType DEF Init, Versions, Authors
<1>2. LocalOK
  BY <1>1, UnseenType DEF Init, LocalOK, NoCommand
<1>3. RemoteOK
  BY <1>1 DEF Init, RemoteOK
<1>4. TabsOK
  BY NoPageType, NoPlanType DEF Init, TabsOK
<1> QED BY <1>2, <1>3, <1>4 DEF TypeOK, Init

-----------------------------------------------------------------------------
(* The user and the server. *)

LEMMA ReplaceType ==
  ASSUME LocalOK, NEW c \in Commands, NEW e \in Entities, NEW F,
         c[2] < MaxReplace, Replace(c, e, F)
  PROVE  LocalOK'
<1> DEFINE d == <<c[1], c[2] + 1>>
<1>1. d \in Commands
  BY BoundsAssumption DEF Commands
<1>2. [x \in Entities |-> IF x = e THEN base[e] ELSE Unseen] \in [Entities -> Versions]
  BY UnseenType DEF LocalOK
<1>3. ReplacementOrder(c, F) \in Nat
  BY DEF ReplacementOrder, LocalOK
<1>4. command' \in [Commands -> [base : [Entities -> Versions], order : Nat]]
  BY <1>1, <1>2, <1>3 DEF Replace, LocalOK
<1>5. [ver |-> base[e].ver + 1, by |-> d] \in Versions
  BY <1>1 DEF LocalOK, Versions, Authors
<1>6. row' \in [Entities -> Versions]
  BY <1>5 DEF Replace, LocalOK
<1>7. outbox' \in [Commands -> {"ABSENT", "PENDING", "SENDING", "CONFLICT"}]
  BY <1>1 DEF Replace, LocalOK
<1>8. base' = base /\ binding' = binding /\ revision' = revision + 1
  BY DEF Replace
<1> HIDE DEF d
<1> QED BY <1>4, <1>6, <1>7, <1>8 DEF LocalOK

LEMMA CommitLocalCommandType ==
  ASSUME TypeOK, NEW i \in Intents, CommitLocalCommand(i)
  PROVE  TypeOK'
<1> DEFINE c == <<i, 0>>
<1>1. c \in Commands
  BY BoundsAssumption DEF Commands
<1>2. [e \in Entities |-> IF e \in Rows(c) THEN row[e] ELSE Unseen]
        \in [Entities -> Versions]
  BY UnseenType DEF TypeOK, LocalOK
<1> HIDE DEF c
<1>3. command' \in [Commands -> [base : [Entities -> Versions], order : Nat]]
  <2>1. command' = [command EXCEPT ![c] =
          [base |-> [e \in Entities |-> IF e \in Rows(c) THEN row[e] ELSE Unseen],
           order |-> revision + 1]]
    BY DEF CommitLocalCommand, c
  <2> QED BY <1>1, <1>2, <2>1 DEF TypeOK, LocalOK
<1>4. row' \in [Entities -> Versions]
  BY <1>1 DEF CommitLocalCommand, c, TypeOK, LocalOK, Versions, Authors
<1>5. LocalOK'
  BY <1>1, <1>3, <1>4 DEF CommitLocalCommand, c, TypeOK, LocalOK
<1> QED BY <1>5, Frame DEF CommitLocalCommand, TypeOK

LEMMA ReviewConflictType ==
  ASSUME TypeOK, NEW c \in Commands, NEW e \in Entities, ReviewConflict(c, e)
  PROVE  TypeOK'
<1>1. LocalOK'
  BY ReplaceType DEF ReviewConflict, Replaceable, TypeOK
<1> QED BY <1>1, Frame DEF ReviewConflict, TypeOK

LEMMA ApplyType ==
  ASSUME RemoteOK, NEW c \in Commands, Apply(c), UNCHANGED sent
  PROVE  RemoteOK'
<1> DEFINE Entry == [e : Entities, ver : Nat, by : Authors]
<1>1. server' \in [Entities -> Versions]
  BY DEF Apply, RemoteOK, Versions, Authors
<1>2. PICK s \in [1 .. Cardinality(Rows(c)) -> Rows(c)] :
        changes' = changes \o
          [k \in DOMAIN s |-> [e |-> s[k], ver |-> server[s[k]].ver + 1, by |-> c]]
  BY DEF Apply
<1>3. Cardinality(Rows(c)) \in Nat
  BY EntitiesAssumption, TargetsType, FS_Subset, FS_CardinalityType
<1>4. \A k \in DOMAIN s : [e |-> s[k], ver |-> server[s[k]].ver + 1, by |-> c] \in Entry
  BY TargetsType DEF RemoteOK, Versions, Authors
<1>5. [k \in DOMAIN s |-> [e |-> s[k], ver |-> server[s[k]].ver + 1, by |-> c]] \in Seq(Entry)
  <2> DEFINE f == [k \in DOMAIN s |-> [e |-> s[k], ver |-> server[s[k]].ver + 1, by |-> c]]
  <2>1. DOMAIN s = 1 .. Cardinality(Rows(c))
    OBVIOUS
  <2>2. f \in [1 .. Cardinality(Rows(c)) -> Entry]
    BY <1>4, <2>1
  <2> HIDE DEF f, Entry
  <2>3. f \in Seq(Entry)
    BY <1>3, <2>2, SeqDef
  <2> QED BY <2>3 DEF f
<1>6. changes' \in Seq(Entry)
  BY <1>2, <1>5, ConcatProperties DEF RemoteOK
<1> QED BY <1>1, <1>6 DEF Apply, StoreReceipt, RemoteOK

LEMMA ProcessType ==
  ASSUME RemoteOK, NEW c \in Commands, Process(c), UNCHANGED sent
  PROVE  RemoteOK'
<1>1. CASE Accepts(c)
  BY <1>1, ApplyType DEF Process
<1>2. CASE ~Accepts(c)
  BY <1>2, Frame DEF Process, remote
<1> QED BY <1>1, <1>2

LEMMA RemoteWriteType ==
  ASSUME TypeOK, NEW e \in Entities, RemoteWrite(e)
  PROVE  TypeOK'
<1> DEFINE Entry == [e : Entities, ver : Nat, by : Authors]
<1>1. server' \in [Entities -> Versions]
  BY DEF RemoteWrite, TypeOK, RemoteOK, Versions, Authors
<1>2. [e |-> e, ver |-> server[e].ver + 1, by |-> Remote] \in Entry
  BY DEF TypeOK, RemoteOK, Versions, Authors
<1>3. changes' \in Seq(Entry)
  BY <1>2, AppendProperties DEF RemoteWrite, TypeOK, RemoteOK
<1>4. RemoteOK'
  BY <1>1, <1>3 DEF RemoteWrite, TypeOK, RemoteOK
<1> QED BY <1>4, Frame DEF RemoteWrite, TypeOK

LEMMA LateDeliveryType ==
  ASSUME TypeOK, NEW c \in Commands, LateDelivery(c)
  PROVE  TypeOK'
<1>1. RemoteOK'
  BY ApplyType DEF LateDelivery, TypeOK
<1> QED BY <1>1, Frame DEF LateDelivery, TypeOK

-----------------------------------------------------------------------------
(* The coordinator of tab t. *)

LEMMA ThrowType ==
  ASSUME TypeOK, NEW t \in Tabs, Throw(t)
  PROVE  TypeOK'
BY ResetType, Frame DEF Throw, TypeOK

LEMMA AfterPageType ==
  ASSUME TypeOK, NEW t \in Tabs, LocalOK', AfterPage(t),
         page' = [page EXCEPT ![t] = NoPage], others' = [others EXCEPT ![t] = {}],
         UNCHANGED todo
  PROVE  TabsOK'
<1>1. page' \in [Tabs -> [upTo : Nat, rows : SUBSET Entities,
                          values : [Entities -> Versions], more : BOOLEAN]]
  BY NoPageType DEF TypeOK, TabsOK
<1>2. others' \in [Tabs -> SUBSET Entities] /\ todo' \in [Tabs -> SUBSET Commands]
  BY DEF TypeOK, TabsOK
<1>3. plan' \in [Tabs -> [Commands -> PlanStates]]
  <2>1. [c \in Commands |-> IF PlanState(c) = "RECEIPT_REQUIRED" THEN PlanState(c) ELSE "NONE"]
          \in [Commands -> PlanStates]
    BY PlansType DEF PlanStates
  <2> QED BY <2>1 DEF AfterPage, TypeOK, TabsOK
<1>4. scope' \in [Tabs -> [version : Nat, cursor : Nat]]
  <2>1. binding' \in [version : Nat, cursor : Nat]
    BY DEF LocalOK
  <2> QED BY <2>1 DEF AfterPage, TypeOK, TabsOK
<1>5. blocked' \in [Tabs -> SUBSET Entities]
  BY DEF AfterPage, Unblock, TypeOK, TabsOK
<1>6. /\ pc' \in [Tabs -> {"idle", "pull", "page", "project", "recover", "rebase",
                           "send", "await", "refused", "receipt", "acknowledge"}]
      /\ phase' \in [Tabs -> {"first", "recover", "plan", "replan", "send", "final"}]
  BY DEF AfterPage, Goto, Enter, TypeOK, TabsOK
<1> QED BY <1>1, <1>2, <1>3, <1>4, <1>5, <1>6 DEF TabsOK

LEMMA AcceptedType ==
  ASSUME TabsOK, NEW t \in Tabs, NEW c \in Commands, Accepted(t, c)
  PROVE  /\ plan' \in [Tabs -> [Commands -> PlanStates]]
         /\ blocked' \in [Tabs -> SUBSET Entities]
         /\ pc' \in [Tabs -> {"idle", "pull", "page", "project", "recover", "rebase",
                             "send", "await", "refused", "receipt", "acknowledge"}]
<1>1. plan' \in [Tabs -> [Commands -> PlanStates]]
  BY LeaveType DEF Accepted
<1>2. blocked' \in [Tabs -> SUBSET Entities]
  BY BlockType DEF Accepted, TabsOK
<1>3. pc' \in [Tabs -> {"idle", "pull", "page", "project", "recover", "rebase",
                       "send", "await", "refused", "receipt", "acknowledge"}]
  BY DEF Accepted, Goto, TabsOK
<1> QED BY <1>1, <1>2, <1>3

LEMMA PullPageType ==
  ASSUME TypeOK, NEW t \in Tabs, PullPage(t)
  PROVE  TypeOK'
<1> DEFINE from == scope[t].cursor
           upTo == IF Len(changes) - from > PageSize THEN from + PageSize ELSE Len(changes)
<1>1. from \in Nat /\ upTo \in Nat /\ upTo <= Len(changes)
  BY BoundsAssumption, LenProperties DEF TypeOK, TabsOK, RemoteOK
<1>2. PageRows(from, upTo) \in SUBSET Entities
  <2>1. changes \in [1 .. Len(changes) -> [e : Entities, ver : Nat, by : Authors]]
    BY LenProperties DEF TypeOK, RemoteOK
  <2>2. Len(changes) \in Nat
    BY LenProperties DEF TypeOK, RemoteOK
  <2> HIDE DEF from, upTo
  <2> QED BY <1>1, <2>1, <2>2 DEF PageRows
<1>3. page' = [page EXCEPT ![t] = [upTo |-> upTo, rows |-> PageRows(from, upTo),
                                   values |-> server, more |-> upTo < Len(changes)]]
  BY DEF PullPage
<1> HIDE DEF from, upTo
<1>4. (upTo < Len(changes)) \in BOOLEAN
  OBVIOUS
<1>5. page' \in [Tabs -> [upTo : Nat, rows : SUBSET Entities,
                          values : [Entities -> Versions], more : BOOLEAN]]
  BY <1>1, <1>2, <1>3, <1>4 DEF TypeOK, TabsOK, RemoteOK
<1>6. TabsOK'
  BY <1>5 DEF PullPage, Goto, TypeOK, TabsOK
<1> QED BY <1>6, Frame DEF PullPage, TypeOK

LEMMA PullCommitType ==
  ASSUME TypeOK, NEW t \in Tabs, PullCommit(t)
  PROVE  TypeOK'
<1>1. page[t].values \in [Entities -> Versions] /\ page[t].upTo \in Nat
  BY DEF TypeOK, TabsOK
<1>2. base' \in [Entities -> Versions]
  BY <1>1, NewestType DEF PullCommit, TypeOK, LocalOK
<1>3. row' \in [Entities -> Versions]
  BY <1>2 DEF PullCommit, TypeOK, LocalOK
<1>4. binding' \in [version : Nat, cursor : Nat]
  BY <1>1 DEF PullCommit, TypeOK, LocalOK
<1>5. LocalOK'
  BY <1>2, <1>3, <1>4 DEF PullCommit, TypeOK, LocalOK
<1>6. TabsOK'
  BY <1>5, AfterPageType DEF PullCommit
<1> QED BY <1>5, <1>6, Frame DEF PullCommit, TypeOK

LEMMA RebaseNextType ==
  ASSUME TypeOK, NEW t \in Tabs, RebaseNext(t)
  PROVE  TypeOK'
<1>1. PICK c \in todo[t] :
        /\ todo' = [todo EXCEPT ![t] = @ \ {c}]
        /\ \/ \E e \in Entities :
                Rebasable(t, c, e) /\ Replace(c, e, {}) /\ Enter(t, "replan")
           \/ UNCHANGED <<local, phase>>
  BY DEF RebaseNext
<1>2. c \in Commands
  BY DEF TypeOK, TabsOK
<1>3. LocalOK'
  BY <1>1, <1>2, ReplaceType, Frame DEF Rebasable, Replaceable, TypeOK
<1>4. TabsOK'
  BY <1>1 DEF RebaseNext, Enter, TypeOK, TabsOK
<1> QED BY <1>3, <1>4, Frame DEF RebaseNext, TypeOK

LEMMA AcknowledgeType ==
  ASSUME TypeOK, NEW t \in Tabs, Acknowledge(t)
  PROVE  TypeOK'
<1>1. PICK c \in Planned(t) :
        /\ base' = [e \in Entities |->
             IF e \in Rows(c) THEN Newest(e, Effect(c, e)) ELSE base[e]]
        /\ row' = [e \in Entities |-> IF e \in Shown(t, c) THEN base'[e] ELSE row[e]]
        /\ outbox' = [outbox EXCEPT ![c] = "ABSENT"]
        /\ Accepted(t, c)
  BY DEF Acknowledge
<1>2. c \in Commands
  BY DEF Planned
<1>3. base' \in [Entities -> Versions]
  BY <1>1, <1>2, NewestType, EffectType DEF TypeOK, LocalOK
<1>4. row' \in [Entities -> Versions]
  BY <1>1, <1>3 DEF TypeOK, LocalOK
<1>5. LocalOK'
  <2>1. outbox' \in [Commands -> {"ABSENT", "PENDING", "SENDING", "CONFLICT"}]
    BY <1>1, <1>2 DEF TypeOK, LocalOK
  <2>2. binding' \in [version : Nat, cursor : Nat]
    BY DEF Acknowledge, TypeOK, LocalOK
  <2>3. UNCHANGED command /\ revision' \in Nat
    BY DEF Acknowledge, TypeOK, LocalOK
  <2> QED BY <1>3, <1>4, <2>1, <2>2, <2>3 DEF TypeOK, LocalOK
<1>6. TabsOK'
  BY <1>1, <1>2, AcceptedType DEF Acknowledge, TypeOK, TabsOK
<1> QED BY <1>5, <1>6, Frame DEF Acknowledge, TypeOK

LEMMA CoordinateType ==
  ASSUME TypeOK, NEW t \in Tabs, Coordinate(t)
  PROVE  TypeOK'
<1> USE DEF TypeOK
<1>1. CASE Start(t)
  <2>1. TabsOK'
    BY <1>1 DEF Start, Goto, TabsOK, LocalOK
  <2> QED BY <1>1, <2>1, Frame DEF Start
<1>2. CASE PullPage(t)
  BY <1>2, PullPageType
<1>3. CASE ListPending(t)
  <2>1. TabsOK'
    BY <1>3 DEF ListPending, Goto, Busy, TabsOK
  <2> QED BY <1>3, <2>1, Frame DEF ListPending
<1>4. CASE PullNothing(t)
  <2>1. LocalOK'
    BY <1>4, Frame DEF PullNothing
  <2>2. TabsOK'
    BY <1>4, <2>1, AfterPageType DEF PullNothing
  <2> QED BY <1>4, <2>1, <2>2, Frame DEF PullNothing
<1>5. CASE PullCommit(t)
  BY <1>5, PullCommitType
<1>6. CASE PullThrow(t)
  BY <1>6, ThrowType DEF PullThrow
<1>7. CASE RecoverLookup(t)
  <2>1. TabsOK'
    <3>1. PICK c \in Planned(t) :
            \/ /\ Goto(t, "receipt")
               /\ scope' = [scope EXCEPT ![t] = binding]
               /\ UNCHANGED plan
            \/ Leave(t, c) /\ UNCHANGED <<pc, scope>>
      BY <1>7 DEF RecoverLookup
    <3>2. plan' \in [Tabs -> [Commands -> PlanStates]]
      BY <3>1, LeaveType DEF Planned, TabsOK
    <3>3. UNCHANGED <<phase, page, others, todo, blocked>>
      BY <1>7 DEF RecoverLookup
    <3>4. scope' \in [Tabs -> [version : Nat, cursor : Nat]]
      BY <3>1 DEF TabsOK, LocalOK
    <3> QED BY <3>1, <3>2, <3>3, <3>4 DEF Goto, TabsOK
  <2> QED BY <1>7, <2>1, Frame DEF RecoverLookup
<1>8. CASE PlanCycle(t)
  <2>1. TabsOK'
    BY <1>8, PlansType DEF PlanCycle, Goto, Enter, Queued, TabsOK
  <2> QED BY <1>8, <2>1, Frame DEF PlanCycle
<1>9. CASE RebaseNext(t)
  BY <1>9, RebaseNextType
<1>10. CASE RebaseDone(t)
  <2>1. TabsOK'
    BY <1>10, PlansType DEF RebaseDone, Goto, Enter, TabsOK
  <2> QED BY <1>10, <2>1, Frame DEF RebaseDone
<1>11. CASE SkipBlocked(t)
  <2>1. TabsOK'
    BY <1>11, BlockType, LeaveType DEF SkipBlocked, Planned, TabsOK
  <2> QED BY <1>11, <2>1, Frame DEF SkipBlocked
<1>12. CASE ClaimAndSend(t)
  <2>1. PICK c \in Planned(t) :
          IF outbox[c] = "PENDING"
            THEN /\ Claim(c) /\ sent' = sent \cup {c} /\ Goto(t, "await")
                 /\ UNCHANGED <<row, base, command, revision, binding,
                                server, changes, receipts, phase, scope, page,
                                others, plan, todo, blocked, faults>>
            ELSE Throw(t)
    BY <1>12 DEF ClaimAndSend
  <2>2. c \in Commands
    BY DEF Planned
  <2>3. CASE outbox[c] = "PENDING"
    <3>1. LocalOK'
      BY <2>1, <2>2, <2>3 DEF Claim, LocalOK
    <3>2. RemoteOK'
      BY <2>1, <2>2, <2>3 DEF RemoteOK
    <3>3. TabsOK'
      BY <2>1, <2>2, <2>3 DEF Goto, TabsOK
    <3> QED BY <2>1, <2>3, <3>1, <3>2, <3>3
  <2>4. CASE outbox[c] # "PENDING"
    BY <2>1, <2>4, ThrowType
  <2> QED BY <2>3, <2>4
<1>13. CASE LookupOrResend(t)
  <2>1. RemoteOK'
    BY <1>13 DEF LookupOrResend, Planned, RemoteOK
  <2>2. TabsOK'
    BY <1>13 DEF LookupOrResend, Goto, TabsOK
  <2> QED BY <1>13, <2>1, <2>2, Frame DEF LookupOrResend
<1>14. CASE Answer(t)
  <2>1. PICK c \in Planned(t) :
          Process(c) /\ Goto(t, IF c \in receipts' THEN "receipt" ELSE "refused")
    BY <1>14 DEF Answer
  <2>2. RemoteOK'
    BY <1>14, <2>1, ProcessType DEF Answer, Planned
  <2>3. TabsOK'
    BY <1>14, <2>1 DEF Answer, Goto, TabsOK
  <2> QED BY <1>14, <2>2, <2>3, Frame DEF Answer
<1>15. CASE Refused(t)
  <2>1. PICK c \in Planned(t) :
          \/ /\ Goto(t, "receipt")
             /\ UNCHANGED <<local, phase, scope, page, others, plan, todo, blocked>>
          \/ /\ MarkConflict(c)
             /\ Block(t, c) /\ Leave(t, c) /\ Goto(t, "send")
             /\ UNCHANGED <<row, base, command, revision, binding, phase, scope, page,
                            others, todo>>
          \/ Reset(t) /\ UNCHANGED local
    BY <1>15 DEF Refused
  <2>2. c \in Commands
    BY DEF Planned
  <2>3. LocalOK'
    BY <2>1, <2>2, Frame DEF MarkConflict, LocalOK
  <2>4. TabsOK'
    <3>1. CASE Reset(t)
      BY <3>1, ResetType
    <3>2. CASE /\ Goto(t, "receipt")
               /\ UNCHANGED <<local, phase, scope, page, others, plan, todo, blocked>>
      BY <3>2 DEF Goto, TabsOK
    <3>3. CASE /\ Block(t, c) /\ Leave(t, c) /\ Goto(t, "send")
               /\ UNCHANGED <<phase, scope, page, others, todo>>
      BY <2>2, <3>3, BlockType, LeaveType DEF Goto, TabsOK
    <3> QED BY <2>1, <3>1, <3>2, <3>3
  <2> QED BY <1>15, <2>3, <2>4, Frame DEF Refused
<1>16. CASE ReceiptArrives(t)
  <2>1. PICK c \in Planned(t) :
          IF outbox[c] = "ABSENT"
            THEN Accepted(t, c) /\ UNCHANGED others
            ELSE /\ Goto(t, "acknowledge")
                 /\ others' = [others EXCEPT ![t] = Busy({c})]
                 /\ UNCHANGED <<plan, blocked>>
    BY <1>16 DEF ReceiptArrives
  <2>2. c \in Commands
    BY DEF Planned
  <2>3. TabsOK'
    <3>1. UNCHANGED <<phase, scope, page, todo>>
      BY <1>16 DEF ReceiptArrives
    <3>2. CASE outbox[c] = "ABSENT"
      BY <2>1, <2>2, <3>1, <3>2, AcceptedType DEF TabsOK
    <3>3. CASE outbox[c] # "ABSENT"
      <4> DEFINE B == Busy({c})
      <4>1. B \in SUBSET Entities
        BY BusyType
      <4>2. others' = [others EXCEPT ![t] = B] /\ UNCHANGED <<plan, blocked>>
        BY <2>1, <3>3
      <4>3. pc' = [pc EXCEPT ![t] = "acknowledge"]
        BY <2>1, <3>3 DEF Goto
      <4> HIDE DEF B
      <4> QED BY <3>1, <4>1, <4>2, <4>3 DEF TabsOK
    <3> QED BY <3>2, <3>3
  <2> QED BY <1>16, <2>3, Frame DEF ReceiptArrives
<1>17. CASE Acknowledge(t)
  BY <1>17, AcknowledgeType
<1>18. CASE AcknowledgeThrow(t)
  BY <1>18, ThrowType DEF AcknowledgeThrow
<1>19. CASE SendDone(t)
  <2>1. TabsOK'
    BY <1>19 DEF SendDone, Goto, Enter, TabsOK, LocalOK
  <2> QED BY <1>19, <2>1, Frame DEF SendDone
<1> QED
  BY <1>1, <1>2, <1>3, <1>4, <1>5, <1>6, <1>7, <1>8, <1>9, <1>10, <1>11, <1>12,
     <1>13, <1>14, <1>15, <1>16, <1>17, <1>18, <1>19 DEF Coordinate

LEMMA FaultType ==
  ASSUME TypeOK, NEW t \in Tabs, Fault(t)
  PROVE  TypeOK'
BY ResetType, Frame DEF Fault, TypeOK

LEMMA NextType == TypeOK /\ [Next]_vars => TypeOK'
<1> SUFFICES ASSUME TypeOK, [Next]_vars PROVE TypeOK'
  OBVIOUS
<1>1. CASE UNCHANGED vars
  BY <1>1, Frame DEF vars, TypeOK
<1>2. ASSUME NEW i \in Intents, CommitLocalCommand(i) PROVE TypeOK'
  BY <1>2, CommitLocalCommandType
<1>3. ASSUME NEW c \in Commands, NEW e \in Entities, ReviewConflict(c, e) PROVE TypeOK'
  BY <1>3, ReviewConflictType
<1>4. ASSUME NEW e \in Entities, RemoteWrite(e) PROVE TypeOK'
  BY <1>4, RemoteWriteType
<1>5. ASSUME NEW c \in Commands, LateDelivery(c) PROVE TypeOK'
  BY <1>5, LateDeliveryType
<1>6. ASSUME NEW t \in Tabs, Coordinate(t) \/ Fault(t) PROVE TypeOK'
  BY <1>6, CoordinateType, FaultType
<1> QED BY <1>1, <1>2, <1>3, <1>4, <1>5, <1>6 DEF Next

\* Every reachable state is well typed: pages, plans, bases and the change log
\* only ever hold rows, commands and versions of the installation.
THEOREM TypeCorrect == Spec => []TypeOK
BY InitType, NextType, PTL DEF Spec

-----------------------------------------------------------------------------
(* No edit is dropped. *)

\* A step of tab t leaves the plans of the other tabs alone.
Elsewhere(t) == \A u \in Tabs \ {t} : pc'[u] = pc[u] /\ plan'[u] = plan[u]

Holds == {"receipt", "acknowledge"}

LEMMA InvImplies == NeverDroppedInv => EditNeverDropped
<1> SUFFICES ASSUME NeverDroppedInv, NEW i \in Intents, command[<<i, 0>>].order > 0
             PROVE  /\ \E c \in Queued \cup Applied : c[1] = i
                    /\ \A c, d \in Queued : c[1] = i /\ d[1] = i => c = d
  BY DEF EditNeverDropped
<1>1. \E c \in Queued \cup Applied : c[1] = i
  BY DEF NeverDroppedInv, EditKept
<1>2. ASSUME NEW c \in Queued, NEW d \in Queued, c[1] = i, d[1] = i, c # d
      PROVE  FALSE
  <2>1. c \in Commands /\ d \in Commands
    BY DEF Queued
  <2>2. c[2] # d[2] /\ c[2] \in Nat /\ d[2] \in Nat
    BY <1>2, <2>1, BoundsAssumption DEF Commands
  <2>3. c[2] > d[2] \/ d[2] > c[2]
    BY <2>2
  <2> QED BY <1>2, <2>1, <2>3 DEF NeverDroppedInv, QueueOK
<1> QED BY <1>1, <1>2

\* Two queued commands never carry the same edit.
LEMMA OneGeneration ==
  ASSUME QueueOK, NEW c \in Queued, NEW d \in Queued, c[1] = d[1]
  PROVE  c = d
<1>1. c \in Commands /\ d \in Commands
  BY DEF Queued
<1>2. c # d => c[2] # d[2] /\ c[2] \in Nat /\ d[2] \in Nat
  BY <1>1, BoundsAssumption DEF Commands
<1>3. c # d => c[2] > d[2] \/ d[2] > c[2]
  BY <1>2
<1> QED BY <1>1, <1>3 DEF QueueOK

LEMMA InitKept == Init => NeverDroppedInv
<1> SUFFICES ASSUME Init PROVE NeverDroppedInv
  OBVIOUS
<1>1. TypeOK
  BY InitType
<1>2. Queued = {} /\ receipts = {}
  BY DEF Init, Queued
<1>3. \A c \in Commands : command[c].order = 0
  BY DEF Init, NoCommand
<1>4. \A i \in Intents : <<i, 0>> \in Commands
  BY BoundsAssumption DEF Commands
<1>5. \A t \in Tabs : Planned(t) = {}
  BY DEF Init, NoPlan, Planned
<1>6. QueueOK /\ OriginOK /\ EditKept
  BY <1>2, <1>3, <1>4 DEF QueueOK, DistinctOrders, OriginOK, EditKept
<1>7. PlansOK
  BY <1>5 DEF PlansOK, DistinctOrders
<1>8. ReceiptsOK
  BY <1>2 DEF Init, ReceiptsOK
<1> QED BY <1>1, <1>6, <1>7, <1>8 DEF NeverDroppedInv

-----------------------------------------------------------------------------
(* The server: what is applied stays applied, and is applied when it has a *)
(* receipt.                                                                *)

LEMMA AppliedFrame ==
  ASSUME UNCHANGED <<changes, receipts>>
  PROVE  Applied \subseteq Applied' /\ receipts \subseteq receipts'
         /\ (receipts \subseteq Applied => receipts' \subseteq Applied')
BY DEF Applied

LEMMA ApplyApplied ==
  ASSUME RemoteOK, NEW c \in Commands, Apply(c), receipts \subseteq Applied
  PROVE  Applied \subseteq Applied' /\ receipts \subseteq receipts'
         /\ receipts' \subseteq Applied'
<1> DEFINE Entry == [e : Entities, ver : Nat, by : Authors]
<1>1. PICK s \in [1 .. Cardinality(Rows(c)) -> Rows(c)] :
        /\ \A e \in Rows(c) : \E k \in DOMAIN s : s[k] = e
        /\ changes' = changes \o
             [k \in DOMAIN s |-> [e |-> s[k], ver |-> server[s[k]].ver + 1, by |-> c]]
  BY DEF Apply
<1> DEFINE n == Cardinality(Rows(c))
           new == [k \in DOMAIN s |-> [e |-> s[k], ver |-> server[s[k]].ver + 1, by |-> c]]
<1>2. n \in Nat
  BY EntitiesAssumption, TargetsType, FS_Subset, FS_CardinalityType
<1>3. \A k \in DOMAIN s : [e |-> s[k], ver |-> server[s[k]].ver + 1, by |-> c] \in Entry
  BY TargetsType DEF RemoteOK, Versions, Authors
<1>4. DOMAIN s = 1 .. n
  OBVIOUS
<1>5. new \in [1 .. n -> Entry] /\ \A k \in 1 .. n : new[k].by = c
  BY <1>3, <1>4
<1>6. \E k \in 1 .. n : TRUE
  BY <1>1, <1>4, TargetsAssumption DEF Rows, Commands
<1>7. changes' = changes \o new
  BY <1>1
<1> HIDE DEF new, n, Entry
<1>8. new \in Seq(Entry) /\ Len(new) = n
  BY <1>2, <1>5, SeqDef, LenProperties
<1>9. changes \in Seq(Entry) /\ Len(changes) \in Nat /\ DOMAIN changes = 1 .. Len(changes)
  BY LenProperties DEF RemoteOK, Entry
<1>10. /\ DOMAIN changes' = 1 .. (Len(changes) + n)
       /\ \A k \in 1 .. (Len(changes) + n) :
            changes'[k] = IF k <= Len(changes) THEN changes[k] ELSE new[k - Len(changes)]
  BY <1>2, <1>7, <1>8, <1>9, ConcatProperties, LenProperties
<1>11. Applied \subseteq Applied'
  BY <1>2, <1>9, <1>10 DEF Applied
<1>12. c \in Applied'
  <2>1. PICK k \in 1 .. n : TRUE
    BY <1>6
  <2>2. Len(changes) + k \in DOMAIN changes' /\ changes'[Len(changes) + k].by = c
    BY <1>2, <1>5, <1>9, <1>10
  <2> QED BY <2>2 DEF Applied
<1> QED BY <1>11, <1>12 DEF Apply, StoreReceipt

LEMMA ProcessApplied ==
  ASSUME RemoteOK, NEW c \in Commands, Process(c), receipts \subseteq Applied
  PROVE  Applied \subseteq Applied' /\ receipts \subseteq receipts'
         /\ receipts' \subseteq Applied'
BY ApplyApplied, AppliedFrame DEF Process

LEMMA RemoteWriteApplied ==
  ASSUME RemoteOK, NEW e \in Entities, RemoteWrite(e), receipts \subseteq Applied
  PROVE  Applied \subseteq Applied' /\ receipts \subseteq receipts'
         /\ receipts' \subseteq Applied'
<1> DEFINE Entry == [e : Entities, ver : Nat, by : Authors]
<1> DEFINE new == [e |-> e, ver |-> server[e].ver + 1, by |-> Remote]
<1>1. new \in Entry
  BY DEF RemoteOK, Versions, Authors
<1>2. changes' = Append(changes, new)
  BY DEF RemoteWrite
<1> HIDE DEF new, Entry
<1>3. changes \in Seq(Entry)
  BY DEF RemoteOK, Entry
<1>4. /\ Len(changes) \in Nat /\ DOMAIN changes = 1 .. Len(changes)
      /\ DOMAIN changes' = 1 .. (Len(changes) + 1)
      /\ \A k \in 1 .. Len(changes) : changes'[k] = changes[k]
  BY <1>1, <1>2, <1>3, AppendProperties, LenProperties
<1>5. Applied \subseteq Applied'
  BY <1>4 DEF Applied
<1> QED BY <1>5 DEF RemoteWrite

-----------------------------------------------------------------------------
(* The Outbox: the queue, the descent of its commands, the edits in it. *)

QueueParts == QueueOK /\ OriginOK /\ EditKept

\* Steps that neither add nor remove a queued command.
LEMMA SameQueue ==
  ASSUME TypeOK, QueueParts, UNCHANGED command, Queued' = Queued,
         revision' \in Nat, revision' >= revision, Applied \subseteq Applied'
  PROVE  QueueParts'
<1>1. QueueOK'
  BY DEF QueueParts, QueueOK, DistinctOrders, Queued, TypeOK, LocalOK
<1>2. OriginOK'
  BY DEF QueueParts, OriginOK
<1>3. EditKept'
  BY DEF QueueParts, EditKept
<1> QED BY <1>1, <1>2, <1>3 DEF QueueParts

LEMMA SameLocal ==
  ASSUME TypeOK, QueueParts, UNCHANGED local, Applied \subseteq Applied'
  PROVE  QueueParts'
<1>1. Queued' = Queued /\ UNCHANGED <<command, revision>>
  BY DEF Queued, local
<1> QED BY <1>1, SameQueue DEF TypeOK, LocalOK

\* An applied command leaves the queue.
LEMMA LeavesQueue ==
  ASSUME TypeOK, QueueParts, NEW c \in Commands, c \in Applied',
         UNCHANGED command, Queued' = Queued \ {c},
         revision' \in Nat, revision' >= revision, Applied \subseteq Applied'
  PROVE  QueueParts'
<1>1. QueueOK'
  BY DEF QueueParts, QueueOK, DistinctOrders, Queued, TypeOK, LocalOK
<1>2. OriginOK'
  BY DEF QueueParts, OriginOK
<1>3. EditKept'
  BY DEF QueueParts, EditKept
<1> QED BY <1>1, <1>2, <1>3 DEF QueueParts

\* What a new or a replacing command d does to the queue: it takes a place no
\* other queued command has, and only d had no order before.
LEMMA JoinsQueue ==
  ASSUME TypeOK, QueueParts, NEW d \in Commands, NEW S \in SUBSET Queued,
         command[d].order = 0, d \notin Queued,
         \A g \in Commands : g[1] = d[1] /\ g[2] > d[2] => command[g].order = 0,
         \A x \in Queued \ S : x[1] # d[1],
         \A x \in S : x[1] = d[1],
         Queued' = (Queued \ S) \cup {d},
         \A x \in Commands \ {d} : command'[x].order = command[x].order,
         command'[d].order \in Nat \ {0}, command'[d].order <= revision',
         \A x \in Queued \ S : command[x].order # command'[d].order,
         revision' = revision + 1,
         d[2] = 0 \/ command[<<d[1], 0>>].order > 0,
         d = <<d[1], d[2]>>,
         UNCHANGED <<changes>>
  PROVE  QueueParts'
<1>1. \A x \in Queued \ S : x \in Commands /\ x # d
  BY DEF Queued
<1>2. DistinctOrders(Queued)'
  BY <1>1 DEF QueueParts, QueueOK, DistinctOrders
<1>3. \A x \in Queued' : 0 < command'[x].order /\ command'[x].order <= revision'
  BY <1>1 DEF QueueParts, QueueOK, TypeOK, LocalOK
<1>4. ASSUME NEW x \in Queued', NEW g \in Commands, g[1] = x[1], g[2] > x[2]
      PROVE  command'[g].order = 0
  <2>1. CASE x = d
    <3>1. g # d
      BY <1>4, <2>1, BoundsAssumption DEF Commands
    <3> QED BY <1>4, <2>1, <3>1
  <2>2. CASE x # d
    <3>1. x \in Queued \ S /\ g # d
      BY <1>4, <2>2
    <3> QED BY <1>4, <3>1 DEF QueueParts, QueueOK
  <2> QED BY <2>1, <2>2
<1>5. QueueOK'
  BY <1>2, <1>3, <1>4 DEF QueueOK
<1>6. OriginOK'
  <2> SUFFICES ASSUME NEW x \in Commands, command'[x].order > 0
               PROVE  command'[<<x[1], 0>>].order > 0
    BY DEF OriginOK
  <2>1. <<x[1], 0>> \in Commands
    BY BoundsAssumption DEF Commands
  <2>2. CASE x = d
    BY <2>1, <2>2
  <2>3. CASE x # d
    <3>1. command[<<x[1], 0>>].order > 0
      BY <2>3 DEF QueueParts, OriginOK
    <3> QED BY <2>1, <3>1
  <2> QED BY <2>2, <2>3
<1>7. EditKept'
  <2> SUFFICES ASSUME NEW i \in Intents, command'[<<i, 0>>].order > 0
               PROVE  \E c \in Queued' \cup Applied' : c[1] = i
    BY DEF EditKept
  <2>1. Applied' = Applied
    BY DEF Applied
  <2>2. CASE i = d[1]
    BY <2>2
  <2>3. CASE i # d[1]
    <3>1. <<i, 0>> \in Commands /\ <<i, 0>> # d
      BY <2>3, BoundsAssumption DEF Commands
    <3>2. PICK c \in Queued \cup Applied : c[1] = i
      BY <3>1 DEF QueueParts, EditKept
    <3>3. c \notin S
      BY <2>3, <3>2
    <3> QED BY <2>1, <3>2, <3>3
  <2> QED BY <2>2, <2>3
<1> QED BY <1>5, <1>6, <1>7 DEF QueueParts

LEMMA CommitLocalCommandQueue ==
  ASSUME TypeOK, QueueParts, NEW i \in Intents, CommitLocalCommand(i)
  PROVE  QueueParts'
<1> DEFINE c == <<i, 0>>
<1>1. c \in Commands /\ c[1] = i /\ c[2] = 0
  BY BoundsAssumption DEF Commands
<1>2. command[c].order = 0
  BY DEF CommitLocalCommand
<1>3. \A g \in Commands : g[1] = i => command[g].order = 0
  BY <1>2 DEF QueueParts, OriginOK, TypeOK, LocalOK
<1>4. \A x \in Queued : x \in Commands /\ command[x].order > 0
  BY DEF QueueParts, QueueOK, Queued
<1>5. \A x \in Queued : x[1] # i
  BY <1>3, <1>4
<1>6. Queued' = Queued \cup {c}
  <2>1. outbox' = [outbox EXCEPT ![c] = "PENDING"]
    BY DEF CommitLocalCommand
  <2> HIDE DEF c
  <2> QED BY <1>1, <2>1 DEF Queued, TypeOK, LocalOK
<1>7. /\ command'[c].order = revision + 1
      /\ \A x \in Commands \ {c} : command'[x].order = command[x].order
      /\ revision' = revision + 1
  BY <1>1 DEF CommitLocalCommand, TypeOK, LocalOK
<1>8. command'[c].order \in Nat \ {0} /\ command'[c].order <= revision'
  BY <1>7 DEF TypeOK, LocalOK
<1>9. \A x \in Queued : command[x].order # command'[c].order
  BY <1>4, <1>7 DEF QueueParts, QueueOK, TypeOK, LocalOK
<1>10. UNCHANGED changes
  BY DEF CommitLocalCommand, remote
<1> HIDE DEF c
<1>11. c \notin Queued /\ {} \in SUBSET Queued /\ Queued \ {} = Queued
       /\ c = <<c[1], c[2]>>
  BY <1>1, <1>5 DEF c
<1>12. Queued' = (Queued \ {}) \cup {c}
  BY <1>6, <1>11
<1> QED
  BY <1>1, <1>2, <1>3, <1>5, <1>7, <1>8, <1>9, <1>10, <1>11, <1>12, JoinsQueue

LEMMA ReplaceQueue ==
  ASSUME TypeOK, QueueParts, NEW c \in Queued, NEW e \in Entities, NEW F,
         c[2] < MaxReplace, Replace(c, e, F), UNCHANGED changes
  PROVE  QueueParts' /\ \A x \in Commands :
                           command[x].order > 0 => command'[x].order = command[x].order
<1> DEFINE d == <<c[1], c[2] + 1>>
<1>1. c \in Commands /\ c = <<c[1], c[2]>> /\ c[2] \in Nat
  BY BoundsAssumption DEF Queued, Commands
<1>2. d \in Commands /\ d # c /\ d[1] = c[1] /\ d[2] = c[2] + 1
  BY <1>1, BoundsAssumption DEF Commands
<1>3. command[d].order = 0
  BY <1>1, <1>2 DEF QueueParts, QueueOK
<1>4. \A g \in Commands : g[1] = d[1] /\ g[2] > d[2] => command[g].order = 0
  <2> SUFFICES ASSUME NEW g \in Commands, g[1] = d[1], g[2] > d[2]
               PROVE  command[g].order = 0
    OBVIOUS
  <2>1. g[2] \in Nat
    BY BoundsAssumption DEF Commands
  <2>2. g[2] > c[2]
    BY <1>1, <1>2, <2>1
  <2> QED BY <1>2, <2>2 DEF QueueParts, QueueOK
<1>5. d \notin Queued
  BY <1>3 DEF QueueParts, QueueOK
<1>6. \A x \in Queued \ {c} : x[1] # d[1]
  BY <1>2, OneGeneration DEF QueueParts
<1>7. Queued' = (Queued \ {c}) \cup {d}
  BY <1>1, <1>2 DEF Replace, Queued, TypeOK, LocalOK
<1>8. /\ command'[d].order = ReplacementOrder(c, F)
      /\ \A x \in Commands \ {d} : command'[x].order = command[x].order
      /\ revision' = revision + 1
  BY <1>1, <1>2 DEF Replace, TypeOK, LocalOK
<1>9. ReplacementOrder(c, F) \in {revision + 1, command[c].order}
  BY DEF ReplacementOrder
<1>10. \A x \in Queued : x \in Commands /\ 0 < command[x].order
                       /\ command[x].order <= revision /\ command[x].order \in Nat
  BY DEF QueueParts, QueueOK, Queued, TypeOK, LocalOK
<1>11. command'[d].order \in Nat \ {0} /\ command'[d].order <= revision'
  BY <1>8, <1>9, <1>10 DEF TypeOK, LocalOK
<1>12. \A x \in Queued \ {c} : command[x].order # command'[d].order
  BY <1>8, <1>9, <1>10 DEF QueueParts, QueueOK, DistinctOrders, TypeOK, LocalOK
<1>13. command[<<d[1], 0>>].order > 0
  BY <1>2, <1>10, <1>1 DEF QueueParts, OriginOK
<1>14. \A x \in Commands : command[x].order > 0 => command'[x].order = command[x].order
  BY <1>3, <1>8
<1>15. d = <<d[1], d[2]>> /\ {c} \in SUBSET Queued /\ \A x \in {c} : x[1] = d[1]
  BY <1>2
<1> HIDE DEF d
<1>16. QueueParts'
  BY <1>2, <1>3, <1>4, <1>5, <1>6, <1>7, <1>8, <1>11, <1>12, <1>13, <1>15, JoinsQueue
<1> QED BY <1>14, <1>16

-----------------------------------------------------------------------------
(* The plans of the tabs. *)

TabParts == PlansOK /\ ReceiptsOK

\* Steps of the user: the plans and the receipts stay, and so do the orders.
LEMMA SamePlans ==
  ASSUME TypeOK, TabParts, UNCHANGED <<pc, plan, changes, receipts>>,
         \A x \in Commands : command[x].order > 0 => command'[x].order = command[x].order
  PROVE  TabParts'
<1>1. \A t \in Tabs : Planned(t)' = Planned(t) /\ Planned(t) \subseteq Commands
  BY DEF Planned
<1>2. \A t \in Tabs : \A x \in Planned(t) : command'[x].order = command[x].order
  BY <1>1 DEF TabParts, PlansOK
<1>3. PlansOK'
  BY <1>1, <1>2 DEF TabParts, PlansOK, DistinctOrders
<1>4. \A t \in Tabs, c \in Commands : First(c, Planned(t))' => First(c, Planned(t))
  BY <1>1, <1>2 DEF First
<1>5. ReceiptsOK'
  BY <1>4, AppliedFrame DEF TabParts, ReceiptsOK
<1> QED BY <1>3, <1>5 DEF TabParts

\* Steps of tab t: its plan shrinks or is taken anew from the queue, and it
\* waits for a receipt only of its next planned command.
LEMMA TabPlans ==
  ASSUME TypeOK, QueueParts, TabParts, NEW t \in Tabs, Elsewhere(t),
         UNCHANGED command, receipts \subseteq receipts', receipts' \subseteq Applied',
         Planned(t)' \subseteq Planned(t) \/ Planned(t)' \subseteq Queued,
         pc'[t] \in Holds => \A c \in Commands : First(c, Planned(t))' => c \in receipts'
  PROVE  TabParts'
<1>1. \A u \in Tabs \ {t} : Planned(u)' = Planned(u) /\ pc'[u] = pc[u]
  BY DEF Elsewhere, Planned
<1>2. DistinctOrders(Planned(t))' /\ \A c \in Planned(t)' : command'[c].order > 0
  BY DEF TabParts, PlansOK, QueueParts, QueueOK, DistinctOrders
<1>3. PlansOK'
  BY <1>1, <1>2 DEF TabParts, PlansOK, DistinctOrders
<1>4. \A u \in Tabs \ {t}, c \in Commands :
        pc'[u] \in Holds /\ First(c, Planned(u))' => c \in receipts'
  BY <1>1 DEF TabParts, ReceiptsOK, First, Holds
<1>5. ReceiptsOK'
  BY <1>4 DEF ReceiptsOK, Holds
<1> QED BY <1>3, <1>5 DEF TabParts

\* The next planned command is unique.
LEMMA FirstUnique ==
  ASSUME TypeOK, PlansOK, NEW t \in Tabs, NEW c \in Commands, NEW d \in Commands,
         First(c, Planned(t)), First(d, Planned(t))
  PROVE  c = d
<1>1. command[c].order \in Nat /\ command[d].order \in Nat
  BY DEF TypeOK, LocalOK
<1>2. command[c].order = command[d].order
  BY <1>1 DEF First
<1> QED BY <1>2 DEF First, PlansOK, DistinctOrders

-----------------------------------------------------------------------------
(* The steps of the coordinator of tab t. *)

LEMMA LeaveShrinks ==
  ASSUME TypeOK, NEW t \in Tabs, NEW c \in Commands, Leave(t, c)
  PROVE  /\ Planned(t)' \subseteq Planned(t)
         /\ \A u \in Tabs \ {t} : plan'[u] = plan[u]
BY DEF Leave, Planned, TypeOK, TabsOK

LEMMA AcceptedShrinks ==
  ASSUME TypeOK, NEW t \in Tabs, NEW c \in Commands, Accepted(t, c)
  PROVE  Planned(t)' \subseteq Planned(t) /\ Elsewhere(t) /\ pc'[t] \notin Holds
<1>1. Planned(t)' \subseteq Planned(t) /\ \A u \in Tabs \ {t} : plan'[u] = plan[u]
  BY LeaveShrinks DEF Accepted
<1>2. pc'[t] \notin Holds /\ \A u \in Tabs \ {t} : pc'[u] = pc[u]
  BY DEF Accepted, Goto, Holds, TypeOK, TabsOK
<1> QED BY <1>1, <1>2 DEF Elsewhere

LEMMA ResetPlans ==
  ASSUME TypeOK, NEW t \in Tabs, Reset(t)
  PROVE  Planned(t)' \subseteq Planned(t) /\ Elsewhere(t) /\ pc'[t] \notin Holds
BY DEF Reset, Planned, NoPlan, Elsewhere, Holds, TypeOK, TabsOK

LEMMA AfterPagePlans ==
  ASSUME TypeOK, NEW t \in Tabs, AfterPage(t)
  PROVE  /\ Planned(t)' \subseteq Planned(t) \/ Planned(t)' \subseteq Queued
         /\ Elsewhere(t) /\ pc'[t] \notin Holds
<1>1. pc'[t] \notin Holds /\ \A u \in Tabs \ {t} : pc'[u] = pc[u]
  BY DEF AfterPage, Goto, Holds, TypeOK, TabsOK
<1>2. CASE UNCHANGED plan
  BY <1>1, <1>2 DEF Planned, Elsewhere
<1>3. CASE plan' = [plan EXCEPT ![t] = [c \in Commands |->
             IF PlanState(c) = "RECEIPT_REQUIRED" THEN PlanState(c) ELSE "NONE"]]
  <2>1. \A c \in Commands : PlanState(c) = "RECEIPT_REQUIRED" => c \in Queued
    BY DEF PlanState, Queued
  <2>2. Planned(t)' \subseteq Queued
    BY <1>3, <2>1 DEF Planned, TypeOK, TabsOK
  <2>3. \A u \in Tabs \ {t} : plan'[u] = plan[u]
    BY <1>3 DEF TypeOK, TabsOK
  <2> QED BY <1>1, <2>2, <2>3 DEF Elsewhere
<1> QED BY <1>2, <1>3 DEF AfterPage

LEMMA PlansQueued ==
  ASSUME TypeOK, NEW t \in Tabs, plan' = [plan EXCEPT ![t] = PlanLocalCommands]
  PROVE  Planned(t)' \subseteq Queued /\ \A u \in Tabs \ {t} : plan'[u] = plan[u]
<1>1. \A c \in Commands : PlanLocalCommands[c] # "NONE" => c \in Queued
  BY DEF PlanLocalCommands, PlanState, Queued, TypeOK, LocalOK
<1> QED BY <1>1 DEF Planned, TypeOK, TabsOK

\* Steps that only read, and neither plan anew nor find a receipt.
LEMMA QuietStep ==
  ASSUME TypeOK, QueueParts, TabParts, NEW t \in Tabs, UNCHANGED <<local, changes, receipts>>,
         Planned(t)' \subseteq Planned(t) \/ Planned(t)' \subseteq Queued,
         Elsewhere(t), pc'[t] \notin Holds
  PROVE  QueueParts' /\ TabParts'
<1>1. QueueParts'
  BY SameLocal, AppliedFrame
<1>2. TabParts'
  BY TabPlans, AppliedFrame DEF local, TabParts, ReceiptsOK
<1> QED BY <1>1, <1>2

LEMMA GotoElsewhere ==
  ASSUME TypeOK, NEW t \in Tabs, NEW q, Goto(t, q), UNCHANGED plan
  PROVE  Elsewhere(t) /\ pc'[t] = q /\ Planned(t)' = Planned(t)
BY DEF Goto, Elsewhere, Planned, TypeOK, TabsOK

\* With the same plan and orders the next planned command is the same.
LEMMA SameFirst ==
  ASSUME NEW t \in Tabs, UNCHANGED command, Planned(t)' = Planned(t), NEW c \in Commands,
         First(c, Planned(t))'
  PROVE  First(c, Planned(t))
BY DEF First

LEMMA ThrowKept ==
  ASSUME TypeOK, QueueParts, TabParts, NEW t \in Tabs, Throw(t)
  PROVE  QueueParts' /\ TabParts'
<1>1. UNCHANGED <<local, changes, receipts>>
  BY DEF Throw, remote
<1> QED BY <1>1, ResetPlans, QuietStep DEF Throw

\* Reads, plans and the end of a page: nothing durable changes.
LEMMA ReadingKept ==
  ASSUME TypeOK, QueueParts, TabParts, NEW t \in Tabs,
         \/ Start(t) \/ PullPage(t) \/ ListPending(t) \/ PullNothing(t)
         \/ PlanCycle(t) \/ RebaseDone(t) \/ SkipBlocked(t) \/ SendDone(t)
  PROVE  QueueParts' /\ TabParts'
<1> USE QuietStep
<1>1. CASE Start(t)
  BY <1>1, GotoElsewhere DEF Start, remote, Holds
<1>2. CASE PullPage(t)
  BY <1>2, GotoElsewhere DEF PullPage, remote, Holds
<1>3. CASE ListPending(t)
  BY <1>3, GotoElsewhere DEF ListPending, remote, Holds
<1>4. CASE PullNothing(t)
  BY <1>4, AfterPagePlans DEF PullNothing, remote
<1>5. CASE PlanCycle(t)
  <2>1. pc'[t] \notin Holds /\ \A u \in Tabs \ {t} : pc'[u] = pc[u]
    BY <1>5 DEF PlanCycle, Goto, Holds, TypeOK, TabsOK
  <2> QED BY <1>5, <2>1, PlansQueued DEF PlanCycle, remote, Elsewhere
<1>6. CASE RebaseDone(t)
  <2>1. pc'[t] \notin Holds /\ \A u \in Tabs \ {t} : pc'[u] = pc[u]
    BY <1>6 DEF RebaseDone, Goto, Holds, TypeOK, TabsOK
  <2>2. /\ Planned(t)' \subseteq Planned(t) \/ Planned(t)' \subseteq Queued
        /\ \A u \in Tabs \ {t} : plan'[u] = plan[u]
    BY <1>6, PlansQueued DEF RebaseDone, Planned
  <2> QED BY <1>6, <2>1, <2>2 DEF RebaseDone, remote, Elsewhere
<1>7. CASE SkipBlocked(t)
  <2>1. PICK c \in Planned(t) : Leave(t, c)
    BY <1>7 DEF SkipBlocked
  <2>2. Planned(t)' \subseteq Planned(t) /\ \A u \in Tabs \ {t} : plan'[u] = plan[u]
    BY <2>1, LeaveShrinks DEF Planned
  <2> QED BY <1>7, <2>2 DEF SkipBlocked, remote, Elsewhere, Holds
<1>8. CASE SendDone(t)
  BY <1>8, GotoElsewhere DEF SendDone, remote, Holds
<1> QED BY <1>1, <1>2, <1>3, <1>4, <1>5, <1>6, <1>7, <1>8

\* A receipt found for the next planned command.
LEMMA FoundKept ==
  ASSUME TypeOK, TypeOK', QueueParts, TabParts, NEW t \in Tabs, NEW c \in Commands,
         First(c, Planned(t)), c \in receipts', Elsewhere(t), UNCHANGED command,
         Planned(t)' = Planned(t),
         receipts \subseteq receipts', receipts' \subseteq Applied'
  PROVE  TabParts'
<1>1. \A d \in Commands : First(d, Planned(t))' => d = c
  BY SameFirst, FirstUnique DEF TabParts
<1> QED BY <1>1, TabPlans

LEMMA RecoverLookupKept ==
  ASSUME TypeOK, TypeOK', QueueParts, TabParts, NEW t \in Tabs, RecoverLookup(t)
  PROVE  QueueParts' /\ TabParts'
<1>1. UNCHANGED <<local, changes, receipts, command>> /\ pc[t] = "recover"
  BY DEF RecoverLookup, remote, local
<1>2. PICK c \in Planned(t) :
        /\ First(c, Planned(t))
        /\ \/ c \in receipts /\ Goto(t, "receipt") /\ UNCHANGED plan
           \/ Leave(t, c) /\ UNCHANGED pc
  BY DEF RecoverLookup
<1>3. c \in Commands
  BY DEF Planned
<1>4. QueueParts'
  BY <1>1, SameLocal, AppliedFrame
<1>5. CASE c \in receipts /\ Goto(t, "receipt") /\ UNCHANGED plan
  <2>1. Elsewhere(t) /\ Planned(t)' = Planned(t)
    BY <1>5, GotoElsewhere
  <2>2. TabParts'
    BY <1>1, <1>2, <1>3, <1>5, <2>1, FoundKept, AppliedFrame DEF TabParts, ReceiptsOK
  <2> QED BY <1>4, <2>2
<1>6. CASE Leave(t, c) /\ UNCHANGED pc
  <2>1. Planned(t)' \subseteq Planned(t) /\ Elsewhere(t) /\ pc'[t] \notin Holds
    BY <1>1, <1>3, <1>6, LeaveShrinks DEF Elsewhere, Holds
  <2> QED BY <1>1, <2>1, QuietStep
<1> QED BY <1>2, <1>5, <1>6

LEMMA LookupOrResendKept ==
  ASSUME TypeOK, TypeOK', QueueParts, TabParts, NEW t \in Tabs, LookupOrResend(t)
  PROVE  QueueParts' /\ TabParts'
<1>1. UNCHANGED <<local, changes, receipts, plan, command>>
  BY DEF LookupOrResend, local
<1>2. PICK c \in Planned(t) :
        /\ First(c, Planned(t))
        /\ \/ c \in receipts /\ Goto(t, "receipt")
           \/ Goto(t, "await")
  BY DEF LookupOrResend, Sendable
<1>3. c \in Commands
  BY DEF Planned
<1>4. QueueParts'
  BY <1>1, SameLocal, AppliedFrame
<1>5. CASE c \in receipts /\ Goto(t, "receipt")
  <2>1. Elsewhere(t) /\ Planned(t)' = Planned(t)
    BY <1>1, <1>5, GotoElsewhere
  <2>2. TabParts'
    BY <1>1, <1>2, <1>3, <1>5, <2>1, FoundKept, AppliedFrame DEF TabParts, ReceiptsOK
  <2> QED BY <1>4, <2>2
<1>6. CASE Goto(t, "await")
  BY <1>1, <1>6, GotoElsewhere, QuietStep DEF Holds
<1> QED BY <1>2, <1>5, <1>6

LEMMA AnswerKept ==
  ASSUME TypeOK, TypeOK', QueueParts, TabParts, NEW t \in Tabs, Answer(t)
  PROVE  QueueParts' /\ TabParts'
<1>1. UNCHANGED <<local, plan, command>>
  BY DEF Answer, local
<1>2. PICK c \in Planned(t) :
        /\ First(c, Planned(t)) /\ Process(c)
        /\ Goto(t, IF c \in receipts' THEN "receipt" ELSE "refused")
  BY DEF Answer
<1>3. c \in Commands
  BY DEF Planned
<1>4. Applied \subseteq Applied' /\ receipts \subseteq receipts' /\ receipts' \subseteq Applied'
  BY <1>2, <1>3, ProcessApplied DEF TypeOK, TabParts, ReceiptsOK
<1>5. Elsewhere(t) /\ Planned(t)' = Planned(t)
      /\ pc'[t] = IF c \in receipts' THEN "receipt" ELSE "refused"
  BY <1>1, <1>2, GotoElsewhere
<1>6. QueueParts'
  BY <1>1, <1>4, SameLocal
<1>7. CASE c \in receipts'
  BY <1>1, <1>2, <1>3, <1>4, <1>5, <1>6, <1>7, FoundKept
<1>8. CASE c \notin receipts'
  BY <1>1, <1>4, <1>5, <1>6, <1>8, TabPlans DEF Holds
<1> QED BY <1>7, <1>8

LEMMA RefusedKept ==
  ASSUME TypeOK, TypeOK', QueueParts, TabParts, NEW t \in Tabs, Refused(t)
  PROVE  QueueParts' /\ TabParts'
<1>1. PICK c \in Planned(t) :
        /\ First(c, Planned(t))
        /\ \/ /\ c \in receipts /\ Goto(t, "receipt")
              /\ UNCHANGED <<local, plan>>
           \/ /\ outbox[c] = "SENDING"
              /\ MarkConflict(c) /\ Leave(t, c) /\ Goto(t, "send")
              /\ UNCHANGED <<command, revision>>
           \/ Reset(t) /\ UNCHANGED local
  BY DEF Refused
<1>2. c \in Commands
  BY DEF Planned
<1>3. UNCHANGED <<changes, receipts>>
  BY DEF Refused, remote
<1>4. Applied \subseteq Applied' /\ receipts \subseteq receipts' /\ receipts' \subseteq Applied'
  BY <1>3, AppliedFrame DEF TabParts, ReceiptsOK
<1>5. CASE c \in receipts /\ Goto(t, "receipt") /\ UNCHANGED <<local, plan>>
  <2>1. Elsewhere(t) /\ Planned(t)' = Planned(t) /\ UNCHANGED command
    BY <1>5, GotoElsewhere DEF local
  <2>2. TabParts'
    BY <1>1, <1>2, <1>4, <1>5, <2>1, FoundKept
  <2>3. QueueParts'
    BY <1>4, <1>5, SameLocal
  <2> QED BY <2>2, <2>3
<1>6. CASE outbox[c] = "SENDING" /\ MarkConflict(c) /\ Leave(t, c) /\ Goto(t, "send")
           /\ UNCHANGED <<command, revision>>
  <2>1. Queued' = Queued
    BY <1>2, <1>6 DEF MarkConflict, Queued, TypeOK, LocalOK
  <2>2. QueueParts'
    BY <1>4, <1>6, <2>1, SameQueue DEF TypeOK, LocalOK
  <2>3. Planned(t)' \subseteq Planned(t) /\ \A u \in Tabs \ {t} : plan'[u] = plan[u]
    BY <1>2, <1>6, LeaveShrinks
  <2>4. pc'[t] = "send" /\ \A u \in Tabs \ {t} : pc'[u] = pc[u]
    BY <1>6 DEF Goto, TypeOK, TabsOK
  <2>5. TabParts'
    BY <1>4, <1>6, <2>3, <2>4, TabPlans DEF Elsewhere, Holds
  <2> QED BY <2>2, <2>5
<1>7. CASE Reset(t) /\ UNCHANGED local
  BY <1>3, <1>7, ResetPlans, QuietStep
<1> QED BY <1>1, <1>5, <1>6, <1>7

LEMMA ReceiptArrivesKept ==
  ASSUME TypeOK, TypeOK', QueueParts, TabParts, NEW t \in Tabs, ReceiptArrives(t)
  PROVE  QueueParts' /\ TabParts'
<1>1. UNCHANGED <<local, changes, receipts, command>> /\ pc[t] = "receipt"
  BY DEF ReceiptArrives, remote, local
<1>2. PICK c \in Planned(t) :
        /\ First(c, Planned(t))
        /\ \/ Accepted(t, c)
           \/ Goto(t, "acknowledge") /\ UNCHANGED plan
  BY DEF ReceiptArrives
<1>3. c \in Commands
  BY DEF Planned
<1>4. CASE Accepted(t, c)
  BY <1>1, <1>3, <1>4, AcceptedShrinks, QuietStep
<1>5. CASE Goto(t, "acknowledge") /\ UNCHANGED plan
  <2>1. c \in receipts
    BY <1>1, <1>2, <1>3 DEF TabParts, ReceiptsOK
  <2>2. Elsewhere(t) /\ Planned(t)' = Planned(t)
    BY <1>5, GotoElsewhere
  <2>3. TabParts'
    BY <1>1, <1>2, <1>3, <2>1, <2>2, FoundKept, AppliedFrame DEF TabParts, ReceiptsOK
  <2>4. QueueParts'
    BY <1>1, SameLocal, AppliedFrame
  <2> QED BY <2>3, <2>4
<1> QED BY <1>2, <1>4, <1>5

LEMMA ClaimAndSendKept ==
  ASSUME TypeOK, QueueParts, TabParts, NEW t \in Tabs, ClaimAndSend(t)
  PROVE  QueueParts' /\ TabParts'
<1>1. PICK c \in Planned(t) :
        \/ /\ outbox[c] = "PENDING" /\ Claim(c) /\ Goto(t, "await")
           /\ UNCHANGED <<command, revision, changes, receipts, plan>>
        \/ Throw(t)
  BY DEF ClaimAndSend
<1>2. CASE Throw(t)
  BY <1>2, ThrowKept
<1>3. CASE /\ outbox[c] = "PENDING" /\ Claim(c) /\ Goto(t, "await")
           /\ UNCHANGED <<command, revision, changes, receipts, plan>>
  <2>1. Queued' = Queued
    BY <1>3 DEF Claim, Queued, Planned, TypeOK, LocalOK
  <2>2. QueueParts'
    BY <1>3, <2>1, SameQueue, AppliedFrame DEF TypeOK, LocalOK
  <2>3. Elsewhere(t) /\ Planned(t)' = Planned(t) /\ pc'[t] \notin Holds
    BY <1>3, GotoElsewhere DEF Holds
  <2>4. TabParts'
    BY <1>3, <2>3, TabPlans, AppliedFrame DEF TabParts, ReceiptsOK
  <2> QED BY <2>2, <2>4
<1> QED BY <1>1, <1>2, <1>3

LEMMA PullCommitKept ==
  ASSUME TypeOK, QueueParts, TabParts, NEW t \in Tabs, PullCommit(t)
  PROVE  QueueParts' /\ TabParts'
<1>1. UNCHANGED <<outbox, command, changes, receipts>> /\ revision' = revision + 1
      /\ AfterPage(t)
  BY DEF PullCommit, remote
<1>2. Queued' = Queued
  BY <1>1 DEF Queued
<1>3. QueueParts'
  BY <1>1, <1>2, SameQueue, AppliedFrame DEF TypeOK, LocalOK
<1>4. TabParts'
  BY <1>1, AfterPagePlans, TabPlans, AppliedFrame DEF TabParts, ReceiptsOK
<1> QED BY <1>3, <1>4

LEMMA RebaseNextKept ==
  ASSUME TypeOK, QueueParts, TabParts, NEW t \in Tabs, RebaseNext(t)
  PROVE  QueueParts' /\ TabParts'
<1>1. UNCHANGED <<changes, receipts, pc, plan>>
  BY DEF RebaseNext, remote
<1>2. PICK c \in todo[t] :
        \/ \E e \in Entities : Rebasable(t, c, e) /\ Replace(c, e, {})
        \/ UNCHANGED local
  BY DEF RebaseNext
<1>3. CASE UNCHANGED local
  BY <1>1, <1>3, SameLocal, SamePlans, AppliedFrame DEF local
<1>4. ASSUME NEW e \in Entities, Rebasable(t, c, e), Replace(c, e, {})
      PROVE  QueueParts' /\ TabParts'
  <2>1. c \in Queued /\ c[2] < MaxReplace
    BY <1>4 DEF Rebasable, NeverSent, Replaceable, Queued, TypeOK, TabsOK
  <2> QED BY <1>1, <1>4, <2>1, ReplaceQueue, SamePlans
<1> QED BY <1>2, <1>3, <1>4

LEMMA AcknowledgeKept ==
  ASSUME TypeOK, QueueParts, TabParts, NEW t \in Tabs, Acknowledge(t)
  PROVE  QueueParts' /\ TabParts'
<1>1. PICK c \in Planned(t) :
        First(c, Planned(t)) /\ outbox' = [outbox EXCEPT ![c] = "ABSENT"] /\ Accepted(t, c)
  BY DEF Acknowledge
<1>2. UNCHANGED <<command, changes, receipts>> /\ revision' = revision + 1
      /\ pc[t] = "acknowledge"
  BY DEF Acknowledge, remote
<1>3. c \in Commands /\ c \in receipts
  BY <1>1, <1>2 DEF Planned, TabParts, ReceiptsOK
<1>4. Applied \subseteq Applied' /\ c \in Applied'
  BY <1>2, <1>3, AppliedFrame DEF TabParts, ReceiptsOK
<1>5. Queued' = Queued \ {c}
  BY <1>1, <1>3 DEF Queued, TypeOK, LocalOK
<1>6. QueueParts'
  BY <1>2, <1>3, <1>4, <1>5, LeavesQueue DEF TypeOK, LocalOK
<1>7. TabParts'
  BY <1>1, <1>2, <1>3, AcceptedShrinks, TabPlans, AppliedFrame DEF TabParts, ReceiptsOK
<1> QED BY <1>6, <1>7

-----------------------------------------------------------------------------

LEMMA NextKept == NeverDroppedInv /\ [Next]_vars => NeverDroppedInv'
<1> SUFFICES ASSUME NeverDroppedInv, [Next]_vars PROVE NeverDroppedInv'
  OBVIOUS
<1>1. TypeOK /\ TypeOK' /\ QueueParts /\ TabParts
  BY NextType DEF NeverDroppedInv, QueueParts, TabParts
<1> SUFFICES QueueParts' /\ TabParts'
  BY <1>1 DEF NeverDroppedInv, QueueParts, TabParts
<1>2. CASE UNCHANGED vars
  BY <1>1, <1>2, SameLocal, SamePlans, AppliedFrame DEF vars, local, remote, tabs
<1>3. ASSUME NEW i \in Intents, CommitLocalCommand(i) PROVE QueueParts' /\ TabParts'
  <2>1. QueueParts'
    BY <1>1, <1>3, CommitLocalCommandQueue
  <2>2. \A x \in Commands : command[x].order > 0 => command'[x].order = command[x].order
    <3> DEFINE c == <<i, 0>>
    <3>1. c \in Commands
      BY BoundsAssumption DEF Commands
    <3>2. command[c].order = 0 /\ \A x \in Commands \ {c} : command'[x] = command[x]
      BY <1>1, <1>3, <3>1 DEF CommitLocalCommand, TypeOK, LocalOK
    <3> HIDE DEF c
    <3> QED BY <1>1, <3>1, <3>2 DEF TypeOK, LocalOK
  <2>3. TabParts'
    BY <1>1, <1>3, <2>2, SamePlans DEF CommitLocalCommand, remote, tabs
  <2> QED BY <2>1, <2>3
<1>4. ASSUME NEW c \in Commands, NEW e \in Entities, ReviewConflict(c, e)
      PROVE  QueueParts' /\ TabParts'
  <2>1. c \in Queued /\ c[2] < MaxReplace /\ Replace(c, e, Pending(e) \ {c})
    BY <1>4 DEF ReviewConflict, Replaceable, Queued
  <2>2. UNCHANGED <<pc, plan, changes, receipts>>
    BY <1>4 DEF ReviewConflict, remote, tabs
  <2> QED BY <1>1, <2>1, <2>2, ReplaceQueue, SamePlans
<1>5. ASSUME NEW e \in Entities, RemoteWrite(e) PROVE QueueParts' /\ TabParts'
  <2>1. UNCHANGED <<local, receipts, pc, plan, command>>
    BY <1>5 DEF RemoteWrite, tabs, local
  <2>2. Applied \subseteq Applied' /\ receipts' \subseteq Applied'
    BY <1>1, <1>5, RemoteWriteApplied DEF TypeOK, TabParts, ReceiptsOK
  <2>3. QueueParts'
    BY <1>1, <2>1, <2>2, SameLocal
  <2>4. TabParts'
    BY <1>1, <2>1, <2>2 DEF TabParts, PlansOK, ReceiptsOK, DistinctOrders, First, Planned
  <2> QED BY <2>3, <2>4
<1>6. ASSUME NEW c \in Commands, LateDelivery(c) PROVE QueueParts' /\ TabParts'
  <2>1. UNCHANGED <<local, pc, plan, command>>
    BY <1>6 DEF LateDelivery, tabs, local
  <2>2. Applied \subseteq Applied' /\ receipts \subseteq receipts' /\ receipts' \subseteq Applied'
    BY <1>1, <1>6, ApplyApplied DEF LateDelivery, TypeOK, TabParts, ReceiptsOK
  <2>3. QueueParts'
    BY <1>1, <2>1, <2>2, SameLocal
  <2>4. TabParts'
    BY <1>1, <2>1, <2>2 DEF TabParts, PlansOK, ReceiptsOK, DistinctOrders, First, Planned
  <2> QED BY <2>3, <2>4
<1>7. ASSUME NEW t \in Tabs, Coordinate(t) PROVE QueueParts' /\ TabParts'
  <2>1. CASE RecoverLookup(t) \/ LookupOrResend(t) \/ Answer(t) \/ Refused(t)
             \/ ReceiptArrives(t)
    BY <1>1, <2>1, RecoverLookupKept, LookupOrResendKept, AnswerKept, RefusedKept,
       ReceiptArrivesKept
  <2>2. CASE ClaimAndSend(t) \/ PullCommit(t) \/ RebaseNext(t) \/ Acknowledge(t)
    BY <1>1, <2>2, ClaimAndSendKept, PullCommitKept, RebaseNextKept, AcknowledgeKept
  <2>3. CASE PullThrow(t) \/ AcknowledgeThrow(t)
    BY <1>1, <2>3, ThrowKept DEF PullThrow, AcknowledgeThrow
  <2>4. CASE Start(t) \/ PullPage(t) \/ ListPending(t) \/ PullNothing(t)
             \/ PlanCycle(t) \/ RebaseDone(t) \/ SkipBlocked(t) \/ SendDone(t)
    BY <1>1, <2>4, ReadingKept
  <2> QED BY <1>7, <2>1, <2>2, <2>3, <2>4 DEF Coordinate
<1>8. ASSUME NEW t \in Tabs, Fault(t) PROVE QueueParts' /\ TabParts'
  BY <1>1, <1>8, ResetPlans, QuietStep DEF Fault, remote
<1> QED BY <1>2, <1>3, <1>4, <1>5, <1>6, <1>7, <1>8 DEF Next

\* No edit is ever dropped, whatever tabs, faults, retries, rebases and reviews:
\* a recorded edit waits in the Outbox, in one command only, or the server has it.
THEOREM NothingDropped == Spec => []EditNeverDropped
<1>1. Init => NeverDroppedInv
  BY InitKept
<1>2. NeverDroppedInv /\ [Next]_vars => NeverDroppedInv'
  BY NextKept
<1>3. NeverDroppedInv => EditNeverDropped
  BY InvImplies
<1> QED BY <1>1, <1>2, <1>3, PTL DEF Spec

=============================================================================
