------------------------ MODULE FileProcessing_proofs ------------------------
(***************************************************************************)
(* Facts of FileProcessing that hold for any tabs, files, limit and bounds: *)
(* the types, what the leases guarantee (one worker at a time, results     *)
(* that stand, READY only beside its index), and that whoever waits for an *)
(* extraction waits for one that is under way.                             *)
(***************************************************************************)
EXTENDS FileProcessing, TLAPS

-----------------------------------------------------------------------------
(* Types of the pieces the actions are built from. *)

\* What a drain at work adds to the types: the key of an attempt is a file and
\* a version, and a drain that counts one more file has room for it.
AtWork ==
  /\ \A w \in Workers : attempt[w].stage # "idle" => attempt[w].key \in Keys
  /\ \A t \in Tabs : attempt[<<t, "drain">>].stage # "idle" => processed[t] < Limit

Typed == TypeOK /\ AtWork

LEMMA Constants ==
  /\ NoAttempt \in AttemptType /\ NoRecord \in RecordType
  /\ NoAttempt.stage = "idle" /\ NoAttempt.lease = 0 /\ NoAttempt.key = NoKey
  /\ NoKey \notin Keys
<1>1. NoAttempt \in AttemptType
  BY DEF NoAttempt, AttemptType, Outcomes
<1>2. NoRecord \in RecordType
  BY BoundsAssumption DEF NoRecord, RecordType
<1>3. NoKey \notin Keys
  BY FilesAssumption DEF NoKey, Keys
<1> QED BY <1>1, <1>2, <1>3 DEF NoAttempt

LEMMA SpendType ==
  ASSUME spent \in [DOMAIN Allowed -> Nat], NEW kind \in DOMAIN Allowed, Spend(kind)
  PROVE  spent' \in [DOMAIN Allowed -> Nat]
BY DEF Spend

LEMMA Kinds == {"crash", "slow", "fail", "retry", "read", "view"} = DOMAIN Allowed
BY DEF Allowed

LEMMA ListedType == ASSUME StoreOK PROVE Listed \in SUBSET Keys
BY DEF StoreOK, Listed, Keys, Versions, FileType

LEMMA CurrentKey ==
  ASSUME StoreOK, NEW f \in Files, file[f].live
  PROVE  <<f, file[f].version>> \in Keys
BY DEF StoreOK, Keys, Versions, FileType

LEMMA WakeType == ASSUME LoopOK, NEW t \in Tabs, Wake(t) PROVE LoopOK'
BY DEF LoopOK, Wake, NoTimer, Jobs

LEMMA JoinType ==
  ASSUME WorkOK, NEW t \in Tabs, NEW k \in Keys, Join(t, k)
  PROVE  extraction' \in [Tabs -> [Keys -> Stages]]
BY DEF WorkOK, Join, Stages

LEMMA SetExtraction ==
  ASSUME WorkOK, NEW t \in Tabs, NEW k \in Keys, NEW s \in Stages,
         extraction' = [extraction EXCEPT ![t][k] = s]
  PROVE  extraction' \in [Tabs -> [Keys -> Stages]]
BY DEF WorkOK

LEMMA SettleType ==
  ASSUME Typed, NEW t \in Tabs, NEW k \in Keys, NEW o \in Outcomes, Settle(t, k, o)
  PROVE  /\ attempt' \in [Workers -> AttemptType]
         /\ preview' \in [Tabs -> Keys \cup {NoKey}]
         /\ extraction' \in [Tabs -> [Keys -> Stages]]
         /\ \A w \in Workers :
              /\ attempt'[w].key = attempt[w].key /\ attempt'[w].lease = attempt[w].lease
              /\ attempt'[w].stage # "idle" => attempt[w].stage # "idle"
<1>1. extraction' \in [Tabs -> [Keys -> Stages]]
  BY SetExtraction DEF Settle, Stages, Typed, TypeOK
<1>2. preview' \in [Tabs -> Keys \cup {NoKey}]
  BY DEF Settle, Typed, TypeOK, WorkOK
<1>3. ASSUME NEW w \in Workers
      PROVE  /\ attempt'[w] \in AttemptType
             /\ attempt'[w].key = attempt[w].key /\ attempt'[w].lease = attempt[w].lease
             /\ attempt'[w].stage # "idle" => attempt[w].stage # "idle"
  <2>1. attempt[w] \in AttemptType
    BY DEF Typed, TypeOK, WorkOK
  <2>2. CASE w \in Observing(t, k)
    <3>1. attempt'[w] = [attempt[w] EXCEPT !.stage = "finish", !.outcome = o]
      BY <2>2 DEF Settle
    <3>2. attempt[w].stage # "idle"
      BY <2>2 DEF Observing
    <3> QED BY <2>1, <3>1, <3>2 DEF AttemptType
  <2>3. CASE w \notin Observing(t, k)
    BY <2>1, <2>3 DEF Settle
  <2> QED BY <2>2, <2>3
<1>4. attempt' \in [Workers -> AttemptType]
  BY <1>3 DEF Settle
<1> QED BY <1>1, <1>2, <1>3, <1>4

LEMMA SettleAtWork ==
  ASSUME Typed, NEW t \in Tabs, NEW k \in Keys, NEW o \in Outcomes, Settle(t, k, o),
         UNCHANGED processed
  PROVE  AtWork'
<1>1. \A u \in Tabs : <<u, "drain">> \in Workers
  BY DEF Workers
<1> QED BY <1>1, SettleType DEF AtWork, Typed

\* One attempt changes, to another attempt or to none.
LEMMA AttemptChanges ==
  ASSUME Typed, NEW w \in Workers, NEW a \in AttemptType,
         a.stage # "idle" => a.key \in Keys,
         a.stage # "idle" /\ w[2] = "drain" => processed[w[1]] < Limit,
         attempt' = [attempt EXCEPT ![w] = a], UNCHANGED processed
  PROVE  attempt' \in [Workers -> AttemptType] /\ AtWork'
<1>1. attempt' \in [Workers -> AttemptType]
  BY DEF Typed, TypeOK, WorkOK
<1>2. \A v \in Workers : attempt'[v] = IF v = w THEN a ELSE attempt[v]
  BY DEF Typed, TypeOK, WorkOK
<1>3. \A t \in Tabs : <<t, "drain">> \in Workers
  BY DEF Workers
<1> QED BY <1>1, <1>2, <1>3 DEF AtWork, Typed

LEMMA ReturnType ==
  ASSUME Typed, NEW w \in Workers, NEW counted \in {0, 1}, attempt[w].stage # "idle",
         Return(w, counted)
  PROVE  /\ attempt' \in [Workers -> AttemptType]
         /\ todo' \in [Tabs -> SUBSET Keys] /\ processed' \in [Tabs -> 0 .. Limit]
         /\ AtWork'
<1>1. w[1] \in Tabs /\ w[2] \in {"drain", "retry"} /\ w = <<w[1], w[2]>>
  BY DEF Workers
<1>2. attempt' \in [Workers -> AttemptType]
  BY Constants DEF Return, Typed, TypeOK, WorkOK
<1>3. \A v \in Workers : attempt'[v] = IF v = w THEN NoAttempt ELSE attempt[v]
  BY DEF Return, Typed, TypeOK, WorkOK
<1>4. \A t \in Tabs : <<t, "drain">> \in Workers
  BY DEF Workers
<1>5. CASE w[2] = "retry"
  BY <1>1, <1>2, <1>3, <1>4, <1>5, Constants DEF Return, AtWork, Typed, TypeOK, PassOK
<1>6. CASE w[2] = "drain"
  <2>1. processed[w[1]] < Limit
    BY <1>1, <1>6 DEF Typed, AtWork
  <2>2. /\ todo' = [todo EXCEPT ![w[1]] = @ \ {attempt[w].key}]
        /\ processed' = [processed EXCEPT ![w[1]] = @ + counted]
    BY <1>6 DEF Return
  <2>3. todo' \in [Tabs -> SUBSET Keys]
    BY <1>1, <2>2 DEF Typed, TypeOK, PassOK
  <2>4. processed[w[1]] + counted \in 0 .. Limit
    BY <1>1, <2>1, BoundsAssumption DEF Typed, TypeOK, PassOK
  <2>5. processed' \in [Tabs -> 0 .. Limit]
    BY <1>1, <2>2, <2>4 DEF Typed, TypeOK, PassOK
  <2>6. \A t \in Tabs \ {w[1]} : processed'[t] = processed[t]
    BY <1>1, <2>2 DEF Typed, TypeOK, PassOK
  <2>7. ASSUME NEW t \in Tabs, attempt'[<<t, "drain">>].stage # "idle"
        PROVE  processed'[t] < Limit
    BY <1>1, <1>3, <1>4, <1>6, <2>6, <2>7, Constants DEF Typed, AtWork
  <2>8. \A v \in Workers : attempt'[v].stage # "idle" => attempt'[v].key \in Keys
    BY <1>3, Constants DEF Typed, AtWork
  <2> QED BY <1>2, <2>3, <2>5, <2>7, <2>8 DEF AtWork
<1> QED BY <1>1, <1>5, <1>6

LEMMA RecordType2 ==
  ASSUME StoreOK, NEW f \in Files, NEW r \in RecordType,
         record' = [record EXCEPT ![f] = r], UNCHANGED <<file, blob, doc>>
  PROVE  StoreOK'
BY DEF StoreOK

LEMMA DocType ==
  ASSUME StoreOK, NEW k \in Keys, doc' = [doc EXCEPT ![k[1]] = k[2]],
         UNCHANGED <<file, blob, record>>
  PROVE  StoreOK'
BY DEF StoreOK, Keys, Versions

LEMMA ReviseType ==
  ASSUME StoreOK, NEW f \in Files, NEW live \in BOOLEAN, Revise(f, live),
         blob' \subseteq Files, UNCHANGED <<record, doc>>
  PROVE  StoreOK'
<1>1. file[f].version + 1 \in 1 .. MaxVersion
  BY BoundsAssumption DEF Revise, StoreOK, FileType
<1>2. file' = [file EXCEPT ![f] = [version |-> file[f].version + 1, live |-> live]]
  BY DEF Revise
<1>3. file' \in [Files -> FileType]
  BY <1>1, <1>2 DEF StoreOK, FileType
<1> QED BY <1>1, <1>2, <1>3 DEF StoreOK

\* A part of the state that no variable of changes keeps its type.
LEMMA Frame ==
  /\ StoreOK /\ UNCHANGED store => StoreOK'
  /\ ClockOK /\ UNCHANGED clock => ClockOK'
  /\ TabsOK /\ UNCHANGED tabs => TabsOK'
  /\ LoopOK /\ UNCHANGED loop => LoopOK'
  /\ PassOK /\ UNCHANGED pass => PassOK'
  /\ WorkOK /\ UNCHANGED work => WorkOK'
  /\ AtWork /\ UNCHANGED <<attempt, processed>> => AtWork'
<1>1. StoreOK /\ UNCHANGED store => StoreOK'
  BY DEF StoreOK, store
<1>2. ClockOK /\ UNCHANGED clock => ClockOK'
  BY DEF ClockOK, clock
<1>3. TabsOK /\ UNCHANGED tabs => TabsOK'
  BY DEF TabsOK, tabs
<1>4. LoopOK /\ UNCHANGED loop => LoopOK'
  BY DEF LoopOK, loop
<1>5. PassOK /\ UNCHANGED pass => PassOK'
  BY DEF PassOK, pass
<1>6. WorkOK /\ UNCHANGED work => WorkOK'
  BY DEF WorkOK, work
<1>7. AtWork /\ UNCHANGED <<attempt, processed>> => AtWork'
  BY DEF AtWork
<1> QED BY <1>1, <1>2, <1>3, <1>4, <1>5, <1>6, <1>7

-----------------------------------------------------------------------------
(* Types of the actions. *)

LEMMA ExtractReadType ==
  ASSUME Typed, NEW t \in Tabs, NEW k \in Keys, ExtractRead(t, k)
  PROVE  Typed'
<1>1. WorkOK' /\ AtWork'
  <2>1. CASE extraction' = [extraction EXCEPT ![t][k] = "parsing"] /\ UNCHANGED <<attempt, preview>>
    BY <2>1, SetExtraction, Frame DEF ExtractRead, Stages, WorkOK, Typed, TypeOK, pass
  <2>2. CASE Settle(t, k, "conflict")
    BY <2>2, SettleType, SettleAtWork DEF ExtractRead, Outcomes, WorkOK, Typed, TypeOK, pass
  <2>3. CASE Settle(t, k, "ready")
    BY <2>3, SettleType, SettleAtWork DEF ExtractRead, Outcomes, WorkOK, Typed, TypeOK, pass
  <2> QED BY <2>1, <2>2, <2>3 DEF ExtractRead
<1> QED BY <1>1, Frame DEF ExtractRead, Typed, TypeOK

LEMMA ExtractParseType ==
  ASSUME Typed, NEW t \in Tabs, NEW k \in Keys, ExtractParse(t, k)
  PROVE  Typed'
<1>1. WorkOK' /\ AtWork'
  <2>1. CASE extraction' = [extraction EXCEPT ![t][k] = "publishing"] /\ UNCHANGED <<attempt, preview>>
    BY <2>1, SetExtraction, Frame DEF ExtractParse, Stages, WorkOK, Typed, TypeOK, pass
  <2>2. CASE Settle(t, k, "conflict")
    BY <2>2, SettleType, SettleAtWork DEF ExtractParse, Outcomes, WorkOK, Typed, TypeOK, pass
  <2>3. CASE Settle(t, k, "failed")
    BY <2>3, SettleType, SettleAtWork DEF ExtractParse, Outcomes, WorkOK, Typed, TypeOK, pass
  <2> QED BY <2>1, <2>2, <2>3 DEF ExtractParse
<1> QED BY <1>1, Frame DEF ExtractParse, Typed, TypeOK

LEMMA ExtractPublishType ==
  ASSUME Typed, NEW t \in Tabs, NEW k \in Keys, ExtractPublish(t, k)
  PROVE  Typed'
<1>1. PICK o \in {"failed", "conflict", "ready"} : Settle(t, k, o)
  BY DEF ExtractPublish
<1>2. WorkOK' /\ AtWork'
  BY <1>1, SettleType, SettleAtWork DEF ExtractPublish, Outcomes, WorkOK, Typed, TypeOK, pass
<1>3. StoreOK'
  BY DocType, Frame DEF ExtractPublish, Typed, TypeOK, store
<1> QED BY <1>2, <1>3, Frame DEF ExtractPublish, Typed, TypeOK

LEMMA ExtractBreakType ==
  ASSUME Typed, NEW t \in Tabs, NEW k \in Keys, ExtractBreak(t, k)
  PROVE  Typed'
<1>1. WorkOK' /\ AtWork'
  BY SettleType, SettleAtWork DEF ExtractBreak, Outcomes, WorkOK, Typed, TypeOK, pass
<1>2. spent' \in [DOMAIN Allowed -> Nat]
  BY SpendType, Kinds DEF ExtractBreak, Typed, TypeOK
<1> QED BY <1>1, <1>2, Frame DEF ExtractBreak, Typed, TypeOK

LEMMA OrphanPublishType ==
  ASSUME Typed, NEW t \in Tabs, NEW k \in Keys, OrphanPublish(t, k)
  PROVE  Typed'
<1>1. StoreOK'
  BY DocType, Frame DEF OrphanPublish, Typed, TypeOK, store
<1>2. WorkOK' /\ AtWork'
  BY Frame DEF OrphanPublish, WorkOK, Typed, TypeOK, pass
<1> QED BY <1>1, <1>2, Frame DEF OrphanPublish, Typed, TypeOK

LEMMA PreviewType ==
  ASSUME Typed, NEW t \in Tabs, NEW f \in Files, Preview(t, f)
  PROVE  Typed'
<1> DEFINE k == <<f, file[f].version>>
<1>1. k \in Keys
  BY CurrentKey DEF Preview, Typed, TypeOK
<1>2. extraction' \in [Tabs -> [Keys -> Stages]]
  BY <1>1, JoinType DEF Preview, Typed, TypeOK
<1>3. preview' \in [Tabs -> Keys \cup {NoKey}]
  BY <1>1 DEF Preview, Typed, TypeOK, WorkOK
<1>4. WorkOK' /\ AtWork'
  BY <1>2, <1>3, Frame DEF Preview, WorkOK, Typed, TypeOK, pass
<1>5. spent' \in [DOMAIN Allowed -> Nat]
  BY SpendType, Kinds DEF Preview, Typed, TypeOK
<1> QED BY <1>4, <1>5, Frame DEF Preview, Typed, TypeOK

LEMMA LeavePreviewType ==
  ASSUME Typed, NEW t \in Tabs, LeavePreview(t)
  PROVE  Typed'
<1>1. preview[t] \in Keys
  BY DEF LeavePreview, Typed, TypeOK, WorkOK
<1>2. extraction' \in [Tabs -> [Keys -> Stages]]
  BY <1>1, SetExtraction DEF LeavePreview, Typed, TypeOK, WorkOK, Stages
<1>3. orphans' \subseteq Tabs \X Keys
  BY <1>1 DEF LeavePreview, Typed, TypeOK, WorkOK
<1>4. preview' \in [Tabs -> Keys \cup {NoKey}]
  BY DEF LeavePreview, Typed, TypeOK, WorkOK
<1>5. WorkOK' /\ AtWork'
  BY <1>2, <1>3, <1>4, Frame DEF LeavePreview, WorkOK, Typed, TypeOK, pass
<1> QED BY <1>5, Frame DEF LeavePreview, Typed, TypeOK

\* An attempt that goes on to stage s with lease n.
LEMMA GoesOn ==
  ASSUME Typed, NEW w \in Workers, attempt[w].stage # "idle",
         NEW s \in {"available", "claim", "extract"}, NEW n \in Nat,
         attempt' = [attempt EXCEPT ![w] = [attempt[w] EXCEPT !.stage = s, !.lease = n]],
         UNCHANGED processed
  PROVE  attempt' \in [Workers -> AttemptType] /\ AtWork'
<1> DEFINE a == [attempt[w] EXCEPT !.stage = s, !.lease = n]
<1>1. attempt[w] \in AttemptType
  BY DEF Typed, TypeOK, WorkOK
<1>2. a \in AttemptType /\ a.key = attempt[w].key /\ a.stage = s
  BY <1>1 DEF AttemptType
<1>3. a.key \in Keys
  BY <1>2 DEF Typed, AtWork
<1>4. w[2] = "drain" => w = <<w[1], "drain">> /\ w[1] \in Tabs
  BY DEF Workers
<1>5. w[2] = "drain" => processed[w[1]] < Limit
  BY <1>4 DEF Typed, AtWork
<1> HIDE DEF a
<1> QED BY <1>2, <1>3, <1>5, AttemptChanges DEF a

LEMMA GetType ==
  ASSUME Typed, NEW w \in Workers, Get(w)
  PROVE  Typed'
<1>1. attempt[w] \in AttemptType /\ attempt[w].stage = "get"
  BY DEF Get, Typed, TypeOK, WorkOK
<1>2. CASE attempt' = [attempt EXCEPT ![w].stage = "available"] /\ UNCHANGED <<todo, processed>>
  <2>1. attempt' = [attempt EXCEPT ![w] = [attempt[w] EXCEPT !.stage = "available",
                                                            !.lease = attempt[w].lease]]
    BY <1>1, <1>2 DEF AttemptType, Typed, TypeOK, WorkOK
  <2>2. attempt' \in [Workers -> AttemptType] /\ AtWork'
    BY <1>1, <1>2, <2>1, GoesOn DEF AttemptType
  <2> QED BY <1>2, <2>2, Frame DEF Get, Typed, TypeOK, WorkOK, PassOK
<1>3. CASE Return(w, 0)
  BY <1>1, <1>3, ReturnType, Frame DEF Get, Typed, TypeOK, WorkOK, PassOK
<1> QED BY <1>2, <1>3 DEF Get

LEMMA AvailableType ==
  ASSUME Typed, NEW w \in Workers, Available(w)
  PROVE  Typed'
<1>1. attempt[w] \in AttemptType /\ attempt[w].stage = "available"
  BY DEF Available, Typed, TypeOK, WorkOK
<1>2. CASE attempt' = [attempt EXCEPT ![w].stage = "claim"] /\ UNCHANGED <<todo, processed>>
  <2>1. attempt' = [attempt EXCEPT ![w] = [attempt[w] EXCEPT !.stage = "claim",
                                                            !.lease = attempt[w].lease]]
    BY <1>1, <1>2 DEF AttemptType, Typed, TypeOK, WorkOK
  <2>2. attempt' \in [Workers -> AttemptType] /\ AtWork'
    BY <1>1, <1>2, <2>1, GoesOn DEF AttemptType
  <2> QED BY <1>2, <2>2, Frame DEF Available, Typed, TypeOK, WorkOK, PassOK
<1>3. CASE Return(w, 0)
  BY <1>1, <1>3, ReturnType, Frame DEF Available, Typed, TypeOK, WorkOK, PassOK
<1> QED BY <1>2, <1>3 DEF Available

LEMMA ClaimType ==
  ASSUME Typed, NEW w \in Workers, Claim(w)
  PROVE  Typed'
<1> DEFINE k == attempt[w].key
<1>1. /\ attempt[w] \in AttemptType /\ attempt[w].stage = "claim"
      /\ k \in Keys /\ w[1] \in Tabs
  BY DEF Claim, Typed, TypeOK, WorkOK, AtWork, Workers
<1>2. CASE Return(w, 0) /\ UNCHANGED <<record, leases, extraction>>
  BY <1>1, <1>2, ReturnType, Frame
  DEF Claim, Typed, TypeOK, WorkOK, PassOK, store, clock
<1>3. CASE /\ leases' = leases + 1
           /\ record' = [record EXCEPT ![k[1]] =
                [version |-> k[2], state |-> "RUNNING", lease |-> leases']]
           /\ attempt' = [attempt EXCEPT ![w].stage = "extract", ![w].lease = leases']
           /\ Join(w[1], k)
           /\ UNCHANGED <<todo, processed>>
  <2>1. leases' \in Nat /\ ClockOK'
    BY <1>3 DEF Claim, Typed, TypeOK, ClockOK
  <2>2. k[1] \in Files /\ [version |-> k[2], state |-> "RUNNING", lease |-> leases'] \in RecordType
    BY <1>1, <2>1 DEF Keys, Versions, RecordType
  <2>3. StoreOK'
    BY <1>3, <2>2, RecordType2 DEF Claim, Typed, TypeOK
  <2>4. attempt' = [attempt EXCEPT ![w] = [attempt[w] EXCEPT !.stage = "extract", !.lease = leases']]
    BY <1>1, <1>3 DEF AttemptType, Typed, TypeOK, WorkOK
  <2>5. attempt' \in [Workers -> AttemptType] /\ AtWork'
    BY <1>1, <1>3, <2>1, <2>4, GoesOn
  <2>6. extraction' \in [Tabs -> [Keys -> Stages]]
    BY <1>1, <1>3, JoinType DEF Typed, TypeOK
  <2> QED BY <1>3, <2>1, <2>3, <2>5, <2>6, Frame DEF Claim, Typed, TypeOK, WorkOK, PassOK
<1> QED BY <1>2, <1>3 DEF Claim

LEMMA FinishType ==
  ASSUME Typed, NEW w \in Workers, Finish(w)
  PROVE  Typed'
<1> DEFINE k == attempt[w].key
<1>1. attempt[w].stage # "idle" /\ k \in Keys
  BY DEF Finish, Typed, AtWork
<1>2. PICK c \in {0, 1} : Return(w, c)
  BY DEF Finish
<1>3. StoreOK'
  <2>1. CASE UNCHANGED record
    BY <2>1, Frame DEF Finish, Typed, TypeOK, store
  <2> DEFINE result == IF attempt[w].outcome = "ready" /\ doc[k[1]] = k[2]
                       THEN "READY" ELSE "FAILED"
  <2>2. CASE record' = [record EXCEPT ![k[1]].state = result]
    <3>1. k[1] \in Files /\ record[k[1]] \in RecordType
      BY <1>1 DEF Keys, Typed, TypeOK, StoreOK
    <3>2. [record[k[1]] EXCEPT !.state = result] \in RecordType
      BY <3>1 DEF RecordType
    <3> QED BY <2>2, <3>1, <3>2, RecordType2 DEF Finish, Typed, TypeOK
  <2> QED BY <2>1, <2>2 DEF Finish
<1>4. /\ attempt' \in [Workers -> AttemptType]
      /\ todo' \in [Tabs -> SUBSET Keys] /\ processed' \in [Tabs -> 0 .. Limit]
      /\ AtWork'
  BY <1>1, <1>2, ReturnType
<1> QED BY <1>3, <1>4, Frame DEF Finish, Typed, TypeOK, WorkOK, PassOK

LEMMA SkipType ==
  ASSUME Typed, NEW w \in Workers, Skip(w)
  PROVE  Typed'
<1>1. attempt[w].stage # "idle" /\ Return(w, 0)
  BY DEF Skip
<1>2. /\ attempt' \in [Workers -> AttemptType]
      /\ todo' \in [Tabs -> SUBSET Keys] /\ processed' \in [Tabs -> 0 .. Limit]
      /\ AtWork'
  BY <1>1, ReturnType
<1> QED BY <1>2, Frame DEF Skip, Typed, TypeOK, WorkOK, PassOK

LEMMA RaiseType ==
  ASSUME Typed, NEW w \in Workers, Raise(w), spent' \in [DOMAIN Allowed -> Nat]
  PROVE  Typed'
<1>1. w[1] \in Tabs /\ w[2] \in {"drain", "retry"}
  BY DEF Workers
<1>2. attempt' \in [Workers -> AttemptType]
  BY Constants DEF Raise, Typed, TypeOK, WorkOK
<1>3. \A v \in Workers : attempt'[v] = IF v = w THEN NoAttempt ELSE attempt[v]
  BY DEF Raise, Typed, TypeOK, WorkOK
<1>4. PassOK' /\ LoopOK'
  <2>1. CASE w[2] = "retry"
    BY <2>1, Frame DEF Raise, Typed, TypeOK, loop
  <2>2. CASE w[2] = "drain"
    BY <1>1, <2>2, BoundsAssumption DEF Raise, Typed, TypeOK, PassOK, LoopOK, Jobs
  <2> QED BY <1>1, <2>1, <2>2
<1>5. \A t \in Tabs : processed'[t] = processed[t] \/ processed'[t] < Limit
  BY <1>1, BoundsAssumption DEF Raise, Typed, TypeOK, PassOK, pass
<1>6. \A t \in Tabs : <<t, "drain">> \in Workers
  BY DEF Workers
<1>7. AtWork'
  BY <1>3, <1>5, <1>6, Constants DEF AtWork, Typed
<1> QED BY <1>2, <1>4, <1>7, Frame DEF Raise, Typed, TypeOK, WorkOK

LEMMA BrokenType ==
  ASSUME Typed, NEW w \in Workers, ExtractionBroken(w) \/ StoreBroken(w)
  PROVE  Typed'
<1>1. spent' \in [DOMAIN Allowed -> Nat]
  BY SpendType, Kinds DEF ExtractionBroken, StoreBroken, Typed, TypeOK
<1> QED BY <1>1, RaiseType DEF ExtractionBroken, StoreBroken

LEMMA RetryType ==
  ASSUME Typed, NEW t \in Tabs, NEW f \in Files, Retry(t, f)
  PROVE  Typed'
<1> DEFINE w == <<t, "retry">>
           a == [NoAttempt EXCEPT !.stage = "get", !.key = <<f, file[f].version>>]
<1>1. <<f, file[f].version>> \in Keys
  BY CurrentKey DEF Retry, Typed, TypeOK
<1>2. a \in AttemptType /\ a.key \in Keys
  BY <1>1, Constants DEF AttemptType, NoAttempt
<1>3. w \in Workers /\ w[2] # "drain"
  BY DEF Workers
<1>4. attempt' = [attempt EXCEPT ![w] = a] /\ UNCHANGED processed
  BY DEF Retry, pass
<1>5. attempt' \in [Workers -> AttemptType] /\ AtWork'
  <2> HIDE DEF a, w
  <2> QED BY <1>2, <1>3, <1>4, AttemptChanges
<1>6. spent' \in [DOMAIN Allowed -> Nat]
  BY SpendType, Kinds DEF Retry, Typed, TypeOK
<1> QED BY <1>5, <1>6, Frame DEF Retry, Typed, TypeOK, WorkOK

LEMMA DrainNextType ==
  ASSUME Typed, NEW t \in Tabs, DrainNext(t)
  PROVE  Typed'
<1> DEFINE w == <<t, "drain">>
<1>1. PICK k \in todo[t] : attempt' = [attempt EXCEPT ![w] = [NoAttempt EXCEPT !.stage = "get", !.key = k]]
  BY DEF DrainNext
<1> DEFINE a == [NoAttempt EXCEPT !.stage = "get", !.key = k]
<1>2. k \in Keys
  BY DEF Typed, TypeOK, PassOK
<1>3. a \in AttemptType /\ a.key \in Keys
  BY <1>2, Constants DEF AttemptType, NoAttempt
<1>4. w \in Workers /\ w[1] = t /\ processed[w[1]] < Limit /\ UNCHANGED processed
  BY DEF Workers, DrainNext, pass
<1>5. attempt' \in [Workers -> AttemptType] /\ AtWork'
  <2> HIDE DEF a, w
  <2> QED BY <1>1, <1>3, <1>4, AttemptChanges DEF a
<1> QED BY <1>5, Frame DEF DrainNext, Typed, TypeOK, WorkOK

LEMMA StartType ==
  ASSUME Typed, NEW t \in Tabs, Start(t) \/ TimerFires(t)
  PROVE  Typed'
<1>1. LoopOK'
  BY WakeType DEF Start, TimerFires, Typed, TypeOK
<1>2. TabsOK'
  BY Frame DEF Start, TimerFires, Typed, TypeOK, TabsOK, tabs
<1> QED BY <1>1, <1>2, Frame DEF Start, TimerFires, Typed, TypeOK, pass, work

\* A step of the loop outside an attempt.
LEMMA JobType ==
  ASSUME Typed, NEW t \in Tabs,
         \/ List(t) \/ DrainEnd(t) \/ PauseEnd(t)
         \/ Scan(t) \/ ScanNext(t) \/ JobEnd(t) \/ JobBreaks(t)
  PROVE  Typed'
<1>1. LoopOK'
  BY DEF List, DrainEnd, PauseEnd, Scan, ScanNext, JobEnd, JobBreaks, Typed, TypeOK, LoopOK,
     PassOK, Jobs, loop
<1>2. todo' \in [Tabs -> SUBSET Keys]
  BY ListedType DEF List, DrainEnd, PauseEnd, Scan, ScanNext, JobEnd, JobBreaks, Typed, TypeOK,
     PassOK, pass
<1>3. processed' \in [Tabs -> 0 .. Limit] /\ \A u \in Tabs : processed'[u] = processed[u] \/ processed'[u] < Limit
  BY BoundsAssumption DEF List, DrainEnd, PauseEnd, Scan, ScanNext, JobEnd, JobBreaks, Typed,
     TypeOK, PassOK, pass
<1>4. earliest' \in [Tabs -> Nat]
  <2>1. CASE ScanNext(t)
    <3>1. PICK k \in todo[t] : earliest' = [earliest EXCEPT ![t] =
            IF /\ IsCurrent(k) /\ Matching(k[1]) = "RUNNING"
               /\ @ = NoTimer \/ record[k[1]].lease < @
            THEN record[k[1]].lease ELSE @]
      BY <2>1 DEF ScanNext
    <3>2. k[1] \in Files /\ record[k[1]].lease \in Nat
      BY DEF Typed, TypeOK, PassOK, Keys, StoreOK, RecordType
    <3> QED BY <3>1, <3>2 DEF Typed, TypeOK, PassOK
  <2>2. CASE ~ScanNext(t)
    BY <2>2 DEF List, DrainEnd, PauseEnd, Scan, JobEnd, JobBreaks, Typed, TypeOK, PassOK, pass,
       NoTimer
  <2> QED BY <2>1, <2>2
<1>5. UNCHANGED <<store, clock, tabs, work>>
  BY DEF List, DrainEnd, PauseEnd, Scan, ScanNext, JobEnd, JobBreaks
<1>6. AtWork'
  BY <1>3, <1>5 DEF AtWork, Typed, work
<1>7. spent' \in [DOMAIN Allowed -> Nat]
  BY SpendType, Kinds DEF List, DrainEnd, PauseEnd, Scan, ScanNext, JobEnd, JobBreaks, Typed, TypeOK
<1> QED BY <1>1, <1>2, <1>3, <1>4, <1>5, <1>6, <1>7, Frame DEF Typed, TypeOK, PassOK

\* The users, the other devices and the downloads.
LEMMA WorkspaceType ==
  ASSUME Typed, NEW f \in Files,
         \/ \E t \in Tabs : Upload(t, f) \/ Edit(t, f) \/ Delete(t, f) \/ Hydrate(t, f)
         \/ Pull(f)
  PROVE  Typed'
<1>1. StoreOK'
  <2>1. CASE \E t \in Tabs : Hydrate(t, f)
    BY <2>1 DEF Hydrate, Typed, TypeOK, StoreOK
  <2>2. CASE \E t \in Tabs : Upload(t, f)
    BY <2>2, ReviseType DEF Upload, Typed, TypeOK, StoreOK
  <2>3. CASE \E t \in Tabs : Edit(t, f) \/ Delete(t, f)
    BY <2>3, ReviseType DEF Edit, Delete, Typed, TypeOK, StoreOK
  <2>4. CASE Pull(f)
    BY <2>4, ReviseType DEF Pull, Typed, TypeOK, StoreOK
  <2> QED BY <2>1, <2>2, <2>3, <2>4
<1>2. LoopOK'
  BY WakeType, Frame DEF Upload, Edit, Delete, Pull, Hydrate, Typed, TypeOK
<1>3. WorkOK'
  BY Frame DEF Upload, Edit, Delete, Pull, Hydrate, Typed, TypeOK, WorkOK
<1>4. UNCHANGED <<clock, tabs, pass, attempt, spent>>
  BY DEF Upload, Edit, Delete, Pull, Hydrate, work
<1> QED BY <1>1, <1>2, <1>3, <1>4, Frame DEF Typed, TypeOK, pass

LEMMA ReadBytesType ==
  ASSUME Typed, NEW t \in Tabs, NEW f \in Files, ReadBytes(t, f)
  PROVE  Typed'
<1>1. LoopOK'
  BY WakeType DEF ReadBytes, Typed, TypeOK
<1>2. WorkOK'
  BY DEF ReadBytes, Typed, TypeOK, WorkOK
<1>3. spent' \in [DOMAIN Allowed -> Nat]
  BY SpendType, Kinds DEF ReadBytes, Typed, TypeOK
<1> QED BY <1>1, <1>2, <1>3, Frame DEF ReadBytes, Typed, TypeOK, pass

LEMMA ClockType ==
  ASSUME Typed, ClockPasses
  PROVE  Typed'
<1>1. ClockOK'
  BY DEF ClockPasses, Typed, TypeOK, ClockOK
<1>2. spent' \in [DOMAIN Allowed -> Nat]
  BY SpendType, Kinds DEF ClockPasses, Typed, TypeOK
<1> QED BY <1>1, <1>2, Frame DEF ClockPasses, Typed, TypeOK, pass, work

LEMMA OpenType ==
  ASSUME Typed, NEW t \in Tabs, Open(t)
  PROVE  Typed'
<1>1. TabsOK'
  BY DEF Open, Typed, TypeOK, TabsOK
<1> QED BY <1>1, Frame DEF Open, Typed, TypeOK, pass, work

LEMMA CrashType ==
  ASSUME Typed, NEW t \in Tabs, Crash(t)
  PROVE  Typed'
<1>1. TabsOK' /\ LoopOK' /\ PassOK'
  BY BoundsAssumption DEF Crash, Typed, TypeOK, TabsOK, LoopOK, PassOK, Jobs, NoTimer
<1>2. attempt' \in [Workers -> AttemptType]
  BY Constants DEF Crash, Typed, TypeOK, WorkOK
<1>3. WorkOK'
  <2>1. [k \in Keys |-> "none"] \in [Keys -> Stages]
    BY DEF Stages
  <2>2. extraction' \in [Tabs -> [Keys -> Stages]]
    BY <2>1 DEF Crash, Typed, TypeOK, WorkOK
  <2>3. orphans' \subseteq Tabs \X Keys /\ preview' \in [Tabs -> Keys \cup {NoKey}]
    BY DEF Crash, Typed, TypeOK, WorkOK
  <2>4. downloading' \in [Tabs -> SUBSET Files]
    BY DEF Crash, Typed, TypeOK, WorkOK
  <2> QED BY <1>2, <2>2, <2>3, <2>4 DEF WorkOK
<1>4. \A v \in Workers : attempt'[v] = IF v[1] = t THEN NoAttempt ELSE attempt[v]
  BY DEF Crash
<1>5. \A u \in Tabs : processed'[u] = IF u = t THEN 0 ELSE processed[u]
  BY DEF Crash, Typed, TypeOK, PassOK
<1>6. AtWork'
  BY <1>4, <1>5, BoundsAssumption, Constants DEF AtWork, Typed, Workers
<1>7. spent' \in [DOMAIN Allowed -> Nat]
  BY SpendType, Kinds DEF Crash, Typed, TypeOK
<1> QED BY <1>1, <1>3, <1>6, <1>7, Frame DEF Crash, Typed, TypeOK

-----------------------------------------------------------------------------

LEMMA InitTyped == Init => Typed
<1> SUFFICES ASSUME Init PROVE Typed
  OBVIOUS
<1>1. StoreOK /\ ClockOK /\ TabsOK /\ LoopOK /\ PassOK
  BY Constants, BoundsAssumption
  DEF Init, StoreOK, ClockOK, TabsOK, LoopOK, PassOK, FileType, Jobs, NoTimer
<1>2. WorkOK
  BY Constants DEF Init, WorkOK, Stages
<1>3. spent \in [DOMAIN Allowed -> Nat]
  BY DEF Init
<1>4. \A w \in Workers : attempt[w].stage = "idle"
  BY Constants DEF Init
<1>5. \A t \in Tabs : <<t, "drain">> \in Workers
  BY DEF Workers
<1> QED BY <1>1, <1>2, <1>3, <1>4, <1>5 DEF Typed, TypeOK, AtWork

LEMMA NextTyped == Typed /\ [Next]_vars => Typed'
<1> SUFFICES ASSUME Typed, [Next]_vars PROVE Typed'
  OBVIOUS
<1>1. CASE \E w \in Workers : Attempt(w) \/ StoreBroken(w)
  BY <1>1, GetType, AvailableType, ClaimType, FinishType, SkipType, BrokenType DEF Attempt
<1>2. CASE \E t \in Tabs : Open(t) \/ Crash(t) \/ Start(t) \/ TimerFires(t)
  BY <1>2, OpenType, CrashType, StartType
<1>3. CASE \E t \in Tabs : Job(t) \/ JobBreaks(t)
  BY <1>3, JobType, DrainNextType DEF Job
<1>4. CASE \E t \in Tabs : Users(t)
  BY <1>4, LeavePreviewType, WorkspaceType, ReadBytesType, RetryType, PreviewType DEF Users
<1>5. CASE \E t \in Tabs, f \in Files : Hydrate(t, f)
  BY <1>5, WorkspaceType
<1>6. CASE \E t \in Tabs, k \in Keys : Extract(t, k) \/ ExtractBreak(t, k) \/ OrphanPublish(t, k)
  BY <1>6, ExtractReadType, ExtractParseType, ExtractPublishType, ExtractBreakType,
     OrphanPublishType DEF Extract
<1>7. CASE \E f \in Files : Pull(f)
  BY <1>7, WorkspaceType
<1>8. CASE ClockPasses
  BY <1>8, ClockType
<1>9. CASE UNCHANGED vars
  BY <1>9, Frame DEF vars, Typed, TypeOK, pass, work
<1> QED BY <1>1, <1>2, <1>3, <1>4, <1>5, <1>6, <1>7, <1>8, <1>9 DEF Next

\* Every variable keeps its type, and no drain counts more files than its limit
\* (drain, wakeFileProcessing).
THEOREM TypeCorrect == Spec => []TypeOK
<1>1. Typed => TypeOK
  BY DEF Typed
<1> QED BY <1>1, InitTyped, NextTyped, PTL DEF Spec

\* The invariant the other proofs stand on.
LEMMA AlwaysTyped == Spec => []Typed
BY InitTyped, NextTyped, PTL DEF Spec

-----------------------------------------------------------------------------
(* What the leases guarantee. *)

\* No attempt and no listing is ahead of its file; no two attempts have the same
\* lease; and an attempt whose lease has not expired is the one the journal
\* names, unless the file has changed.
Leases ==
  /\ \A w \in Workers : attempt[w].lease <= leases
  /\ \A v, w \in Workers : v # w /\ attempt[v].lease = attempt[w].lease => attempt[v].lease = 0
  /\ \A w \in Workers :
       attempt[w].stage # "idle" => attempt[w].key[2] <= file[attempt[w].key[1]].version
  /\ \A t \in Tabs, k \in Keys : k \in todo[t] => k[2] <= file[k[1]].version
  /\ \A w \in Workers : attempt[w].lease # 0 => attempt[w].stage # "idle"
  /\ \A w \in Workers :
       attempt[w].lease > past /\ file[attempt[w].key[1]].version = attempt[w].key[2]
         => HoldsLease(w)

\* An attempt keeps its key and lease, ends, or begins without a lease.
Kept(a, b) ==
  \/ b.key = a.key /\ b.lease = a.lease /\ (b.stage # "idle" <=> a.stage # "idle")
  \/ b.lease = 0 /\ (b.stage # "idle" => b.key[2] <= file[b.key[1]].version)

-----------------------------------------------------------------------------
(* How the actions change the journal, the leases and the files. *)

LEMMA SettleKept ==
  ASSUME Typed, NEW t \in Tabs, NEW k \in Keys, NEW o \in Outcomes, Settle(t, k, o)
  PROVE  \A w \in Workers : Kept(attempt[w], attempt'[w])
<1> SUFFICES ASSUME NEW w \in Workers PROVE Kept(attempt[w], attempt'[w])
  OBVIOUS
<1>1. attempt[w] \in AttemptType
  BY DEF Typed, TypeOK, WorkOK
<1>2. attempt[w].stage # "idle" => attempt'[w].stage # "idle"
  BY <1>1 DEF Settle, Observing, AttemptType
<1> QED BY <1>2, SettleType DEF Kept

LEMMA ReturnKept ==
  ASSUME Typed, NEW w \in Workers, NEW c, Return(w, c)
  PROVE  \A v \in Workers : Kept(attempt[v], attempt'[v])
BY Constants DEF Return, Kept, Typed, TypeOK, WorkOK

\* Every step that neither claims nor finishes leaves the journal alone.
LEMMA JournalFrame ==
  ASSUME Typed, [Next]_vars, \A w \in Workers : ~Claim(w) /\ ~Finish(w)
  PROVE  UNCHANGED <<record, leases>>
<1>1. CASE \E w \in Workers : Attempt(w) \/ StoreBroken(w)
  BY <1>1 DEF Attempt, Get, Available, Skip, ExtractionBroken, StoreBroken, Raise, store, clock
<1>2. CASE \E t \in Tabs : \/ Open(t) \/ Crash(t) \/ Start(t) \/ TimerFires(t)
                           \/ \E f \in Files : Hydrate(t, f)
  BY <1>2 DEF Open, Crash, Start, TimerFires, Hydrate, store, clock
<1>3. CASE \E t \in Tabs : Job(t) \/ JobBreaks(t)
  BY <1>3 DEF Job, List, DrainNext, DrainEnd, PauseEnd, Scan, ScanNext, JobEnd, JobBreaks, store, clock
<1>4. CASE \E t \in Tabs : Users(t)
  BY <1>4 DEF Users, LeavePreview, Upload, Edit, Delete, ReadBytes, Retry, Preview, store, clock
<1>5. CASE \E t \in Tabs, k \in Keys : Extract(t, k) \/ ExtractBreak(t, k) \/ OrphanPublish(t, k)
  BY <1>5 DEF Extract, ExtractRead, ExtractParse, ExtractPublish, ExtractBreak, OrphanPublish, store, clock
<1>6. CASE (\E f \in Files : Pull(f)) \/ ClockPasses \/ UNCHANGED vars
  BY <1>6 DEF Pull, ClockPasses, vars, store, clock
<1> QED BY <1>1, <1>2, <1>3, <1>4, <1>5, <1>6 DEF Next

\* Every step that does not claim keeps the attempts as Kept says.
LEMMA AttemptFrame ==
  ASSUME Typed, Leases, [Next]_vars, \A w \in Workers : ~Claim(w)
  PROVE  \A v \in Workers : Kept(attempt[v], attempt'[v])
<1>1. CASE UNCHANGED attempt
  BY <1>1 DEF Kept
<1>2. CASE \E w \in Workers : Attempt(w) \/ StoreBroken(w)
  <2>1. PICK w \in Workers : Attempt(w) \/ StoreBroken(w)
    BY <1>2
  <2>2. CASE \E c : Return(w, c)
    BY <2>2, ReturnKept
  <2>3. CASE Raise(w)
    BY <2>3, Constants DEF Raise, Kept, Typed, TypeOK, WorkOK
  <2>4. CASE /\ attempt[w].stage # "idle"
             /\ \E s \in {"available", "claim"} : attempt' = [attempt EXCEPT ![w].stage = s]
    BY <2>4 DEF Kept, Typed, TypeOK, WorkOK, AttemptType
  <2> QED BY <2>1, <2>2, <2>3, <2>4
          DEF Attempt, Get, Available, Finish, Skip, ExtractionBroken, StoreBroken
<1>3. CASE \E t \in Tabs : DrainNext(t) \/ \E f \in Files : Retry(t, f)
  <2>1. ASSUME NEW w \in Workers, NEW k \in Keys, k[2] <= file[k[1]].version,
               attempt' = [attempt EXCEPT ![w] = [NoAttempt EXCEPT !.stage = "get", !.key = k]]
        PROVE  \A v \in Workers : Kept(attempt[v], attempt'[v])
    BY <2>1 DEF Kept, NoAttempt, Typed, TypeOK, WorkOK
  <2>2. CASE \E t \in Tabs : DrainNext(t)
    <3>1. PICK t \in Tabs : DrainNext(t)
      BY <2>2
    <3>2. PICK k \in todo[t] : attempt' = [attempt EXCEPT ![<<t, "drain">>] =
                                  [NoAttempt EXCEPT !.stage = "get", !.key = k]]
      BY <3>1 DEF DrainNext
    <3>3. k \in Keys /\ k[2] <= file[k[1]].version /\ <<t, "drain">> \in Workers
      BY DEF Leases, Typed, TypeOK, PassOK, Workers
    <3> QED BY <2>1, <3>2, <3>3
  <2>3. CASE \E t \in Tabs, f \in Files : Retry(t, f)
    <3>1. PICK t \in Tabs, f \in Files : Retry(t, f)
      BY <2>3
    <3>2. <<f, file[f].version>> \in Keys /\ <<t, "retry">> \in Workers
      BY <3>1, CurrentKey DEF Retry, Typed, TypeOK, Workers
    <3>3. file[f].version <= file[f].version
      BY DEF Typed, TypeOK, StoreOK, FileType
    <3> QED BY <2>1, <3>1, <3>2, <3>3 DEF Retry
  <2> QED BY <1>3, <2>2, <2>3
<1>4. CASE \E t \in Tabs, k \in Keys, o \in Outcomes : Settle(t, k, o)
  BY <1>4, SettleKept
<1>5. CASE \E t \in Tabs : Crash(t)
  BY <1>5, Constants DEF Crash, Kept
<1>6. CASE \E t \in Tabs, k \in Keys : Extract(t, k) \/ ExtractBreak(t, k)
  <2>1. ASSUME NEW t \in Tabs, NEW k \in Keys, Extract(t, k) \/ ExtractBreak(t, k)
        PROVE  UNCHANGED attempt \/ \E o \in {"ready", "failed", "conflict", "broken"} : Settle(t, k, o)
    BY <2>1 DEF Extract, ExtractRead, ExtractParse, ExtractPublish, ExtractBreak
  <2> QED BY <1>6, <2>1, <1>1, <1>4 DEF Outcomes
<1>7. CASE \E t \in Tabs : \/ Open(t) \/ Start(t) \/ TimerFires(t) \/ JobBreaks(t) \/ Users(t)
                           \/ Job(t) \/ \E f \in Files : Hydrate(t, f)
  <2>1. ASSUME NEW t \in Tabs,
               Open(t) \/ Start(t) \/ TimerFires(t) \/ JobBreaks(t) \/ \E f \in Files : Hydrate(t, f)
        PROVE  UNCHANGED attempt
    BY <2>1 DEF Open, Start, TimerFires, JobBreaks, Hydrate, work
  <2>2. ASSUME NEW t \in Tabs, Job(t), ~DrainNext(t)
        PROVE  UNCHANGED attempt
    BY <2>2 DEF Job, List, DrainEnd, PauseEnd, Scan, ScanNext, JobEnd, work
  <2>3. ASSUME NEW t \in Tabs, Users(t), \A f \in Files : ~Retry(t, f)
        PROVE  UNCHANGED attempt
    BY <2>3 DEF Users, LeavePreview, Upload, Edit, Delete, ReadBytes, Preview, work
  <2> QED BY <1>7, <1>1, <1>3, <2>1, <2>2, <2>3, Zenon
<1>8. CASE (\E t \in Tabs, k \in Keys : OrphanPublish(t, k)) \/ (\E f \in Files : Pull(f))
           \/ ClockPasses \/ UNCHANGED vars
  BY <1>8, <1>1 DEF OrphanPublish, Pull, ClockPasses, vars, work
<1> QED BY <1>2, <1>5, <1>6, <1>7, <1>8 DEF Next

\* A file stays as it is or becomes its next version; the clock does not go back.
LEMMA WorldFrame ==
  ASSUME Typed, [Next]_vars
  PROVE  /\ \A f \in Files : file'[f] = file[f] \/ file'[f].version = file[f].version + 1
         /\ past <= past'
<1>0. ASSUME NEW f \in Files, NEW live \in BOOLEAN, Revise(f, live)
      PROVE  \A g \in Files : file'[g] = file[g] \/ file'[g].version = file[g].version + 1
  BY <1>0 DEF Revise, Typed, TypeOK, StoreOK, FileType
<1>1. CASE UNCHANGED <<file, past>>
  BY <1>1 DEF Typed, TypeOK, ClockOK
<1>2. CASE \E w \in Workers : Attempt(w) \/ StoreBroken(w)
  BY <1>1, <1>2 DEF Attempt, Get, Available, Claim, Finish, Skip, ExtractionBroken, StoreBroken,
     Raise, store, clock
<1>3. CASE \E t \in Tabs : \/ Open(t) \/ Crash(t) \/ Start(t) \/ TimerFires(t) \/ Job(t) \/ JobBreaks(t)
                           \/ \E f \in Files : Hydrate(t, f)
  BY <1>1, <1>3 DEF Open, Crash, Start, TimerFires, Hydrate, Job, List, DrainNext, DrainEnd, PauseEnd,
     Scan, ScanNext, JobEnd, JobBreaks, store, clock
<1>4. CASE \E t \in Tabs : Users(t)
  <2>1. CASE \E t \in Tabs, f \in Files : Upload(t, f) \/ Edit(t, f) \/ Delete(t, f)
    <3>1. PICK t \in Tabs, f \in Files : Upload(t, f) \/ Edit(t, f) \/ Delete(t, f)
      BY <2>1
    <3>2. (Revise(f, TRUE) \/ Revise(f, FALSE)) /\ UNCHANGED past
      BY <3>1 DEF Upload, Edit, Delete, clock
    <3>3. \A g \in Files : file'[g] = file[g] \/ file'[g].version = file[g].version + 1
      <4>1. CASE Revise(f, TRUE)
        BY <1>0, <4>1
      <4>2. CASE Revise(f, FALSE)
        BY <1>0, <4>2
      <4> QED BY <3>2, <4>1, <4>2
    <3>4. past <= past'
      BY <3>2 DEF Typed, TypeOK, ClockOK
    <3> QED BY <3>3, <3>4
  <2>2. CASE \E t \in Tabs : LeavePreview(t) \/ \E f \in Files : ReadBytes(t, f) \/ Retry(t, f) \/ Preview(t, f)
    BY <2>2, <1>1 DEF LeavePreview, ReadBytes, Retry, Preview, store, clock
  <2> QED BY <1>4, <2>1, <2>2 DEF Users
<1>5. CASE \E t \in Tabs, k \in Keys : Extract(t, k) \/ ExtractBreak(t, k) \/ OrphanPublish(t, k)
  BY <1>1, <1>5 DEF Extract, ExtractRead, ExtractParse, ExtractPublish, ExtractBreak, OrphanPublish,
     store, clock
<1>6. CASE \E f \in Files : Pull(f)
  BY <1>6, <1>0 DEF Pull, clock, Typed, TypeOK, ClockOK
<1>7. CASE ClockPasses
  BY <1>7 DEF ClockPasses, store, Typed, TypeOK, ClockOK
<1>8. CASE UNCHANGED vars
  BY <1>1, <1>8 DEF vars, store, clock
<1> QED BY <1>2, <1>3, <1>4, <1>5, <1>6, <1>7, <1>8 DEF Next

\* A pass has only files to look at that it had before or that it lists now.
LEMMA TodoFrame ==
  ASSUME Typed, [Next]_vars
  PROVE  \A t \in Tabs : todo'[t] \subseteq todo[t] \cup Listed
<1>1. CASE UNCHANGED todo
  BY <1>1
<1>2. CASE \E w \in Workers : Attempt(w) \/ StoreBroken(w)
  BY <1>2 DEF Attempt, Get, Available, Claim, Finish, Skip, ExtractionBroken, StoreBroken,
     Raise, Return, pass, Typed, TypeOK, PassOK
<1>3. CASE \E t \in Tabs : Job(t) \/ JobBreaks(t)
  <2>1. PICK t \in Tabs : Job(t) \/ JobBreaks(t)
    BY <1>3
  <2>2. CASE ScanNext(t)
    BY <2>2 DEF ScanNext, Typed, TypeOK, PassOK
  <2>3. CASE List(t) \/ Scan(t)
    BY <2>3 DEF List, Scan, Typed, TypeOK, PassOK
  <2>4. CASE DrainEnd(t) \/ JobBreaks(t)
    BY <2>4 DEF DrainEnd, JobBreaks, Typed, TypeOK, PassOK
  <2>5. CASE DrainNext(t) \/ PauseEnd(t) \/ JobEnd(t)
    BY <1>1, <2>5 DEF DrainNext, PauseEnd, JobEnd, pass
  <2> QED BY <2>1, <2>2, <2>3, <2>4, <2>5 DEF Job
<1>4. CASE \E t \in Tabs : Crash(t)
  BY <1>4 DEF Crash, Typed, TypeOK, PassOK
<1>5. CASE \E t \in Tabs : Users(t) \/ Open(t) \/ Start(t) \/ TimerFires(t) \/ \E f \in Files : Hydrate(t, f)
  BY <1>1, <1>5 DEF Users, LeavePreview, Upload, Edit, Delete, ReadBytes, Retry, Preview, Open,
     Start, TimerFires, Hydrate, pass
<1>6. CASE \E t \in Tabs, k \in Keys : Extract(t, k) \/ ExtractBreak(t, k) \/ OrphanPublish(t, k)
  BY <1>1, <1>6 DEF Extract, ExtractRead, ExtractParse, ExtractPublish, ExtractBreak, OrphanPublish, pass
<1>7. CASE (\E f \in Files : Pull(f)) \/ ClockPasses \/ UNCHANGED vars
  BY <1>1, <1>7 DEF Pull, ClockPasses, vars, pass
<1> QED BY <1>2, <1>3, <1>4, <1>5, <1>6, <1>7 DEF Next

-----------------------------------------------------------------------------
(* One worker. *)

LeaseInv == Typed /\ Leases /\ OneWorker

LEMMA InitLeases == Init => LeaseInv
<1> SUFFICES ASSUME Init PROVE LeaseInv
  OBVIOUS
<1>1. \A w \in Workers : attempt[w] = NoAttempt
  BY DEF Init
<1>2. \A t \in Tabs : todo[t] = {}
  BY DEF Init
<1>3. leases = 0 /\ past = 0
  BY DEF Init
<1>4. Leases
  BY <1>1, <1>2, <1>3, Constants DEF Leases
<1>5. OneWorker
  BY <1>1, <1>3, Constants DEF OneWorker
<1> QED BY <1>4, <1>5, InitTyped DEF LeaseInv

\* What an attempt and the journal need of their file: an attempt that holds an
\* unexpired lease for the version of now is the one the journal names.
LEMMA LeasesKept ==
  ASSUME LeaseInv, [Next]_vars, \A w \in Workers : ~Claim(w)
  PROVE  LeaseInv'
<1>1. Typed /\ Leases /\ OneWorker /\ Typed'
  BY NextTyped DEF LeaseInv
<1>2. \A v \in Workers : Kept(attempt[v], attempt'[v])
  BY <1>1, AttemptFrame
<1>3. /\ \A f \in Files : file'[f] = file[f] \/ file'[f].version = file[f].version + 1
      /\ past <= past'
  BY <1>1, WorldFrame
<1>4. \A v \in Workers : /\ attempt[v].lease \in Nat /\ attempt'[v].lease \in Nat
                         /\ attempt[v].stage # "idle" => attempt[v].key \in Keys
                         /\ attempt'[v].stage # "idle" => attempt'[v].key \in Keys
  BY <1>1 DEF Typed, TypeOK, WorkOK, AttemptType, AtWork
<1>5. \A k \in Keys : k[1] \in Files /\ k[2] \in Nat
  BY BoundsAssumption DEF Keys, Versions
<1>6. /\ \A f \in Files : file[f].version \in Nat /\ file'[f].version \in Nat
      /\ leases \in Nat /\ past \in Nat /\ past' \in Nat /\ leases' \in Nat
  BY <1>1, BoundsAssumption DEF Typed, TypeOK, StoreOK, ClockOK, FileType
<1>7. leases <= leases'
  <2>1. CASE \A w \in Workers : ~Finish(w)
    BY <1>1, <1>6, <2>1, JournalFrame
  <2>2. CASE \E w \in Workers : Finish(w)
    BY <1>6, <2>2 DEF Finish, clock
  <2> QED BY <2>1, <2>2
<1>8. \A w \in Workers : attempt'[w].lease <= leases'
  BY <1>1, <1>2, <1>4, <1>6, <1>7 DEF Leases, Kept
<1>9. \A v, w \in Workers :
        v # w /\ attempt'[v].lease = attempt'[w].lease => attempt'[v].lease = 0
  BY <1>1, <1>2 DEF Leases, Kept
<1>10. \A w \in Workers : attempt'[w].stage # "idle"
         => attempt'[w].key[2] <= file'[attempt'[w].key[1]].version
  BY <1>1, <1>2, <1>3, <1>4, <1>5, <1>6 DEF Leases, Kept
<1>11. \A t \in Tabs, k \in Keys : k \in todo'[t] => k[2] <= file'[k[1]].version
  <2>1. \A k \in Keys : k \in Listed => k[2] <= file[k[1]].version
    BY <1>5, <1>6 DEF Listed
  <2> QED BY <1>1, <1>3, <1>5, <1>6, <2>1, TodoFrame DEF Leases
<1>12. \A w \in Workers : attempt'[w].lease # 0 => attempt'[w].stage # "idle"
  BY <1>1, <1>2 DEF Leases, Kept
<1>13. ASSUME NEW w \in Workers, attempt'[w].lease > past',
              file'[attempt'[w].key[1]].version = attempt'[w].key[2]
       PROVE  HoldsLease(w)'
  <2>1. /\ attempt'[w].key = attempt[w].key /\ attempt'[w].lease = attempt[w].lease
        /\ attempt[w].lease > past /\ attempt[w].stage # "idle"
    BY <1>1, <1>2, <1>3, <1>4, <1>6, <1>13 DEF Kept, Leases
  <2>2. attempt[w].key \in Keys /\ attempt[w].key[1] \in Files
    BY <1>4, <1>5, <2>1
  <2>3. file[attempt[w].key[1]].version = attempt[w].key[2]
    BY <1>1, <1>3, <1>5, <1>6, <1>13, <2>1, <2>2 DEF Leases
  <2>4. HoldsLease(w)
    BY <1>1, <2>1, <2>3 DEF Leases
  <2>5. record'[attempt[w].key[1]] = record[attempt[w].key[1]]
    <3>1. CASE \A u \in Workers : ~Finish(u)
      BY <1>1, <3>1, JournalFrame
    <3>2. ASSUME NEW u \in Workers, Finish(u), record'[attempt[w].key[1]] # record[attempt[w].key[1]]
          PROVE  FALSE
      <4>1. HoldsLease(u) /\ attempt[u].key[1] = attempt[w].key[1] /\ Return(u, 1)
        BY <1>1, <2>2, <3>2 DEF Finish, Typed, TypeOK, StoreOK
      <4>2. attempt[u].lease = attempt[w].lease
        BY <2>4, <4>1 DEF HoldsLease
      <4>3. u = w
        BY <1>1, <1>4, <1>6, <2>1, <4>2 DEF Leases
      <4>4. attempt'[w].lease = 0
        BY <1>1, <4>1, <4>3, Constants DEF Return, Typed, TypeOK, WorkOK
      <4> QED BY <1>6, <2>1, <4>4
    <3> QED BY <3>1, <3>2
  <2> QED BY <2>1, <2>4, <2>5 DEF HoldsLease
<1>14. Leases'
  BY <1>8, <1>9, <1>10, <1>11, <1>12, <1>13 DEF Leases
<1>15. OneWorker'
  <2> SUFFICES ASSUME NEW v \in Workers, NEW w \in Workers, v # w,
                      attempt'[v].key = attempt'[w].key, attempt'[v].lease > past',
                      attempt'[w].lease > past'
               PROVE  FALSE
    BY <1>4, <1>6 DEF OneWorker
  <2>1. /\ attempt'[v].key = attempt[v].key /\ attempt'[v].lease = attempt[v].lease
        /\ attempt'[w].key = attempt[w].key /\ attempt'[w].lease = attempt[w].lease
    BY <1>2, <1>4, <1>6 DEF Kept
  <2>2. attempt[v].key = attempt[w].key
    BY <2>1
  <2>3. attempt[v].lease > past' /\ attempt[w].lease > past'
    BY <2>1
  <2>4. attempt[v].lease \in Nat /\ attempt[w].lease \in Nat /\ past \in Nat /\ past' \in Nat
        /\ past <= past'
    BY <1>3, <1>4, <1>6
  <2>5. attempt[v].lease <= past \/ attempt[w].lease <= past
    BY <1>1, <2>2 DEF OneWorker
  <2> QED BY <2>3, <2>4, <2>5
<1> QED BY <1>1, <1>14, <1>15 DEF LeaseInv

\* A claim that is refused ends the attempt and changes no lease.
LEMMA ClaimRefused ==
  ASSUME LeaseInv, Typed', NEW w \in Workers, Claim(w), Return(w, 0), UNCHANGED <<record, leases>>
  PROVE  LeaseInv'
<1>1. Typed /\ Leases /\ OneWorker /\ UNCHANGED <<file, past, record, leases>>
  BY DEF LeaseInv, Claim
<1>2. \A v \in Workers : attempt'[v] = IF v = w THEN NoAttempt ELSE attempt[v]
  BY <1>1 DEF Return, Typed, TypeOK, WorkOK
<1>3. \A t \in Tabs : todo'[t] \subseteq todo[t]
  BY <1>1 DEF Return, Typed, TypeOK, PassOK
<1>4. leases \in Nat /\ past \in Nat
  BY <1>1 DEF Typed, TypeOK, ClockOK
<1>5. Leases'
  BY <1>1, <1>2, <1>3, <1>4, Constants DEF Leases, HoldsLease
<1>6. OneWorker'
  BY <1>1, <1>2, <1>4, Constants DEF OneWorker
<1> QED BY <1>5, <1>6 DEF LeaseInv

\* A claim that is granted: nobody else holds an unexpired lease of that file.
LEMMA ClaimGranted ==
  ASSUME LeaseInv, Typed', NEW w \in Workers, Claim(w),
         NEW k, k = attempt[w].key, IsCurrent(k), Claimable(k[1], w[2] = "retry"),
         leases' = leases + 1,
         record' = [record EXCEPT ![k[1]] =
           [version |-> k[2], state |-> "RUNNING", lease |-> leases']],
         attempt'[w].key = k, attempt'[w].lease = leases + 1, attempt'[w].stage = "extract",
         \A v \in Workers : v # w => attempt'[v] = attempt[v],
         UNCHANGED todo
  PROVE  LeaseInv'
<1>1. Typed /\ Leases /\ OneWorker /\ UNCHANGED <<file, past, todo>> /\ attempt[w].stage = "claim"
  BY DEF LeaseInv, Claim
<1>2. \A v \in Workers : attempt[v] \in AttemptType /\ attempt[v].lease \in Nat
  BY <1>1 DEF Typed, TypeOK, WorkOK, AttemptType
<1>3. /\ attempt'[w].key = k /\ attempt'[w].lease = leases + 1 /\ attempt'[w].stage = "extract"
      /\ \A v \in Workers : v # w => attempt'[v] = attempt[v]
  OBVIOUS
<1>4. k \in Keys /\ k[1] \in Files
  BY <1>1 DEF Typed, AtWork, Keys
<1>5. leases \in Nat /\ past \in Nat /\ past <= leases
  BY <1>1 DEF Typed, TypeOK, ClockOK
<1>6. \A f \in Files : record'[f] = IF f = k[1]
        THEN [version |-> k[2], state |-> "RUNNING", lease |-> leases + 1] ELSE record[f]
  BY <1>1, <1>4 DEF Typed, TypeOK, StoreOK
\* An attempt at this version whose lease still runs would make the file unclaimable.
<1>7. ASSUME NEW v \in Workers, attempt[v].key = k, attempt[v].lease > past
      PROVE  FALSE
  <2>1. HoldsLease(v)
    BY <1>1, <1>7 DEF Leases, IsCurrent
  <2>2. /\ record[k[1]].version = file[k[1]].version
        /\ record[k[1]].state = "RUNNING" /\ record[k[1]].lease = attempt[v].lease
    BY <1>7, <2>1 DEF HoldsLease, IsCurrent
  <2>3. attempt[v].lease <= past
    BY <2>2 DEF Claimable, Matching
  <2> QED BY <1>2, <1>5, <1>7, <2>3
<1>8. \A v \in Workers : attempt[v].lease <= leases
  BY <1>1 DEF Leases
<1>15. \A v \in Workers : attempt'[v].lease <= leases'
  <2>1. ASSUME NEW v \in Workers PROVE attempt'[v].lease <= leases + 1
    <3>1. attempt[v].lease \in Nat /\ attempt[v].lease <= leases
      BY <1>2, <1>8
    <3> QED BY <1>3, <1>5, <3>1
  <2> QED BY <2>1
<1>9. \A u, v \in Workers : u # v /\ attempt'[u].lease = attempt'[v].lease => attempt'[u].lease = 0
  <2>1. ASSUME NEW v \in Workers, v # w PROVE attempt'[v].lease # attempt'[w].lease
    <3>1. attempt[v].lease \in Nat /\ attempt[v].lease <= leases
      BY <1>2, <1>8
    <3> QED BY <1>3, <1>5, <2>1, <3>1
  <2> QED BY <1>1, <1>3, <2>1 DEF Leases
<1>10. \A v \in Workers : attempt'[v].stage # "idle"
         => attempt'[v].key[2] <= file'[attempt'[v].key[1]].version
  BY <1>1, <1>3 DEF Leases
<1>11. \A v \in Workers : attempt'[v].lease # 0 => attempt'[v].stage # "idle"
  BY <1>1, <1>3 DEF Leases
<1>12. ASSUME NEW v \in Workers, attempt'[v].lease > past',
              file'[attempt'[v].key[1]].version = attempt'[v].key[2]
       PROVE  HoldsLease(v)'
  <2>1. CASE v = w
    <3>1. attempt'[v].key = k /\ attempt'[v].lease = leases + 1
      BY <1>3, <2>1
    <3> QED BY <1>4, <1>6, <3>1 DEF HoldsLease
  <2>2. CASE v # w
    <3>1. attempt'[v] = attempt[v] /\ attempt[v].lease > past /\ attempt[v].stage # "idle"
      <4>1. attempt'[v] = attempt[v]
        BY <1>3, <2>2
      <4>2. attempt[v].lease > past
        BY <1>1, <1>12, <4>1
      <4>3. attempt[v].lease # 0
        BY <1>2, <1>5, <4>2
      <4> QED BY <1>1, <4>1, <4>2, <4>3 DEF Leases
    <3>2. attempt[v].key \in Keys /\ attempt[v].key[1] \in Files
      BY <1>1, <3>1 DEF Typed, AtWork, Keys
    <3>3. HoldsLease(v)
      BY <1>1, <1>12, <3>1 DEF Leases
    <3>4. attempt[v].key[1] # k[1]
      <4>1. SUFFICES ASSUME attempt[v].key[1] = k[1] PROVE FALSE
        OBVIOUS
      <4>2. attempt[v].key[2] = k[2]
        BY <1>1, <1>12, <3>1, <4>1 DEF IsCurrent
      <4>3. attempt[v].key = k
        BY <1>4, <3>2, <4>1, <4>2 DEF Keys
      <4> QED BY <1>7, <3>1, <4>3
    <3> QED BY <1>6, <3>1, <3>2, <3>3, <3>4 DEF HoldsLease
  <2> QED BY <2>1, <2>2
<1>13. Leases'
  <2>1. \A t \in Tabs, j \in Keys : j \in todo'[t] => j[2] <= file'[j[1]].version
    BY <1>1 DEF Leases
  <2> QED BY <1>15, <1>9, <1>10, <1>11, <1>12, <2>1 DEF Leases
<1>14. OneWorker'
  <2>1. ASSUME NEW u \in Workers, NEW v \in Workers, u # v, attempt'[u].key = attempt'[v].key
        PROVE  attempt'[u].lease <= past' \/ attempt'[v].lease <= past'
    <3>1. CASE u # w /\ v # w
      BY <1>1, <1>3, <2>1, <3>1 DEF OneWorker
    <3>2. CASE u = w
      <4>1. attempt[v].key = k /\ attempt'[v].lease = attempt[v].lease
        BY <1>3, <2>1, <3>2
      <4>2. ~(attempt[v].lease > past)
        BY <1>7, <4>1
      <4> QED BY <1>1, <1>2, <1>5, <4>1, <4>2
    <3>3. CASE v = w
      <4>1. attempt[u].key = k /\ attempt'[u].lease = attempt[u].lease
        BY <1>3, <2>1, <3>3
      <4>2. ~(attempt[u].lease > past)
        BY <1>7, <4>1
      <4> QED BY <1>1, <1>2, <1>5, <4>1, <4>2
    <3> QED BY <3>1, <3>2, <3>3
  <2> QED BY <2>1 DEF OneWorker
<1> QED BY <1>13, <1>14 DEF LeaseInv

LEMMA NextLeases == LeaseInv /\ [Next]_vars => LeaseInv'
<1> SUFFICES ASSUME LeaseInv, [Next]_vars PROVE LeaseInv'
  OBVIOUS
<1>0. Typed'
  BY NextTyped DEF LeaseInv
<1>1. CASE \A w \in Workers : ~Claim(w)
  BY <1>1, LeasesKept
<1>2. ASSUME NEW w \in Workers, Claim(w) PROVE LeaseInv'
  <2>1. CASE Return(w, 0) /\ UNCHANGED <<record, leases>>
    BY <1>0, <1>2, <2>1, ClaimRefused
  <2>2. CASE /\ IsCurrent(attempt[w].key) /\ Claimable(attempt[w].key[1], w[2] = "retry")
             /\ leases' = leases + 1
             /\ record' = [record EXCEPT ![attempt[w].key[1]] =
                  [version |-> attempt[w].key[2], state |-> "RUNNING", lease |-> leases']]
             /\ attempt' = [attempt EXCEPT ![w].stage = "extract", ![w].lease = leases']
             /\ UNCHANGED todo
    <3>1. attempt[w] \in AttemptType /\ attempt \in [Workers -> AttemptType]
      BY DEF LeaseInv, Typed, TypeOK, WorkOK
    <3>2. /\ attempt'[w].key = attempt[w].key /\ attempt'[w].lease = leases + 1
          /\ attempt'[w].stage = "extract"
          /\ \A v \in Workers : v # w => attempt'[v] = attempt[v]
      BY <2>2, <3>1 DEF AttemptType
    <3> QED BY <1>0, <1>2, <2>2, <3>2, ClaimGranted
  <2> QED BY <1>2, <2>1, <2>2 DEF Claim
<1> QED BY <1>1, <1>2

\* The leases of claim (storage-local/src/file-processing.ts) do what they are
\* for: no two attempts, in one window or in two, are at the same version of a
\* file under unexpired leases, for any number of windows, files and failures.
THEOREM OneAtATime == Spec => []OneWorker
<1>1. LeaseInv => OneWorker
  BY DEF LeaseInv
<1> QED BY <1>1, InitLeases, NextLeases, PTL DEF Spec
-----------------------------------------------------------------------------
(* Results. *)

\* Only a granted claim and an accepted result change the journal.
LEMMA JournalChange ==
  ASSUME Typed, [Next]_vars, NEW f \in Files, record'[f] # record[f]
  PROVE  \E w \in Workers :
           /\ attempt[w].key[1] = f /\ IsCurrent(attempt[w].key) /\ UNCHANGED <<file, doc>>
           /\ \/ /\ Claimable(f, w[2] = "retry")
                 /\ record'[f] = [version |-> attempt[w].key[2], state |-> "RUNNING", lease |-> leases']
                 /\ attempt'[w].lease = leases'
              \/ /\ HoldsLease(w)
                 /\ record'[f].version = record[f].version
                 /\ record'[f].state = "READY" => doc[f] = attempt[w].key[2]
<1>1. PICK w \in Workers : Claim(w) \/ Finish(w)
  BY JournalFrame
<1>2. attempt[w].key \in Keys /\ attempt[w].key[1] \in Files /\ UNCHANGED <<file, doc>>
  BY <1>1 DEF Claim, Finish, Typed, AtWork, Keys
<1>3. record[f] \in RecordType /\ record \in [Files -> RecordType]
  BY DEF Typed, TypeOK, StoreOK
<1>4. CASE Claim(w)
  <2>1. /\ IsCurrent(attempt[w].key) /\ Claimable(attempt[w].key[1], w[2] = "retry")
        /\ record' = [record EXCEPT ![attempt[w].key[1]] =
             [version |-> attempt[w].key[2], state |-> "RUNNING", lease |-> leases']]
        /\ attempt' = [attempt EXCEPT ![w].stage = "extract", ![w].lease = leases']
    BY <1>4 DEF Claim
  <2>2. attempt[w].key[1] = f
    BY <1>2, <1>3, <2>1
  <2>3. attempt'[w].lease = leases'
    BY <2>1 DEF Typed, TypeOK, WorkOK, AttemptType
  <2>4. record'[f] = [version |-> attempt[w].key[2], state |-> "RUNNING", lease |-> leases']
    BY <1>3, <2>1, <2>2
  <2> QED BY <1>2, <2>1, <2>2, <2>3, <2>4
<1>5. CASE Finish(w)
  <2>1. /\ IsCurrent(attempt[w].key) /\ HoldsLease(w)
        /\ record' = [record EXCEPT ![attempt[w].key[1]].state =
             IF attempt[w].outcome = "ready" /\ doc[attempt[w].key[1]] = attempt[w].key[2]
             THEN "READY" ELSE "FAILED"]
    BY <1>5 DEF Finish
  <2>2. attempt[w].key[1] = f
    BY <1>2, <1>3, <2>1
  <2>3. /\ record'[f].version = record[f].version
        /\ record'[f].state = IF attempt[w].outcome = "ready" /\ doc[f] = attempt[w].key[2]
                              THEN "READY" ELSE "FAILED"
    BY <1>3, <2>1, <2>2 DEF RecordType
  <2> QED BY <1>2, <2>1, <2>2, <2>3
<1> QED BY <1>1, <1>4, <1>5

\* An extraction is published only for the version the file has.
LEMMA DocFrame ==
  ASSUME Typed, [Next]_vars, NEW f \in Files, doc'[f] # doc[f]
  PROVE  doc'[f] = file[f].version
<1>1. ASSUME NEW k \in Keys, IsCurrent(k), doc' = [doc EXCEPT ![k[1]] = k[2]]
      PROVE  doc'[f] = file[f].version
  BY <1>1 DEF IsCurrent, Typed, TypeOK, StoreOK
<1>2. CASE \E t \in Tabs, k \in Keys : Extract(t, k) \/ ExtractBreak(t, k) \/ OrphanPublish(t, k)
  BY <1>1, <1>2 DEF Extract, ExtractRead, ExtractParse, ExtractPublish, ExtractBreak, OrphanPublish, store
<1>3. CASE UNCHANGED doc
  BY <1>3
<1>4. CASE \E w \in Workers : Attempt(w) \/ StoreBroken(w)
  BY <1>3, <1>4 DEF Attempt, Get, Available, Claim, Finish, Skip, ExtractionBroken, StoreBroken, Raise, store
<1>5. CASE \E t \in Tabs : \/ Open(t) \/ Crash(t) \/ Start(t) \/ TimerFires(t) \/ Job(t) \/ JobBreaks(t)
                           \/ \E g \in Files : Hydrate(t, g)
  BY <1>3, <1>5 DEF Open, Crash, Start, TimerFires, Hydrate, Job, List, DrainNext, DrainEnd, PauseEnd,
     Scan, ScanNext, JobEnd, JobBreaks, store
<1>6. CASE \E t \in Tabs : Users(t)
  BY <1>3, <1>6 DEF Users, LeavePreview, Upload, Edit, Delete, ReadBytes, Retry, Preview, store
<1>7. CASE (\E g \in Files : Pull(g)) \/ ClockPasses \/ UNCHANGED vars
  BY <1>3, <1>7 DEF Pull, ClockPasses, vars, store
<1> QED BY <1>2, <1>4, <1>5, <1>6, <1>7 DEF Next

\* The journal is never ahead of the files: a file that changes leaves READY behind.
IndexInv ==
  /\ Typed
  /\ \A f \in Files : record[f].version <= file[f].version
  /\ ReadyIsIndexed

LEMMA InitIndex == Init => IndexInv
<1> SUFFICES ASSUME Init PROVE IndexInv
  OBVIOUS
<1>1. \A f \in Files : record[f] = NoRecord /\ file[f] = [version |-> 0, live |-> FALSE]
  BY DEF Init
<1>2. \A f \in Files : record[f].version <= file[f].version
  BY <1>1 DEF NoRecord
<1>3. ReadyIsIndexed
  BY <1>1 DEF ReadyIsIndexed
<1> QED BY <1>2, <1>3, InitTyped DEF IndexInv

LEMMA NextIndex == IndexInv /\ [Next]_vars => IndexInv'
<1> SUFFICES ASSUME IndexInv, [Next]_vars PROVE IndexInv'
  OBVIOUS
<1>1. Typed /\ Typed'
  BY NextTyped DEF IndexInv
<1>2. \A f \in Files : file[f].version \in Nat /\ record[f].version \in Nat /\ file'[f].version \in Nat
  BY <1>1, BoundsAssumption DEF Typed, TypeOK, StoreOK, FileType, RecordType
<1>3. ASSUME NEW f \in Files
      PROVE  /\ record'[f].version <= file'[f].version
             /\ file'[f].live /\ record'[f].version = file'[f].version /\ record'[f].state = "READY"
                  => doc'[f] = file'[f].version
  <2>1. CASE record'[f] = record[f] /\ file'[f].version = file[f].version + 1
    BY <1>2, <2>1 DEF IndexInv
  <2>2. CASE record'[f] = record[f] /\ file'[f] = file[f]
    BY <1>1, <2>2, DocFrame DEF IndexInv, ReadyIsIndexed
  <2>3. CASE record'[f] # record[f]
    <3>1. PICK w \in Workers :
           /\ attempt[w].key[1] = f /\ IsCurrent(attempt[w].key) /\ UNCHANGED <<file, doc>>
           /\ \/ record'[f] = [version |-> attempt[w].key[2], state |-> "RUNNING", lease |-> leases']
              \/ /\ HoldsLease(w)
                 /\ record'[f].version = record[f].version
                 /\ record'[f].state = "READY" => doc[f] = attempt[w].key[2]
      BY <1>1, <2>3, JournalChange
    <3>2. file[f].version = attempt[w].key[2]
      BY <3>1 DEF IsCurrent
    <3>3. CASE record'[f] = [version |-> attempt[w].key[2], state |-> "RUNNING", lease |-> leases']
      BY <1>2, <3>1, <3>2, <3>3
    <3>4. CASE /\ record'[f].version = record[f].version
               /\ record'[f].state = "READY" => doc[f] = attempt[w].key[2]
      BY <3>1, <3>2, <3>4 DEF IndexInv
    <3> QED BY <3>1, <3>3, <3>4
  <2> QED BY <1>1, <2>1, <2>2, <2>3, WorldFrame
<1> QED BY <1>1, <1>3 DEF IndexInv, ReadyIsIndexed

\* What the journal calls READY is indexed in the version the file has now,
\* whatever late workers, pages and other windows publish meanwhile.
THEOREM ReadyMeansIndexed == Spec => []ReadyIsIndexed
<1>1. IndexInv => ReadyIsIndexed
  BY DEF IndexInv
<1> QED BY <1>1, InitIndex, NextIndex, PTL DEF Spec

LEMMA StepStands ==
  ASSUME Typed, [Next]_vars, NEW f \in Files,
         Settled(f), file'[f] = file[f], record'[f] # record[f]
  PROVE  /\ record[f].state = "FAILED"
         /\ \E t \in Tabs : attempt'[<<t, "retry">>].lease = record'[f].lease
<1>1. PICK w \in Workers :
        \/ /\ Claimable(f, w[2] = "retry")
           /\ record'[f] = [version |-> attempt[w].key[2], state |-> "RUNNING", lease |-> leases']
           /\ attempt'[w].lease = leases'
        \/ attempt[w].key[1] = f /\ HoldsLease(w)
  BY JournalChange
<1>2. record[f].state \in {"READY", "FAILED"}
  BY DEF Settled, Matching
<1>3. ~(attempt[w].key[1] = f /\ HoldsLease(w))
  BY <1>2 DEF HoldsLease
<1>4. Matching(f) = "FAILED" /\ w[2] = "retry"
  BY <1>1, <1>3 DEF Settled, Claimable
<1>5. record[f].state = "FAILED"
  BY <1>4 DEF Matching
<1>6. w = <<w[1], "retry">> /\ w[1] \in Tabs
  BY <1>4 DEF Workers
<1>7. attempt'[w].lease = record'[f].lease
  BY <1>1, <1>3
<1> QED BY <1>5, <1>6, <1>7

\* A result stands until the file changes or the user retries a failure: a late
\* worker records nothing over it and no claim takes it back.
THEOREM ResultsStand == Spec => ResultStands
<1>1. Typed /\ [Next]_vars =>
        [\A f \in Files :
           Settled(f) /\ file'[f] = file[f] /\ record'[f] # record[f]
             => /\ record[f].state = "FAILED"
                /\ \E t \in Tabs : attempt'[<<t, "retry">>].lease = record'[f].lease]_vars
  BY StepStands
<1> QED BY <1>1, AlwaysTyped, PTL DEF Spec, ResultStands


-----------------------------------------------------------------------------
(* Who waits for an extraction waits for one that is under way. *)

\* No extraction ends, and nobody begins to wait, except for one under way.
LEMMA OwnWhileRunning ==
  ASSUME Typed, Typed', CancelsOnlyItsOwn,
         \A t \in Tabs, k \in Keys : extraction[t][k] # "none" => extraction'[t][k] # "none",
         \A w \in Workers :
           attempt'[w].stage = "extract"
             => \/ attempt[w].stage = "extract" /\ attempt'[w].key = attempt[w].key
                \/ extraction'[w[1]][attempt'[w].key] # "none",
         \A t \in Tabs :
           preview'[t] # NoKey
             => preview'[t] = preview[t] \/ extraction'[t][preview'[t]] # "none"
  PROVE  CancelsOnlyItsOwn'
<1>1. \A w \in Workers : attempt[w].stage = "extract" => attempt[w].key \in Keys
  BY DEF Typed, AtWork
<1>2. \A t \in Tabs : preview[t] # NoKey => preview[t] \in Keys
  BY DEF Typed, TypeOK, WorkOK
<1>3. \A w \in Workers : w[1] \in Tabs
  BY DEF Workers
<1> QED BY <1>1, <1>2, <1>3 DEF CancelsOnlyItsOwn

\* One attempt goes on, ends or begins; nobody begins to wait for an extraction.
LEMMA OwnAttempt ==
  ASSUME Typed, Typed', CancelsOnlyItsOwn, NEW w \in Workers, NEW a,
         a.stage # "extract", attempt' = [attempt EXCEPT ![w] = a],
         UNCHANGED <<preview, extraction>>
  PROVE  CancelsOnlyItsOwn'
<1>1. \A v \in Workers : attempt'[v] = IF v = w THEN a ELSE attempt[v]
  BY DEF Typed, TypeOK, WorkOK
<1> QED BY <1>1, OwnWhileRunning

\* An extraction ends for everybody who waits for it.
LEMMA OwnSettle ==
  ASSUME Typed, Typed', CancelsOnlyItsOwn, NEW t \in Tabs, NEW k \in Keys,
         NEW o \in Outcomes, Settle(t, k, o)
  PROVE  CancelsOnlyItsOwn'
<1>1. \A u \in Tabs, j \in Keys :
        <<u, j>> # <<t, k>> => extraction'[u][j] = extraction[u][j]
  BY DEF Settle, Typed, TypeOK, WorkOK
<1>2. ASSUME NEW w \in Workers, attempt'[w].stage = "extract"
      PROVE  extraction'[w[1]][attempt'[w].key] # "none"
  <2>1. attempt[w] \in AttemptType /\ w[1] \in Tabs
    BY DEF Typed, TypeOK, WorkOK, Workers
  <2>2. CASE w \in Observing(t, k)
    <3>1. attempt'[w] = [attempt[w] EXCEPT !.stage = "finish", !.outcome = o]
      BY <2>2 DEF Settle
    <3> QED BY <1>2, <2>1, <3>1 DEF AttemptType
  <2>3. CASE w \notin Observing(t, k)
    <3>1. attempt'[w] = attempt[w]
      BY <2>3 DEF Settle
    <3>2. attempt[w].stage = "extract" /\ attempt[w].key \in Keys
      BY <1>2, <3>1 DEF Typed, AtWork
    <3>3. <<w[1], attempt[w].key>> # <<t, k>>
      BY <2>3, <3>2 DEF Observing
    <3> QED BY <1>1, <2>1, <3>1, <3>2, <3>3 DEF CancelsOnlyItsOwn
  <2> QED BY <2>2, <2>3
<1>3. ASSUME NEW u \in Tabs, preview'[u] # NoKey
      PROVE  extraction'[u][preview'[u]] # "none"
  <2>1. preview'[u] = preview[u] /\ <<u, preview[u]>> # <<t, k>>
    BY <1>3 DEF Settle, Typed, TypeOK, WorkOK
  <2>2. preview[u] \in Keys
    BY <1>3, <2>1 DEF Typed, TypeOK, WorkOK
  <2> QED BY <1>1, <1>3, <2>1, <2>2 DEF CancelsOnlyItsOwn
<1> QED BY <1>2, <1>3 DEF CancelsOnlyItsOwn

\* Whoever joins an extraction finds it under way, and stops no other.
LEMMA Joined ==
  ASSUME Typed, NEW t \in Tabs, NEW k \in Keys, Join(t, k)
  PROVE  /\ extraction'[t][k] # "none"
         /\ \A u \in Tabs, j \in Keys : extraction[u][j] # "none" => extraction'[u][j] # "none"
<1>1. \A u \in Tabs, j \in Keys :
        extraction'[u][j] = IF u = t /\ j = k /\ extraction[t][k] = "none"
                            THEN "reading" ELSE extraction[u][j]
  BY DEF Join, Typed, TypeOK, WorkOK
<1> QED BY <1>1

LEMMA OwnExtract ==
  ASSUME Typed, Typed', CancelsOnlyItsOwn, NEW t \in Tabs, NEW k \in Keys,
         Extract(t, k) \/ ExtractBreak(t, k)
  PROVE  CancelsOnlyItsOwn'
<1>1. CASE \E s \in {"parsing", "publishing"} :
             extraction' = [extraction EXCEPT ![t][k] = s] /\ UNCHANGED <<attempt, preview>>
  <2>1. PICK s \in {"parsing", "publishing"} :
          extraction' = [extraction EXCEPT ![t][k] = s] /\ UNCHANGED <<attempt, preview>>
    BY <1>1
  <2>2. \A u \in Tabs, j \in Keys :
          extraction'[u][j] = IF u = t /\ j = k THEN s ELSE extraction[u][j]
    BY <2>1 DEF Typed, TypeOK, WorkOK
  <2> QED BY <2>1, <2>2, OwnWhileRunning
<1>2. CASE \E o \in {"ready", "failed", "conflict", "broken"} : Settle(t, k, o)
  BY <1>2, OwnSettle DEF Outcomes
<1> QED BY <1>1, <1>2
        DEF Extract, ExtractRead, ExtractParse, ExtractPublish, ExtractBreak

LEMMA OwnPreview ==
  ASSUME Typed, Typed', CancelsOnlyItsOwn, NEW t \in Tabs, NEW f \in Files, Preview(t, f)
  PROVE  CancelsOnlyItsOwn'
<1>1. PICK k \in Keys : k = <<f, file[f].version>>
  BY CurrentKey DEF Preview, Typed, TypeOK
<1>2. Join(t, k) /\ preview' = [preview EXCEPT ![t] = k] /\ UNCHANGED attempt
  BY <1>1 DEF Preview
<1>3. \A u \in Tabs : preview'[u] = IF u = t THEN k ELSE preview[u]
  BY <1>2 DEF Typed, TypeOK, WorkOK
<1> QED BY <1>2, <1>3, Joined, OwnWhileRunning

\* The page that leaves last takes its extraction with it; nobody waits for it.
LEMMA OwnLeave ==
  ASSUME Typed, Typed', CancelsOnlyItsOwn, NEW t \in Tabs, LeavePreview(t)
  PROVE  CancelsOnlyItsOwn'
<1>1. PICK k \in Keys : k = preview[t]
  BY DEF LeavePreview, Typed, TypeOK, WorkOK
<1>2. /\ preview' = [preview EXCEPT ![t] = NoKey] /\ UNCHANGED attempt
      /\ \/ UNCHANGED extraction
         \/ Observing(t, k) = {} /\ extraction' = [extraction EXCEPT ![t][k] = "none"]
  BY <1>1 DEF LeavePreview
<1>3. \A u \in Tabs : preview'[u] = IF u = t THEN NoKey ELSE preview[u]
  BY <1>2 DEF Typed, TypeOK, WorkOK
<1>4. CASE UNCHANGED extraction
  BY <1>2, <1>3, <1>4, OwnWhileRunning
<1>5. CASE Observing(t, k) = {} /\ extraction' = [extraction EXCEPT ![t][k] = "none"]
  <2>1. \A u \in Tabs, j \in Keys :
          <<u, j>> # <<t, k>> => extraction'[u][j] = extraction[u][j]
    BY <1>5 DEF Typed, TypeOK, WorkOK
  <2>2. ASSUME NEW w \in Workers, attempt[w].stage = "extract"
        PROVE  extraction'[w[1]][attempt[w].key] # "none"
    <3>1. w[1] \in Tabs /\ attempt[w].key \in Keys
      BY <2>2 DEF Workers, Typed, AtWork
    <3>2. <<w[1], attempt[w].key>> # <<t, k>>
      BY <1>5, <2>2 DEF Observing
    <3> QED BY <2>1, <2>2, <3>1, <3>2 DEF CancelsOnlyItsOwn
  <2>3. ASSUME NEW u \in Tabs, preview'[u] # NoKey
        PROVE  extraction'[u][preview'[u]] # "none"
    <3>1. u # t /\ preview'[u] = preview[u] /\ preview[u] \in Keys
      BY <1>3, <2>3 DEF Typed, TypeOK, WorkOK
    <3> QED BY <2>1, <2>3, <3>1 DEF CancelsOnlyItsOwn
  <2> QED BY <1>2, <2>2, <2>3 DEF CancelsOnlyItsOwn
<1> QED BY <1>2, <1>4, <1>5

LEMMA OwnClaim ==
  ASSUME Typed, Typed', CancelsOnlyItsOwn, NEW w \in Workers, Claim(w)
  PROVE  CancelsOnlyItsOwn'
<1>1. /\ attempt[w] \in AttemptType /\ attempt[w].key \in Keys /\ w[1] \in Tabs
      /\ UNCHANGED preview
  BY DEF Claim, Typed, TypeOK, WorkOK, AtWork, Workers
<1>2. CASE Return(w, 0) /\ UNCHANGED extraction
  BY <1>1, <1>2, Constants, OwnAttempt DEF Return
<1>3. CASE /\ attempt' = [attempt EXCEPT ![w].stage = "extract", ![w].lease = leases']
           /\ Join(w[1], attempt[w].key)
  <2>1. \A v \in Workers :
          v # w => attempt'[v] = attempt[v]
    BY <1>3 DEF Typed, TypeOK, WorkOK
  <2>2. attempt'[w].key = attempt[w].key
    BY <1>1, <1>3 DEF AttemptType, Typed, TypeOK, WorkOK
  <2>3. /\ extraction'[w[1]][attempt[w].key] # "none"
        /\ \A u \in Tabs, j \in Keys : extraction[u][j] # "none" => extraction'[u][j] # "none"
    BY <1>1, <1>3, Joined
  <2> QED BY <1>1, <2>1, <2>2, <2>3, OwnWhileRunning
<1> QED BY <1>2, <1>3 DEF Claim

LEMMA OwnAttempts ==
  ASSUME Typed, Typed', CancelsOnlyItsOwn, NEW w \in Workers, Attempt(w) \/ StoreBroken(w)
  PROVE  CancelsOnlyItsOwn'
<1>1. CASE Claim(w)
  BY <1>1, OwnClaim
<1>2. CASE (\/ \E c : Return(w, c)
            \/ Raise(w)) /\ UNCHANGED <<preview, extraction>>
  <2>1. attempt' = [attempt EXCEPT ![w] = NoAttempt]
    BY <1>2 DEF Return, Raise
  <2> QED BY <1>2, <2>1, Constants, OwnAttempt
<1>3. CASE /\ \E s \in {"available", "claim"} : attempt' = [attempt EXCEPT ![w].stage = s]
           /\ UNCHANGED <<preview, extraction>>
  <2>1. PICK s \in {"available", "claim"} : attempt' = [attempt EXCEPT ![w].stage = s]
    BY <1>3
  <2>2. attempt[w] \in AttemptType
    BY DEF Typed, TypeOK, WorkOK
  <2>3. attempt' = [attempt EXCEPT ![w] = [attempt[w] EXCEPT !.stage = s]]
    BY <2>1, <2>2 DEF AttemptType, Typed, TypeOK, WorkOK
  <2>4. [attempt[w] EXCEPT !.stage = s].stage # "extract"
    BY <2>2 DEF AttemptType
  <2> QED BY <1>3, <2>3, <2>4, OwnAttempt
<1> QED BY <1>1, <1>2, <1>3
        DEF Attempt, Get, Available, Finish, Skip, ExtractionBroken, StoreBroken, Raise

\* A drain takes a file, or a page asks for a retry.
LEMMA OwnBegins ==
  ASSUME Typed, Typed', CancelsOnlyItsOwn, NEW t \in Tabs,
         DrainNext(t) \/ \E f \in Files : Retry(t, f)
  PROVE  CancelsOnlyItsOwn'
<1>1. PICK w \in Workers : \E k : attempt' = [attempt EXCEPT ![w] =
                                     [NoAttempt EXCEPT !.stage = "get", !.key = k]]
  BY DEF DrainNext, Retry, Workers
<1>2. PICK k : attempt' = [attempt EXCEPT ![w] = [NoAttempt EXCEPT !.stage = "get", !.key = k]]
  BY <1>1
<1>3. [NoAttempt EXCEPT !.stage = "get", !.key = k].stage # "extract"
  BY DEF NoAttempt
<1> QED BY <1>2, <1>3, OwnAttempt DEF DrainNext, Retry

LEMMA OwnCrash ==
  ASSUME Typed, Typed', CancelsOnlyItsOwn, NEW t \in Tabs, Crash(t)
  PROVE  CancelsOnlyItsOwn'
<1>1. \A w \in Workers : attempt'[w] = IF w[1] = t THEN NoAttempt ELSE attempt[w]
  BY DEF Crash
<1>2. \A u \in Tabs : u # t => extraction'[u] = extraction[u]
  BY DEF Crash, Typed, TypeOK, WorkOK
<1>3. \A u \in Tabs : preview'[u] = IF u = t THEN NoKey ELSE preview[u]
  BY DEF Crash, Typed, TypeOK, WorkOK
<1>4. \A w \in Workers : w[1] \in Tabs
  BY DEF Workers
<1> QED BY <1>1, <1>2, <1>3, <1>4, Constants DEF CancelsOnlyItsOwn

\* Every other step leaves the waiting as it is.
LEMMA OwnFrame ==
  ASSUME CancelsOnlyItsOwn, UNCHANGED <<attempt, preview, extraction>>
  PROVE  CancelsOnlyItsOwn'
BY DEF CancelsOnlyItsOwn

LEMMA NextOwn == Typed /\ CancelsOnlyItsOwn /\ [Next]_vars => CancelsOnlyItsOwn'
<1> SUFFICES ASSUME Typed, CancelsOnlyItsOwn, [Next]_vars PROVE CancelsOnlyItsOwn'
  OBVIOUS
<1>0. Typed'
  BY NextTyped
<1>1. CASE \E w \in Workers : Attempt(w) \/ StoreBroken(w)
  BY <1>0, <1>1, OwnAttempts
<1>2. CASE \E t \in Tabs : Crash(t)
  BY <1>0, <1>2, OwnCrash
<1>3. CASE \E t \in Tabs : \/ Open(t) \/ Start(t) \/ TimerFires(t) \/ JobBreaks(t)
                           \/ \E f \in Files : Hydrate(t, f)
  BY <1>3, OwnFrame DEF Open, Start, TimerFires, JobBreaks, Hydrate, work
<1>4. CASE \E t \in Tabs : Job(t)
  <2>1. PICK t \in Tabs : Job(t)
    BY <1>4
  <2>2. CASE DrainNext(t)
    BY <1>0, <2>2, OwnBegins
  <2>3. CASE ~DrainNext(t)
    BY <2>1, <2>3, OwnFrame DEF Job, List, DrainEnd, PauseEnd, Scan, ScanNext, JobEnd, work
  <2> QED BY <2>2, <2>3
<1>5. CASE \E t \in Tabs : Users(t)
  <2>1. PICK t \in Tabs : Users(t)
    BY <1>5
  <2>2. CASE LeavePreview(t)
    BY <1>0, <2>2, OwnLeave
  <2>3. CASE \E f \in Files : Retry(t, f)
    BY <1>0, <2>3, OwnBegins
  <2>4. CASE \E f \in Files : Preview(t, f)
    BY <1>0, <2>4, OwnPreview
  <2>5. CASE \E f \in Files : Upload(t, f) \/ Edit(t, f) \/ Delete(t, f) \/ ReadBytes(t, f)
    BY <2>5, OwnFrame DEF Upload, Edit, Delete, ReadBytes, work
  <2> QED BY <2>1, <2>2, <2>3, <2>4, <2>5 DEF Users
<1>6. CASE \E t \in Tabs, k \in Keys : Extract(t, k) \/ ExtractBreak(t, k)
  BY <1>0, <1>6, OwnExtract
<1>7. CASE \/ \E t \in Tabs, k \in Keys : OrphanPublish(t, k)
           \/ \E f \in Files : Pull(f)
           \/ ClockPasses \/ UNCHANGED vars
  BY <1>7, OwnFrame DEF OrphanPublish, Pull, ClockPasses, vars, work
<1> QED BY <1>1, <1>2, <1>3, <1>4, <1>5, <1>6, <1>7 DEF Next

\* A page that goes away takes nobody else's extraction with it: whoever waits
\* for an extraction, an attempt or a page, waits for one that is under way
\* (FileExtractionCoordinator.observe).
THEOREM OnlyItsOwn == Spec => []CancelsOnlyItsOwn
<1>1. Init => CancelsOnlyItsOwn
  BY Constants DEF Init, CancelsOnlyItsOwn
<1> QED BY <1>1, NextOwn, AlwaysTyped, PTL DEF Spec
=============================================================================
