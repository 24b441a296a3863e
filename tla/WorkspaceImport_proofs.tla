------------------------ MODULE WorkspaceImport_proofs ------------------------
(***************************************************************************)
(* Proofs about the import of a workspace.  The invariant places every     *)
(* write of the import in the log of the destination: the journals form a  *)
(* chain, the writes of a journal follow its initial head without a gap,   *)
(* and the head that a request carries says which step it is for.  So a    *)
(* request that is sent again, or a step of a journal that has been        *)
(* forked, finds another head than its own.                                *)
(*                                                                         *)
(* The first part is about the plan: its sequences are built by recursive  *)
(* functions, whose values are shown to exist by induction (NatSet).       *)
(* Then come the journals and the log (ImportInv).  After that the plan is *)
(* run: each of its phases leads from versions it expects to versions the  *)
(* next one expects, so while nobody else writes the destination follows   *)
(* the plan (FitInv).  The last part is about the writes of others: what   *)
(* is left of a journal is Waiting, no step of it expects more than there  *)
(* is, so a step that is accepted on a row of somebody else was decided    *)
(* about (DecisionInv).                                                    *)
(***************************************************************************)
EXTENDS WorkspaceImport, FiniteSetTheorems, SequenceTheorems, TLAPS

-----------------------------------------------------------------------------
(* Induction over the natural numbers for a set, from the well-foundedness *)
(* of the finite sets; and what it shows of FlattenSeq and of InOrder.     *)

LEMMA NatSet ==
  ASSUME NEW S, 0 \in S, \A n \in Nat : n \in S => n + 1 \in S
  PROVE  Nat \subseteq S
<1> SUFFICES ASSUME NEW z \in Nat, z \notin S PROVE FALSE
  OBVIOUS
<1> DEFINE T == {1 .. n : n \in Nat \ S}
<1>1. T \subseteq FiniteSubsetsOf(Nat) /\ T # {}
  <2>1. \A n \in Nat : 1 .. n \subseteq Nat /\ IsFiniteSet(1 .. n)
    BY FS_Interval
  <2> QED BY <2>1 DEF FiniteSubsetsOf
<1>2. \E x \in T : \A y \in T : ~ (<<y, x>> \in StrictSubsetOrdering(Nat))
  <2> HIDE DEF T
  <2>1. IsWellFoundedOn(StrictSubsetOrdering(Nat), FiniteSubsetsOf(Nat))
    BY FS_StrictSubsetOrderingWellFounded
  <2> QED BY <1>1, <2>1, WFMin
<1>3. PICK n \in Nat \ S : \A m \in Nat \ S : ~ (<<1 .. m, 1 .. n>> \in StrictSubsetOrdering(Nat))
  BY <1>2
<1>4. n - 1 \in Nat /\ n # 0
  OBVIOUS
<1>5. <<1 .. (n-1), 1 .. n>> \in StrictSubsetOrdering(Nat)
  <2>1. 1 .. (n-1) \subseteq 1 .. n /\ n \in 1 .. n /\ n \notin 1 .. (n - 1) /\ 1 .. n \subseteq Nat
    BY <1>4
  <2> QED BY <2>1 DEF StrictSubsetOrdering
<1>6. n - 1 \in S
  BY <1>3, <1>4, <1>5
<1>7. n - 1 + 1 \in S
  BY <1>4, <1>6
<1> QED BY <1>4, <1>7

LEMMA FlattenExists ==
  ASSUME NEW S, NEW seqs \in Seq(Seq(S))
  PROVE  \E f \in [1 .. Len(seqs) -> Seq(S)] :
           \A i \in 1 .. Len(seqs) : f[i] = IF i = 1 THEN seqs[i] ELSE f[i-1] \o seqs[i]
<1> DEFINE G(m) == \E f \in [1 .. m -> Seq(S)] :
                     \A i \in 1 .. m : f[i] = IF i = 1 THEN seqs[i] ELSE f[i-1] \o seqs[i]
           N == {m \in Nat : m <= Len(seqs) => G(m)}
<1>1. 0 \in N
  <2>1. [i \in 1 .. 0 |-> <<>>] \in [1 .. 0 -> Seq(S)]
    OBVIOUS
  <2>2. \A i \in 1 .. 0 : FALSE
    OBVIOUS
  <2> QED BY <2>1, <2>2
<1>2. ASSUME NEW m \in Nat, m \in N PROVE m + 1 \in N
  <2> SUFFICES ASSUME m + 1 <= Len(seqs) PROVE G(m + 1)
    <3> HIDE DEF G
    <3> QED OBVIOUS
  <2>1. m <= Len(seqs)
    OBVIOUS
  <2>2. PICK f \in [1 .. m -> Seq(S)] :
          \A i \in 1 .. m : f[i] = IF i = 1 THEN seqs[i] ELSE f[i-1] \o seqs[i]
    BY <1>2, <2>1
  <2> DEFINE g == [i \in 1 .. (m+1) |-> IF i <= m THEN f[i] ELSE
                     IF i = 1 THEN seqs[i] ELSE f[i-1] \o seqs[i]]
  <2>3. seqs[m+1] \in Seq(S)
    OBVIOUS
  <2>4. m # 0 => f[m] \in Seq(S) /\ f[m] \o seqs[m+1] \in Seq(S)
    BY <2>3
  <2>5. g \in [1 .. (m+1) -> Seq(S)]
    BY <2>3, <2>4
  <2>6. ASSUME NEW i \in 1 .. (m+1)
        PROVE  g[i] = IF i = 1 THEN seqs[i] ELSE g[i-1] \o seqs[i]
    <3>1. i # 1 => i-1 \in 1 .. m /\ i-1 \in 1 .. (m+1) /\ i-1 <= m
      OBVIOUS
    <3>2. i # 1 => g[i-1] = f[i-1]
      BY <3>1
    <3>3. i <= m => g[i] = f[i] /\ i \in 1 .. m
      OBVIOUS
    <3>4. ~ (i <= m) => g[i] = IF i = 1 THEN seqs[i] ELSE f[i-1] \o seqs[i]
      OBVIOUS
    <3> HIDE DEF g
    <3> QED BY <2>2, <3>2, <3>3, <3>4
  <2> HIDE DEF g
  <2> QED BY <2>5, <2>6
<1>3. Nat \subseteq N
  <2> HIDE DEF N
  <2> QED BY <1>1, <1>2, NatSet
<1>4. Len(seqs) \in N
  <2> HIDE DEF N
  <2> QED BY <1>3
<1>5. G(Len(seqs))
  BY <1>4
<1> QED BY <1>5

LEMMA FlattenType ==
  ASSUME NEW S, NEW seqs \in Seq(Seq(S))
  PROVE  FlattenSeq(seqs) \in Seq(S)
<1>1. CASE Len(seqs) = 0
  BY <1>1 DEF FlattenSeq
<1>2. CASE Len(seqs) # 0
  <2> DEFINE n == Len(seqs)
             Is(f) == f = [i \in 1 .. n |-> IF i = 1 THEN seqs[i] ELSE f[i-1] \o seqs[i]]
             c == CHOOSE f : Is(f)
  <2>1. FlattenSeq(seqs) = c[n]
    BY <1>2 DEF FlattenSeq
  <2>2. n \in 1 .. Len(seqs)
    BY <1>2
  <2>3. \E f : Is(f)
    <3>1. PICK f \in [1 .. n -> Seq(S)] :
            \A i \in 1 .. n : f[i] = IF i = 1 THEN seqs[i] ELSE f[i-1] \o seqs[i]
      BY FlattenExists
    <3>2. Is(f)
      BY <3>1
    <3> QED BY <3>2
  <2>4. Is(c)
    BY <2>3
  <2> HIDE DEF c
  <2>5. \A i \in 1 .. n : c[i] = IF i = 1 THEN seqs[i] ELSE c[i-1] \o seqs[i]
    BY <2>4
  <2> DEFINE N == {m \in Nat : m \in 1 .. n => c[m] \in Seq(S)}
  <2>6. 0 \in N
    OBVIOUS
  <2>7. ASSUME NEW m \in Nat, m \in N PROVE m + 1 \in N
    <3> SUFFICES ASSUME m + 1 \in 1 .. n PROVE c[m + 1] \in Seq(S)
      OBVIOUS
    <3>1. seqs[m + 1] \in Seq(S)
      OBVIOUS
    <3>2. CASE m = 0
      BY <2>5, <3>1, <3>2
    <3>3. CASE m # 0
      <4>1. m \in 1 .. n /\ m + 1 - 1 = m /\ m + 1 # 1
        BY <3>3
      <4>2. c[m] \in Seq(S)
        BY <2>7, <4>1
      <4>3. PICK i \in 1 .. n : i = m + 1
        OBVIOUS
      <4>4. i # 1 /\ i - 1 = m
        BY <4>1, <4>3
      <4>5. c[i] = c[i - 1] \o seqs[i]
        BY <2>5, <4>4
      <4> QED BY <3>1, <4>2, <4>3, <4>4, <4>5
    <3> QED BY <3>2, <3>3
  <2>8. Nat \subseteq N
    <3> HIDE DEF N
    <3> QED BY <2>6, <2>7, NatSet
  <2>9. n \in Nat /\ n \in 1 .. n
    BY <1>2
  <2>10. c[n] \in Seq(S)
    BY <2>8, <2>9
  <2> QED BY <2>1, <2>10
<1> QED BY <1>1, <1>2

\* What is taken one after the other from a sequence of copies stays one.
LEMMA FilterType ==
  ASSUME NEW S, NEW copies \in Seq(S), NEW P
  PROVE  FlattenSeq([i \in DOMAIN copies |-> IF copies[i] \in P THEN <<copies[i]>> ELSE <<>>])
           \in Seq(S)
<1> DEFINE f == [i \in DOMAIN copies |-> IF copies[i] \in P THEN <<copies[i]>> ELSE <<>>]
<1>1. \A i \in 1 .. Len(copies) : f[i] \in Seq(S)
  OBVIOUS
<1>2. f = [i \in 1 .. Len(copies) |-> f[i]]
  OBVIOUS
<1>3. f \in Seq(Seq(S))
  <2> HIDE DEF f
  <2> QED BY <1>1, <1>2
<1> HIDE DEF f
<1>4. FlattenSeq(f) \in Seq(S)
  BY <1>3, FlattenType
<1> QED BY <1>4 DEF f

LEMMA OfKindType ==
  ASSUME NEW copies \in Seq(CopyType), NEW kinds
  PROVE  OfKind(kinds, copies) \in Seq(CopyType)
<1> DEFINE P == {c \in CopyType : c.kind \in kinds}
<1>1. [i \in DOMAIN copies |-> IF copies[i].kind \in kinds THEN <<copies[i]>> ELSE <<>>]
      = [i \in DOMAIN copies |-> IF copies[i] \in P THEN <<copies[i]>> ELSE <<>>]
  OBVIOUS
<1> HIDE DEF P
<1>2. OfKind(kinds, copies) =
        FlattenSeq([i \in DOMAIN copies |-> IF copies[i] \in P THEN <<copies[i]>> ELSE <<>>])
  BY <1>1 DEF OfKind, Those, EachOf
<1> QED BY <1>2, FilterType

LEMMA FoldersType ==
  ASSUME NEW copies \in Seq(CopyType)
  PROVE  Folders(copies) \in Seq(CopyType)
<1> DEFINE P == {c \in CopyType : c.kind = "FOLDER" /\ ~ c.archived}
<1>1. [i \in DOMAIN copies |->
         IF copies[i].kind = "FOLDER" /\ ~ copies[i].archived THEN <<copies[i]>> ELSE <<>>]
      = [i \in DOMAIN copies |-> IF copies[i] \in P THEN <<copies[i]>> ELSE <<>>]
  OBVIOUS
<1> HIDE DEF P
<1>2. Folders(copies) =
        FlattenSeq([i \in DOMAIN copies |-> IF copies[i] \in P THEN <<copies[i]>> ELSE <<>>])
  BY <1>1 DEF Folders, Those, EachOf
<1> QED BY <1>2, FilterType

LEMMA TakenType ==
  ASSUME NEW copies \in Seq(CopyType), NEW done \in Seq(CopyType)
  PROVE  Taken(copies, done) \in Seq(CopyType)
<1> DEFINE ids == {d.id : d \in Range(copies) \ Range(done)}
           P == {c \in CopyType : c \notin Range(done) /\ c.under \notin ids}
<1>1. [i \in DOMAIN copies |->
         IF copies[i] \notin Range(done) /\ copies[i].under \notin ids
         THEN <<copies[i]>> ELSE <<>>]
      = [i \in DOMAIN copies |-> IF copies[i] \in P THEN <<copies[i]>> ELSE <<>>]
  <2> HIDE DEF ids
  <2> QED OBVIOUS
<1>2. Ready(copies, done) =
        FlattenSeq([i \in DOMAIN copies |-> IF copies[i] \in P THEN <<copies[i]>> ELSE <<>>])
  <2> HIDE DEF P
  <2> QED BY <1>1 DEF Ready, Those, EachOf
<1> HIDE DEF P, ids
<1>3. Ready(copies, done) \in Seq(CopyType)
  BY <1>2, FilterType
<1> QED BY <1>3 DEF Taken

LEMMA PlacedExists ==
  ASSUME NEW copies \in Seq(CopyType)
  PROVE  \E f \in [0 .. Len(copies) -> Seq(CopyType)] :
           \A i \in 0 .. Len(copies) : f[i] = IF i = 0 THEN <<>> ELSE Taken(copies, f[i - 1])
<1> DEFINE G(m) == \E f \in [0 .. m -> Seq(CopyType)] :
                     \A i \in 0 .. m : f[i] = IF i = 0 THEN <<>> ELSE Taken(copies, f[i - 1])
           N == {m \in Nat : G(m)}
<1>1. 0 \in N
  <2>1. [i \in 0 .. 0 |-> <<>>] \in [0 .. 0 -> Seq(CopyType)]
    OBVIOUS
  <2>2. \A i \in 0 .. 0 : i = 0
    OBVIOUS
  <2> QED BY <2>1, <2>2
<1>2. ASSUME NEW m \in Nat, m \in N PROVE m + 1 \in N
  <2> SUFFICES G(m + 1)
    <3> HIDE DEF G
    <3> QED OBVIOUS
  <2>1. PICK f \in [0 .. m -> Seq(CopyType)] :
          \A i \in 0 .. m : f[i] = IF i = 0 THEN <<>> ELSE Taken(copies, f[i - 1])
    BY <1>2
  <2> DEFINE g == [i \in 0 .. (m + 1) |-> IF i <= m THEN f[i] ELSE Taken(copies, f[m])]
  <2>2. f[m] \in Seq(CopyType) /\ Taken(copies, f[m]) \in Seq(CopyType)
    BY TakenType
  <2>3. g \in [0 .. (m + 1) -> Seq(CopyType)]
    BY <2>2
  <2>4. ASSUME NEW i \in 0 .. (m + 1)
        PROVE  g[i] = IF i = 0 THEN <<>> ELSE Taken(copies, g[i - 1])
    <3>1. i # 0 => i - 1 \in 0 .. m /\ i - 1 \in 0 .. (m + 1) /\ i - 1 <= m
      OBVIOUS
    <3>2. i # 0 => g[i - 1] = f[i - 1]
      BY <3>1
    <3>3. i <= m => g[i] = f[i] /\ i \in 0 .. m
      OBVIOUS
    <3>4. ~ (i <= m) => g[i] = Taken(copies, f[m]) /\ i - 1 = m /\ i # 0
      OBVIOUS
    <3> HIDE DEF g
    <3> QED BY <2>1, <3>2, <3>3, <3>4
  <2> HIDE DEF g
  <2> QED BY <2>3, <2>4
<1>3. Nat \subseteq N
  <2> HIDE DEF N
  <2> QED BY <1>1, <1>2, NatSet
<1>4. Len(copies) \in N
  <2> HIDE DEF N
  <2> QED BY <1>3
<1> QED BY <1>4

LEMMA InOrderType ==
  ASSUME NEW copies \in Seq(CopyType)
  PROVE  InOrder(copies) \in Seq(CopyType)
<1> DEFINE n == Len(copies)
           Is(f) == f = [i \in 0 .. n |-> IF i = 0 THEN <<>> ELSE Taken(copies, f[i - 1])]
           c == CHOOSE f : Is(f)
<1>1. InOrder(copies) = c[n]
  BY DEF InOrder
<1>2. \E f : Is(f)
  <2>1. PICK f \in [0 .. n -> Seq(CopyType)] :
          \A i \in 0 .. n : f[i] = IF i = 0 THEN <<>> ELSE Taken(copies, f[i - 1])
    BY PlacedExists
  <2>2. Is(f)
    BY <2>1
  <2> QED BY <2>2
<1>3. Is(c)
  BY <1>2
<1> HIDE DEF c
<1>4. \A i \in 0 .. n : c[i] = IF i = 0 THEN <<>> ELSE Taken(copies, c[i - 1])
  BY <1>3
<1> DEFINE N == {m \in Nat : m \in 0 .. n => c[m] \in Seq(CopyType)}
<1>5. 0 \in N
  <2>1. 0 \in 0 .. n
    OBVIOUS
  <2>2. c[0] = <<>>
    BY <1>4, <2>1
  <2>3. <<>> \in Seq(CopyType)
    OBVIOUS
  <2>4. c[0] \in Seq(CopyType)
    BY <2>2, <2>3
  <2> HIDE DEF n
  <2> QED BY <2>4
<1>6. ASSUME NEW m \in Nat, m \in N PROVE m + 1 \in N
  <2> SUFFICES ASSUME m + 1 \in 0 .. n PROVE c[m + 1] \in Seq(CopyType)
    OBVIOUS
  <2>1. PICK i \in 0 .. n : i = m + 1
    OBVIOUS
  <2>2. i # 0 /\ i - 1 = m /\ m \in 0 .. n
    BY <2>1
  <2>3. c[m] \in Seq(CopyType)
    BY <1>6, <2>2
  <2>4. c[i] = Taken(copies, c[m])
    BY <1>4, <2>2
  <2> QED BY <2>1, <2>3, <2>4, TakenType
<1>7. Nat \subseteq N
  <2> HIDE DEF N
  <2> QED BY <1>5, <1>6, NatSet
<1>8. n \in Nat /\ n \in 0 .. n
  OBVIOUS
<1>9. c[n] \in Seq(CopyType)
  BY <1>7, <1>8
<1> QED BY <1>1, <1>9

\* A step of a copy, at whatever versions.
LEMMA StepIsStep ==
  ASSUME NEW c \in CopyType, NEW v \in Nat, NEW ov \in Nat,
         NEW op \in {"CREATE", "SAVE", "ARCHIVE", "MOVE_TEXT", "MOVE_IN", "NOTE_ICON",
                     "NEW_FOLDER", "FOLDER_ICON"}
  PROVE  Step(op, c, v, ov) \in StepType /\ <<Step(op, c, v, ov)>> \in Seq(StepType)
BY DEF Step, StepType, CopyType

LEMMA CopySteps ==
  ASSUME TypeOK, NEW c \in CopyType
  PROVE  /\ CreateSteps(c) \in Seq(StepType) /\ FinalSteps(c) \in Seq(StepType)
         /\ OrderSteps(c) \in Seq(StepType) /\ FolderSteps(c) \in Seq(StepType)
         /\ MembershipSteps(c) \in Seq(StepType)
<1>1. at[Row(c.id, "ENTITY")] \in Nat
  BY DEF TypeOK, Row, Parts, CopyType
<1>2. <<>> \in Seq(StepType)
  OBVIOUS
<1> HIDE DEF StepType, CopyType
<1>3. CreateSteps(c) \in Seq(StepType)
  <2>1. <<Step("CREATE", c, 0, 0)>> \in Seq(StepType) /\ <<Step("SAVE", c, 1, 0)>> \in Seq(StepType)
    BY StepIsStep
  <2> QED BY <1>2, <2>1, ConcatProperties DEF CreateSteps
<1>4. FinalSteps(c) \in Seq(StepType)
  BY <1>2, StepIsStep DEF FinalSteps
<1>5. OrderSteps(c) \in Seq(StepType)
  BY <1>1, StepIsStep DEF OrderSteps
<1>6. FolderSteps(c) \in Seq(StepType)
  <2>1. /\ <<Step("NEW_FOLDER", c, 0, 0)>> \in Seq(StepType)
        /\ <<Step("FOLDER_ICON", c, 1, 1)>> \in Seq(StepType)
    BY StepIsStep
  <2> QED BY <1>2, <2>1, ConcatProperties DEF FolderSteps
<1>7. MembershipSteps(c) \in Seq(StepType)
  <2>1. /\ <<Step("ARCHIVE", c, 2, 0)>> \in Seq(StepType)
        /\ <<Step("MOVE_IN", c, 1, 0)>> \in Seq(StepType)
        /\ <<Step("MOVE_TEXT", c, 1, 0)>> \in Seq(StepType)
        /\ \A v, ov \in Nat : <<Step("NOTE_ICON", c, v, ov)>> \in Seq(StepType)
    BY StepIsStep
  <2> DEFINE move == IF c.into # NoId THEN <<Step("MOVE_IN", c, 1, 0)>>
                     ELSE IF c.text THEN <<Step("MOVE_TEXT", c, 1, 0)>> ELSE <<>>
             icon == IF c.icon
                     THEN <<Step("NOTE_ICON", c, IF c.into # NoId \/ c.text THEN 2 ELSE 1,
                                 IF c.into = NoId /\ c.text THEN 1 ELSE 0)>>
                     ELSE <<>>
  <2>2. move \in Seq(StepType) /\ icon \in Seq(StepType)
    BY <1>2, <2>1
  <2>3. MembershipSteps(c) =
          CASE c.kind = "WORK" /\ c.archived -> <<Step("ARCHIVE", c, 2, 0)>>
            [] c.kind = "NOTE" -> move \o icon
            [] OTHER -> <<>>
    BY DEF MembershipSteps
  <2> HIDE DEF move, icon
  <2>4. move \o icon \in Seq(StepType)
    BY <2>2
  <2> QED BY <1>2, <2>1, <2>3, <2>4
<1> QED BY <1>3, <1>4, <1>5, <1>6, <1>7

\* One step list after the other.
LEMMA EachType ==
  ASSUME NEW S, NEW T, NEW copies \in Seq(S), NEW f, DOMAIN f = DOMAIN copies,
         \A i \in 1 .. Len(copies) : f[i] \in Seq(T), f = [i \in DOMAIN copies |-> f[i]]
  PROVE  FlattenSeq(f) \in Seq(T)
<1>1. f = [i \in 1 .. Len(copies) |-> f[i]]
  OBVIOUS
<1>2. f \in Seq(Seq(T))
  BY <1>1
<1> QED BY <1>2, FlattenType

LEMMA PlanType ==
  ASSUME TypeOK, NEW copies \in Seq(CopyType)
  PROVE  Plan(copies) \in Seq(StepType)
<1> HIDE DEF CopyType, StepType
<1>1. /\ Entities(copies) \in Seq(CopyType) /\ InOrder(Entities(copies)) \in Seq(CopyType)
      /\ OfKind({"ORDER"}, copies) \in Seq(CopyType) /\ InOrder(Folders(copies)) \in Seq(CopyType)
  BY OfKindType, FoldersType, InOrderType DEF Entities
<1>2. ASSUME NEW s \in Seq(CopyType)
      PROVE  /\ EachOf(s, CreateSteps) \in Seq(StepType)
             /\ EachOf(s, FinalSteps) \in Seq(StepType)
             /\ EachOf(s, OrderSteps) \in Seq(StepType)
             /\ EachOf(s, FolderSteps) \in Seq(StepType)
             /\ EachOf(s, MembershipSteps) \in Seq(StepType)
  <2>1. \A i \in 1 .. Len(s) : s[i] \in CopyType
    OBVIOUS
  <2>2. EachOf(s, CreateSteps) \in Seq(StepType)
    <3> DEFINE f == [i \in DOMAIN s |-> CreateSteps(s[i])]
    <3>1. \A i \in 1 .. Len(s) : f[i] \in Seq(StepType)
      BY <2>1, CopySteps
    <3>2. DOMAIN f = DOMAIN s /\ f = [i \in DOMAIN s |-> f[i]] /\ EachOf(s, CreateSteps) = FlattenSeq(f)
      BY DEF EachOf
    <3> HIDE DEF f
    <3> QED BY <3>1, <3>2, EachType
  <2>3. EachOf(s, FinalSteps) \in Seq(StepType)
    <3> DEFINE f == [i \in DOMAIN s |-> FinalSteps(s[i])]
    <3>1. \A i \in 1 .. Len(s) : f[i] \in Seq(StepType)
      BY <2>1, CopySteps
    <3>2. DOMAIN f = DOMAIN s /\ f = [i \in DOMAIN s |-> f[i]] /\ EachOf(s, FinalSteps) = FlattenSeq(f)
      BY DEF EachOf
    <3> HIDE DEF f
    <3> QED BY <3>1, <3>2, EachType
  <2>4. EachOf(s, OrderSteps) \in Seq(StepType)
    <3> DEFINE f == [i \in DOMAIN s |-> OrderSteps(s[i])]
    <3>1. \A i \in 1 .. Len(s) : f[i] \in Seq(StepType)
      BY <2>1, CopySteps
    <3>2. DOMAIN f = DOMAIN s /\ f = [i \in DOMAIN s |-> f[i]] /\ EachOf(s, OrderSteps) = FlattenSeq(f)
      BY DEF EachOf
    <3> HIDE DEF f
    <3> QED BY <3>1, <3>2, EachType
  <2>5. EachOf(s, FolderSteps) \in Seq(StepType)
    <3> DEFINE f == [i \in DOMAIN s |-> FolderSteps(s[i])]
    <3>1. \A i \in 1 .. Len(s) : f[i] \in Seq(StepType)
      BY <2>1, CopySteps
    <3>2. DOMAIN f = DOMAIN s /\ f = [i \in DOMAIN s |-> f[i]] /\ EachOf(s, FolderSteps) = FlattenSeq(f)
      BY DEF EachOf
    <3> HIDE DEF f
    <3> QED BY <3>1, <3>2, EachType
  <2>6. EachOf(s, MembershipSteps) \in Seq(StepType)
    <3> DEFINE f == [i \in DOMAIN s |-> MembershipSteps(s[i])]
    <3>1. \A i \in 1 .. Len(s) : f[i] \in Seq(StepType)
      BY <2>1, CopySteps
    <3>2. DOMAIN f = DOMAIN s /\ f = [i \in DOMAIN s |-> f[i]]
          /\ EachOf(s, MembershipSteps) = FlattenSeq(f)
      BY DEF EachOf
    <3> HIDE DEF f
    <3> QED BY <3>1, <3>2, EachType
  <2> QED BY <2>2, <2>3, <2>4, <2>5, <2>6
<1>3. /\ EachOf(InOrder(Entities(copies)), CreateSteps) \in Seq(StepType)
      /\ EachOf(Entities(copies), FinalSteps) \in Seq(StepType)
      /\ EachOf(OfKind({"ORDER"}, copies), OrderSteps) \in Seq(StepType)
      /\ EachOf(InOrder(Folders(copies)), FolderSteps) \in Seq(StepType)
      /\ EachOf(Entities(copies), MembershipSteps) \in Seq(StepType)
  BY <1>1, <1>2
<1> DEFINE a == EachOf(InOrder(Entities(copies)), CreateSteps)
           b == EachOf(Entities(copies), FinalSteps)
           c == EachOf(OfKind({"ORDER"}, copies), OrderSteps)
           d == EachOf(InOrder(Folders(copies)), FolderSteps)
           e == EachOf(Entities(copies), MembershipSteps)
<1>4. Plan(copies) = a \o b \o c \o d \o e
  BY DEF Plan
<1> HIDE DEF a, b, c, d, e
<1>5. a \in Seq(StepType) /\ b \in Seq(StepType) /\ c \in Seq(StepType) /\ d \in Seq(StepType)
      /\ e \in Seq(StepType)
  BY <1>3 DEF a, b, c, d, e
<1> QED BY <1>4, <1>5

-----------------------------------------------------------------------------
(* Types. *)

LEMMA JournalParts ==
  ASSUME TypeOK, NEW j \in DOMAIN journals
  PROVE  /\ journals[j] \in JournalType /\ journals[j].steps \in Seq(StepType)
         /\ Len(journals[j].steps) \in Nat /\ DOMAIN journals = 1 .. Len(journals)
         /\ DOMAIN journals[j].steps = 1 .. Len(journals[j].steps)
         /\ j \in Nat \ {0} /\ Len(journals) \in Nat
         /\ journals[j].accepted \in Nat /\ journals[j].initial \in Nat
         /\ journals[j].revision \in Nat /\ journals[j].parent \in Nat
<1>1. journals \in Seq(JournalType)
  BY DEF TypeOK
<1>2. DOMAIN journals = 1 .. Len(journals) /\ Len(journals) \in Nat /\ journals[j] \in JournalType
  BY <1>1
<1>3. j \in Nat \ {0}
  BY <1>2
<1>4. /\ journals[j].steps \in Seq(StepType) /\ journals[j].accepted \in Nat
      /\ journals[j].initial \in Nat /\ journals[j].revision \in Nat
      /\ journals[j].parent \in Nat
  BY <1>2 DEF JournalType
<1>5. /\ Len(journals[j].steps) \in Nat
      /\ DOMAIN journals[j].steps = 1 .. Len(journals[j].steps)
  BY <1>4
<1> QED BY <1>2, <1>3, <1>4, <1>5

LEMMA WorkParts ==
  ASSUME TypeOK, NEW t \in Tabs
  PROVE  /\ tab[t] \in WorkType /\ tab[t].journal \in Nat /\ tab[t].accepted \in Nat
         /\ tab[t].revision \in Nat /\ tab[t].reply \in Nat /\ tab[t].steps \in Seq(StepType)
         /\ tab[t].shown \in [accepted : Nat, head : Nat] /\ tab[t].shown.head \in Nat
         /\ tab[t].pc \in {"idle", "loop", "wait", "answered", "inspect", "shown", "fork"}
         /\ tab[t].why \in {"continue", "review", "rebase"}
BY DEF TypeOK, WorkType

LEMMA NoWorkType == NoWork \in WorkType /\ NoWork.pc = "idle" /\ NoReview \in [accepted : Nat, head : Nat]
BY DEF NoWork, WorkType, NoReview

\* A step that moves one tab, and nothing that is stored.
LEMMA TabType ==
  ASSUME TypeOK, NEW t \in Tabs, NEW w \in WorkType,
         w.pc # "idle" => w.journal \in DOMAIN journals,
         tab' = [tab EXCEPT ![t] = w], stops' \in Nat,
         wire' \subseteq wire, UNCHANGED <<journals, server, ghosts>>
  PROVE  TypeOK'
<1>1. /\ tab' \in [Tabs -> WorkType]
      /\ \A u \in Tabs : tab'[u] = IF u = t THEN w ELSE tab[u]
  BY DEF TypeOK
<1>2. \A u \in Tabs : tab'[u].pc # "idle" => tab'[u].journal \in DOMAIN journals
  BY <1>1 DEF TypeOK, At
<1>3. UNCHANGED <<at, gone, head, receipts, log, alien>>
  BY DEF server, ghosts
<1> QED BY <1>1, <1>2, <1>3 DEF TypeOK, At

\* Steps that only change fields of the work of one tab.
LEMMA FieldsType ==
  ASSUME TypeOK, NEW t \in Tabs, ~ At(t, "idle"), NEW pc, NEW steps \in Seq(StepType),
         NEW accepted \in Nat, NEW revision \in Nat, NEW reply \in Nat,
         pc \in {"loop", "wait", "answered", "inspect", "fork"},
         tab' = [tab EXCEPT ![t] = [tab[t] EXCEPT !.pc = pc, !.accepted = accepted,
                   !.revision = revision, !.reply = reply, !.steps = steps]],
         stops' \in Nat, wire' \subseteq wire, UNCHANGED <<journals, server, ghosts>>
  PROVE  TypeOK'
<1> DEFINE w == [tab[t] EXCEPT !.pc = pc, !.accepted = accepted, !.revision = revision,
                               !.reply = reply, !.steps = steps]
<1>1. w \in WorkType /\ w.journal = tab[t].journal
  BY WorkParts DEF WorkType
<1>2. w.journal \in DOMAIN journals
  BY <1>1 DEF TypeOK
<1> HIDE DEF w
<1>3. tab' = [tab EXCEPT ![t] = w]
  BY DEF w
<1> QED BY ONLY TypeOK, t \in Tabs, <1>1, <1>2, <1>3, stops' \in Nat, wire' \subseteq wire,
           UNCHANGED <<journals, server, ghosts>>, TabType

LEMMA PrepareType ==
  ASSUME TypeOK, NEW copies \in Selections, Prepare(copies)
  PROVE  TypeOK'
<1> DEFINE j == [steps |-> Plan(copies), accepted |-> 0, initial |-> head, revision |-> head,
                 parent |-> 0]
<1>1. j \in JournalType /\ Len(j.steps) \in Nat
  <2>1. Plan(copies) \in Seq(StepType)
    BY PlanType, ImportAssumption
  <2> QED BY <2>1 DEF TypeOK, JournalType
<1>2. journals = <<>> /\ journals' = <<j>>
  BY DEF Prepare
<1>3. UNCHANGED <<at, gone, head, receipts, wire, tab, stops, log, alien>>
  BY DEF Prepare, server, ghosts
<1>4. j.accepted = 0
  OBVIOUS
<1> HIDE DEF j
<1>5. /\ journals' \in Seq(JournalType) /\ DOMAIN journals = {}
      /\ \A k \in DOMAIN journals' : journals'[k].accepted <= Len(journals'[k].steps)
  BY <1>1, <1>2, <1>4
<1>6. wire = {} /\ \A t \in Tabs : At(t, "idle")
  BY <1>5 DEF TypeOK
<1> QED BY <1>3, <1>5, <1>6 DEF TypeOK, At

LEMMA BeginType ==
  ASSUME TypeOK, NEW t \in Tabs, NEW j \in DOMAIN journals,
         NEW why \in {"continue", "review", "rebase"},
         NEW review \in [accepted : Nat, head : Nat], Begin(t, j, why, review)
  PROVE  TypeOK'
<1> DEFINE w == [NoWork EXCEPT !.pc = "loop", !.why = why, !.journal = j, !.shown = review,
                   !.accepted = journals[j].accepted, !.revision = journals[j].revision]
<1>1. w \in WorkType /\ w.journal = j
  BY JournalParts, NoWorkType DEF NoWork, WorkType
<1>2. stops' \in Nat /\ wire' = wire
  BY DEF TypeOK, Begin
<1> HIDE DEF w
<1> QED BY <1>1, <1>2, TabType DEF Begin, w

LEMMA SendType ==
  ASSUME TypeOK, NEW t \in Tabs, Send(t)
  PROVE  TypeOK'
<1> DEFINE m == [tab |-> t, journal |-> tab[t].journal, step |-> NextOf(t),
                 guard |-> tab[t].revision]
<1>1. tab[t].journal \in DOMAIN journals /\ tab[t].pc = "loop"
  BY DEF TypeOK, Send, At
<1>2. NextOf(t) \in DOMAIN journals[tab[t].journal].steps /\ NextOf(t) \in Nat
  BY <1>1, JournalParts, WorkParts DEF Send, Sendable, Left, NextOf
<1>3. /\ m \in [tab : Tabs, journal : Nat, step : Nat, guard : Nat]
      /\ m.journal \in DOMAIN journals /\ m.step \in DOMAIN journals[m.journal].steps
  BY <1>1, <1>2, WorkParts
<1>4. tab' = [tab EXCEPT ![t].pc = "wait"] /\ wire' = wire \cup {m}
  BY DEF Send, Goto
<1> HIDE DEF m
<1>5. UNCHANGED <<journals, at, gone, head, receipts, stops, log, alien>>
  BY DEF Send, server, ghosts
<1> DEFINE w == [tab[t] EXCEPT !.pc = "wait"]
<1>w. w \in WorkType /\ w.journal = tab[t].journal
  BY WorkParts DEF WorkType
<1>x. tab' = [tab EXCEPT ![t] = w]
  BY <1>4
<1> HIDE DEF w
<1>6. tab' \in [Tabs -> WorkType]
  BY <1>w, <1>x DEF TypeOK
<1>7. \A u \in Tabs : tab'[u].journal = tab[u].journal /\ (u # t => tab'[u] = tab[u])
  BY <1>w, <1>x DEF TypeOK
<1>8. \A u \in Tabs : tab'[u].pc # "idle" => tab'[u].journal \in DOMAIN journals
  BY <1>1, <1>7 DEF TypeOK, At
<1>9. /\ wire' \subseteq [tab : Tabs, journal : Nat, step : Nat, guard : Nat]
      /\ \A x \in wire' : x.journal \in DOMAIN journals /\ x.step \in DOMAIN journals[x.journal].steps
  BY <1>3, <1>4 DEF TypeOK
<1> QED BY <1>5, <1>6, <1>8, <1>9 DEF TypeOK, At

\* The tab that waits for an answer, or none.
LEMMA AnsweredType ==
  ASSUME TypeOK, NEW m \in wire, NEW reply \in Nat, Answered(m, reply)
  PROVE  /\ tab' \in [Tabs -> WorkType]
         /\ \A t \in Tabs : ~ At(t, "idle")' => tab'[t].journal \in DOMAIN journals
<1>1. m.tab \in Tabs
  BY DEF TypeOK
<1>2. Waits(m) => tab[m.tab].pc = "wait"
  BY DEF Waits, At
<1>3. ~ Waits(m) => tab' = tab
  BY <1>1 DEF Answered, TypeOK
<1>4. Waits(m) /\ reply = 0 => tab' = [tab EXCEPT ![m.tab] = NoWork]
  BY DEF Answered
<1>5. Waits(m) /\ reply # 0 =>
        tab' = [tab EXCEPT ![m.tab] = [tab[m.tab] EXCEPT !.pc = "answered", !.reply = reply]]
  BY DEF Answered
<1>6. CASE ~ Waits(m)
  BY <1>3, <1>6 DEF TypeOK, At
<1>7. CASE Waits(m) /\ reply = 0
  BY <1>1, <1>4, <1>7, NoWorkType DEF TypeOK, At
<1>8. CASE Waits(m) /\ reply # 0
  <2>1. tab[m.tab] \in WorkType /\ tab[m.tab].journal \in DOMAIN journals
    BY <1>1, <1>2, <1>8 DEF TypeOK, At
  <2>2. /\ [tab[m.tab] EXCEPT !.pc = "answered", !.reply = reply] \in WorkType
        /\ [tab[m.tab] EXCEPT !.pc = "answered", !.reply = reply].journal = tab[m.tab].journal
    BY <2>1 DEF WorkType
  <2> QED BY <1>1, <1>5, <1>8, <2>1, <2>2 DEF TypeOK, At
<1> QED BY <1>6, <1>7, <1>8

LEMMA WrittenType ==
  ASSUME TypeOK, NEW m \in wire
  PROVE  /\ journals[m.journal].steps[m.step] \in StepType
         /\ Written(journals[m.journal].steps[m.step]) \in Ids \X Parts
<1>1. m.journal \in DOMAIN journals /\ m.step \in DOMAIN journals[m.journal].steps
  BY DEF TypeOK
<1>2. journals[m.journal].steps[m.step] \in StepType
  BY <1>1, JournalParts
<1> QED BY <1>2 DEF StepType, Written, Row, Parts

LEMMA AcceptType ==
  ASSUME TypeOK, NEW m \in wire, Accept(m)
  PROVE  TypeOK'
<1> DEFINE s == journals[m.journal].steps[m.step]
           r == [journal |-> m.journal, step |-> m.step, guard |-> m.guard, head |-> head + 1]
           w == [journal |-> m.journal, step |-> m.step]
<1>1. /\ m \in [tab : Tabs, journal : Nat, step : Nat, guard : Nat]
      /\ Written(s) \in Ids \X Parts /\ head \in Nat
  BY WrittenType DEF TypeOK
<1>2. /\ r \in [journal : Nat, step : Nat, guard : Nat, head : Nat]
      /\ w \in [journal : Nat, step : Nat] /\ head + 1 \in Nat
  BY <1>1
<1>3. /\ at' = [at EXCEPT ![Written(s)] = @ + 1] /\ head' = head + 1
      /\ receipts' = receipts \cup {r} /\ log' = Append(log, w) /\ alien' = alien \ {Written(s)}
      /\ wire' \subseteq wire /\ Answered(m, head + 1) /\ UNCHANGED <<journals, gone, stops>>
  BY DEF Accept
<1> HIDE DEF s, r, w
<1>4. at' \in [Ids \X Parts -> Nat] /\ head' \in Nat /\ alien' \subseteq Ids \X Parts
  BY <1>1, <1>3 DEF TypeOK
<1>5. /\ receipts' \subseteq [journal : Nat, step : Nat, guard : Nat, head : Nat]
      /\ log' \in Seq([journal : Nat, step : Nat])
  BY <1>2, <1>3 DEF TypeOK
<1>6. /\ tab' \in [Tabs -> WorkType]
      /\ \A t \in Tabs : ~ At(t, "idle")' => tab'[t].journal \in DOMAIN journals
  BY <1>2, <1>3, AnsweredType
<1>7. /\ journals' \in Seq(JournalType) /\ gone' \subseteq Ids /\ stops' \in Nat
      /\ \A j \in DOMAIN journals' : journals'[j].accepted <= Len(journals'[j].steps)
      /\ wire' \subseteq [tab : Tabs, journal : Nat, step : Nat, guard : Nat]
      /\ \A x \in wire' : /\ x.journal \in DOMAIN journals'
                          /\ x.step \in DOMAIN journals'[x.journal].steps
  BY <1>3 DEF TypeOK
<1> QED BY <1>3, <1>4, <1>5, <1>6, <1>7 DEF TypeOK

LEMMA AnswerOnlyType ==
  ASSUME TypeOK, NEW m \in wire, NEW reply \in Nat, Answered(m, reply), wire' \subseteq wire,
         UNCHANGED <<journals, server, stops, ghosts>>
  PROVE  TypeOK'
<1>1. /\ tab' \in [Tabs -> WorkType]
      /\ \A t \in Tabs : ~ At(t, "idle")' => tab'[t].journal \in DOMAIN journals
  BY AnsweredType
<1>2. UNCHANGED <<journals, at, gone, head, receipts, stops, log, alien>>
  BY DEF server, ghosts
<1> QED BY <1>1, <1>2 DEF TypeOK

LEMMA ReplayType ==
  ASSUME TypeOK, NEW m \in wire, Replay(m)
  PROVE  TypeOK'
<1>1. PICK r \in Recorded(m.journal, m.step, m.guard) : Answered(m, r.head)
  BY DEF Replay
<1>2. r.head \in Nat
  BY DEF Recorded, TypeOK
<1> QED BY <1>1, <1>2, AnswerOnlyType DEF Replay

LEMMA AdvanceType ==
  ASSUME TypeOK, NEW t \in Tabs, Advance(t), tab[t].accepted < Len(journals[tab[t].journal].steps)
  PROVE  TypeOK'
<1> DEFINE j == tab[t].journal
           x == [journals[j] EXCEPT !.accepted = tab[t].accepted + 1, !.revision = tab[t].reply]
           w == [tab[t] EXCEPT !.pc = "loop", !.accepted = tab[t].accepted + 1, !.revision = tab[t].reply,
                               !.reply = 0]
<1>1. /\ j \in DOMAIN journals /\ journals[j] \in JournalType
      /\ journals[j].accepted = tab[t].accepted
  BY JournalParts DEF Advance, At, Storable, TypeOK
<1>2. x \in JournalType /\ x.steps = journals[j].steps /\ x.accepted = journals[j].accepted + 1
  <2>1. tab[t].accepted + 1 \in Nat /\ tab[t].reply \in Nat
    BY <1>1, JournalParts, WorkParts
  <2>2. x = [journals[j] EXCEPT !.accepted = tab[t].accepted + 1, !.revision = tab[t].reply]
    OBVIOUS
  <2> HIDE DEF x, j
  <2> QED BY <1>1, <2>1, <2>2 DEF JournalType
<1>3. w \in WorkType /\ w.journal = j
  <2>1. tab[t].accepted + 1 \in Nat /\ tab[t].reply \in Nat /\ tab[t] \in WorkType
    BY WorkParts
  <2>2. w = [tab[t] EXCEPT !.pc = "loop", !.accepted = tab[t].accepted + 1,
                           !.revision = tab[t].reply, !.reply = 0]
    OBVIOUS
  <2>3. w \in WorkType /\ w.journal = tab[t].journal
    <3> HIDE DEF w
    <3> QED BY <2>1, <2>2 DEF WorkType
  <2> QED BY <2>3
<1>4. /\ journals' = [journals EXCEPT ![j] = x] /\ tab' = [tab EXCEPT ![t] = w]
      /\ UNCHANGED <<at, gone, head, receipts, wire, stops, log, alien>>
  <2>1. journals' = [journals EXCEPT ![j] = x]
    <3>1. journals' = [journals EXCEPT ![tab[t].journal] =
       [@ EXCEPT !.accepted = tab[t].accepted + 1, !.revision = tab[t].reply]]
      BY DEF Advance, NextOf
    <3> QED BY <3>1
  <2>2. tab' = [tab EXCEPT ![t] = w]
    <3>1. tab' = [tab EXCEPT ![t] =
       [@ EXCEPT !.pc = "loop", !.accepted = tab[t].accepted + 1, !.revision = tab[t].reply, !.reply = 0]]
      BY DEF Advance, NextOf
    <3> QED BY <3>1
  <2> QED BY <2>1, <2>2 DEF Advance, server, ghosts
<1>5. x.accepted <= Len(x.steps)
  BY <1>1, <1>2, JournalParts, WorkParts
<1> HIDE DEF j, x, w
<1>6. /\ journals' \in Seq(JournalType) /\ DOMAIN journals' = DOMAIN journals
      /\ \A k \in DOMAIN journals : journals'[k] = IF k = j THEN x ELSE journals[k]
  BY <1>1, <1>2, <1>4 DEF TypeOK
<1>7. \A k \in DOMAIN journals : journals'[k].steps = journals[k].steps
  BY <1>2, <1>6
<1>8. \A k \in DOMAIN journals' : journals'[k].accepted <= Len(journals'[k].steps)
  BY <1>5, <1>6 DEF TypeOK
<1>9. /\ tab' \in [Tabs -> WorkType]
      /\ \A u \in Tabs : tab'[u].pc # "idle" => tab'[u].journal \in DOMAIN journals
  BY <1>1, <1>3, <1>4 DEF TypeOK, At
<1> QED BY <1>4, <1>6, <1>7, <1>8, <1>9 DEF TypeOK, At

-----------------------------------------------------------------------------
(* The invariant. *)

Steps(j) == journals[j].steps
Initial(j) == journals[j].initial
Accepted(j) == journals[j].accepted

\* Once a steps of journal j are taken, the head was this.
HeadAfter(j, a) == Initial(j) + a
IsTaken(j, a) == a = 0 \/ (HeadAfter(j, a) \in DOMAIN log /\ log[HeadAfter(j, a)].journal = j)
Reached(j, a, rev) == rev = HeadAfter(j, a) /\ IsTaken(j, a)

\* No more than a steps of journal j are taken.
TakenOnly(j, a) == \A h \in DOMAIN log : log[h].journal = j => h <= HeadAfter(j, a)

\* How many steps of the plan are taken up to a head; how many come before a journal.
Ours(h) == Cardinality({k \in 1 .. h : log[k] # Other})
Offset(j) == Len(Steps(1)) - Len(Steps(j))

\* The writes of a journal follow each other without a gap from its initial head,
\* and those of its ancestors come before it.
WriteOK(j, i, h) ==
  /\ j \in DOMAIN journals /\ Initial(j) < h /\ h = HeadAfter(j, i)
  /\ i \in DOMAIN Steps(j)
  /\ \A g \in Initial(j) + 1 .. h : log[g].journal = j
  /\ \A k \in DOMAIN journals : j < k => h < Initial(k)
  /\ Ours(h) = Offset(j) + i
LogOK ==
  /\ head = Len(log)
  /\ \A h \in DOMAIN log : log[h] # Other => WriteOK(log[h].journal, log[h].step, h)

\* The receipts are those of the writes of the journals.
ReceiptsOK ==
  /\ \A r \in receipts :
       /\ r.head \in DOMAIN log /\ r.guard + 1 = r.head
       /\ r.journal \in DOMAIN journals
       /\ log[r.head] = [journal |-> r.journal, step |-> r.step]
  /\ \A h \in DOMAIN log : log[h] # Other =>
       \E r \in receipts : r.journal = log[h].journal /\ r.step = log[h].step /\ r.head = h

\* The journals form a chain, each beginning where its parent was left.
JournalsOK ==
  /\ journals = <<>> => log = <<>>
  /\ \A j \in DOMAIN journals :
       /\ journals[j].parent = j - 1
       /\ Initial(j) <= head /\ Ours(Initial(j)) = Offset(j)
       /\ Reached(j, Accepted(j), journals[j].revision)
       /\ TakenOnly(j, Accepted(j) + 1)
       /\ \A k \in DOMAIN journals : j < k => TakenOnly(j, Accepted(j)) /\ Initial(j) < Initial(k)

\* What is under way carries the head that its step needs.
WireOK ==
  \A m \in wire :
    /\ m.step - 1 <= Accepted(m.journal)
    /\ Reached(m.journal, m.step - 1, m.guard)

\* What a tab holds was true of its journal, and what it reviewed still is when
\* the head has not moved.
WorkOK(w) ==
  LET j == w.journal
      a == w.accepted IN
  /\ w.shown.head <= head
  /\ w.pc \in {"loop", "wait", "answered", "inspect", "fork"} =>
       /\ a <= Accepted(j) /\ Reached(j, a, w.revision)
  /\ w.pc = "wait" => a < Len(Steps(j))
  /\ w.pc = "answered" => a < Len(Steps(j)) /\ Reached(j, a + 1, w.reply)
  /\ w.pc = "inspect" /\ w.why = "rebase" /\ w.shown.head = head =>
       a = Len(Steps(j)) \/ TakenOnly(j, a)
  /\ w.pc = "fork" =>
       /\ w.reply <= head /\ Len(w.steps) + a = Len(Steps(j))
       /\ w.steps # <<>> /\ w.reply > w.revision => TakenOnly(j, a)
TabOK(t) == WorkOK(tab[t])

ImportInv ==
  TypeOK /\ LogOK /\ ReceiptsOK /\ JournalsOK /\ WireOK /\ \A t \in Tabs : TabOK(t)

-----------------------------------------------------------------------------
(* The log of the destination. *)

LEMMA LogParts ==
  ASSUME TypeOK
  PROVE  /\ Len(log) \in Nat /\ DOMAIN log = 1 .. Len(log)
         /\ \A h \in DOMAIN log : log[h].journal \in Nat /\ log[h].step \in Nat
         /\ \A h \in DOMAIN log : log[h].journal # 0 => log[h] # Other
<1>1. log \in Seq([journal : Nat, step : Nat])
  BY DEF TypeOK
<1>2. Len(log) \in Nat /\ DOMAIN log = 1 .. Len(log)
  BY <1>1
<1>3. \A h \in DOMAIN log : log[h] \in [journal : Nat, step : Nat]
  BY <1>1, <1>2, ElementOfSeq
<1>4. Other.journal = 0
  BY DEF Other
<1> QED BY <1>2, <1>3, <1>4

LEMMA LogGrows ==
  ASSUME TypeOK, NEW w \in [journal : Nat, step : Nat], log' = Append(log, w)
  PROVE  /\ Len(log') = Len(log) + 1 /\ DOMAIN log' = 1 .. Len(log) + 1
         /\ \A h \in 1 .. Len(log) : log'[h] = log[h]
         /\ log'[Len(log) + 1] = w
BY DEF TypeOK

\* How many of the writes up to a head are steps of the plan, when one is added.
LEMMA OursKept ==
  ASSUME TypeOK, NEW w \in [journal : Nat, step : Nat], log' = Append(log, w),
         NEW h \in 0 .. Len(log)
  PROVE  Ours(h)' = Ours(h)
<1>1. \A k \in 1 .. h : log'[k] = log[k]
  BY LogParts, LogGrows
<1>2. {k \in 1 .. h : log'[k] # Other} = {k \in 1 .. h : log[k] # Other}
  BY <1>1
<1> QED BY <1>2 DEF Ours

LEMMA OursFinite ==
  ASSUME NEW h \in Nat
  PROVE  IsFiniteSet({k \in 1 .. h : log[k] # Other}) /\ Ours(h) \in Nat
<1>1. IsFiniteSet(1 .. h)
  BY FS_Interval
<1>2. {k \in 1 .. h : log[k] # Other} \subseteq 1 .. h
  OBVIOUS
<1>3. IsFiniteSet({k \in 1 .. h : log[k] # Other})
  BY <1>1, <1>2, FS_Subset
<1> QED BY <1>3, FS_CardinalityType DEF Ours

LEMMA OursNext ==
  ASSUME TypeOK, NEW w \in [journal : Nat, step : Nat], log' = Append(log, w), w # Other,
         NEW n \in Nat, n = Len(log)
  PROVE  Ours(n + 1)' = Ours(n) + 1
<1> DEFINE A == {k \in 1 .. n : log[k] # Other}
<1>1. {k \in 1 .. n + 1 : log'[k] # Other} = A \cup {n + 1}
  BY LogGrows
<1>2. IsFiniteSet(A) /\ Cardinality(A) = Ours(n)
  BY OursFinite DEF Ours
<1>3. n + 1 \notin A
  OBVIOUS
<1>4. Cardinality(A \cup {n + 1}) = Cardinality(A) + 1
  BY <1>2, <1>3, FS_AddElement
<1>5. Ours(n + 1)' = Cardinality({k \in 1 .. n + 1 : log'[k] # Other})
  BY DEF Ours
<1> QED BY <1>1, <1>2, <1>4, <1>5

\* What a journal has reached stays reached when the log grows.
LEMMA ReachedKept ==
  ASSUME TypeOK, NEW w \in [journal : Nat, step : Nat], log' = Append(log, w),
         NEW j, NEW a, Initial(j)' = Initial(j)
  PROVE  /\ \A rev : Reached(j, a, rev) => Reached(j, a, rev)'
         /\ TakenOnly(j, a) /\ w.journal # j => TakenOnly(j, a)'
         /\ HeadAfter(j, a)' = HeadAfter(j, a)
<1>1. HeadAfter(j, a)' = HeadAfter(j, a)
  BY DEF HeadAfter
<1>2. ASSUME NEW rev, Reached(j, a, rev)
      PROVE  Reached(j, a, rev)'
  BY <1>1, <1>2, LogParts, LogGrows DEF Reached, IsTaken
<1>3. ASSUME TakenOnly(j, a), w.journal # j
      PROVE  TakenOnly(j, a)'
  BY <1>1, <1>3, LogParts, LogGrows DEF TakenOnly
<1> QED BY <1>1, <1>2, <1>3

\* Where the log and what the journal begins with are unchanged, all of it is.
LEMMA ReachedSame ==
  ASSUME NEW j, NEW a, Initial(j)' = Initial(j), log' = log
  PROVE  /\ \A rev : Reached(j, a, rev)' <=> Reached(j, a, rev)
         /\ TakenOnly(j, a)' <=> TakenOnly(j, a)
         /\ \A h \in Nat : Ours(h)' = Ours(h)
BY DEF Reached, IsTaken, HeadAfter, TakenOnly, Ours

-----------------------------------------------------------------------------
(* What the invariant says of a head that a journal has reached. *)

LEMMA OursReached ==
  ASSUME ImportInv, NEW j \in DOMAIN journals, NEW a \in Nat, NEW rev, Reached(j, a, rev)
  PROVE  /\ rev \in Nat /\ rev = Initial(j) + a /\ rev <= head /\ Ours(rev) = Offset(j) + a
         /\ \A g \in Initial(j) + 1 .. rev : log[g].journal = j
         /\ a # 0 => /\ rev \in DOMAIN log /\ log[rev] # Other
                     /\ log[rev].journal = j /\ log[rev].step = a
<1>1. /\ TypeOK /\ head = Len(log) /\ Initial(j) \in Nat /\ Initial(j) <= head
      /\ Ours(Initial(j)) = Offset(j)
  BY JournalParts DEF ImportInv, LogOK, JournalsOK, Initial
<1>2. rev = Initial(j) + a /\ rev \in Nat
  BY <1>1 DEF Reached, HeadAfter
<1>3. Offset(j) \in Int
  <2>1. 1 \in DOMAIN journals
    BY <1>1, JournalParts
  <2> QED BY <1>1, <2>1, JournalParts DEF Offset, Steps
<1>4. CASE a = 0
  BY <1>1, <1>2, <1>3, <1>4
<1>5. CASE a # 0
  <2>1. rev \in DOMAIN log /\ log[rev].journal = j
    BY <1>2, <1>5 DEF Reached, IsTaken
  <2>2. log[rev] # Other
    BY <1>1, <2>1, LogParts, JournalParts
  <2>3. /\ rev = HeadAfter(j, log[rev].step) /\ Ours(rev) = Offset(j) + log[rev].step
        /\ \A g \in Initial(j) + 1 .. rev : log[g].journal = j
    BY <2>1, <2>2 DEF ImportInv, LogOK, WriteOK
  <2>4. log[rev].step = a
    BY <1>1, <1>2, <2>1, <2>3, LogParts DEF HeadAfter
  <2>5. rev <= head
    BY <1>1, <2>1, LogParts
  <2> QED BY <1>2, <2>1, <2>2, <2>3, <2>4, <2>5
<1> QED BY <1>4, <1>5

\* Only the last journal can have reached the present head.
LEMMA ReachedHeadLast ==
  ASSUME ImportInv, NEW j \in DOMAIN journals, NEW a \in Nat, Reached(j, a, head),
         NEW k \in DOMAIN journals
  PROVE  ~ (j < k)
<1> SUFFICES ASSUME j < k
             PROVE  FALSE
  OBVIOUS
<1>1. TypeOK /\ Initial(j) \in Nat /\ Initial(k) \in Nat /\ head \in Nat
  BY JournalParts DEF ImportInv, Initial, TypeOK
<1>2. Initial(j) < Initial(k) /\ Initial(k) <= head
  BY DEF ImportInv, JournalsOK
<1>3. head = Initial(j) + a
  BY OursReached
<1>4. CASE a = 0
  BY <1>1, <1>2, <1>3, <1>4
<1>5. CASE a # 0
  <2>1. head \in DOMAIN log /\ log[head] # Other /\ log[head].journal = j
    BY <1>5, OursReached
  <2>2. head < Initial(k)
    BY <2>1 DEF ImportInv, LogOK, WriteOK
  <2> QED BY <1>1, <1>2, <2>2
<1> QED BY <1>4, <1>5

\* A journal without a successor is the last one.
LEMMA LastJournal ==
  ASSUME ImportInv, NEW j \in DOMAIN journals, ~ Successor(j)
  PROVE  j = Len(journals) /\ \A k \in DOMAIN journals : k <= j
<1>1. TypeOK /\ DOMAIN journals = 1 .. Len(journals) /\ Len(journals) \in Nat
  BY JournalParts DEF ImportInv
<1>2. j + 1 \in DOMAIN journals => journals[j + 1].parent = j
  BY <1>1 DEF ImportInv, JournalsOK
<1>3. j + 1 \notin DOMAIN journals
  BY <1>2 DEF Successor
<1> QED BY <1>1, <1>3

LEMMA TakenOnlyMore ==
  ASSUME TypeOK, NEW j \in DOMAIN journals, NEW a \in Nat, NEW b \in Nat, a <= b, TakenOnly(j, a)
  PROVE  TakenOnly(j, b)
BY LogParts, JournalParts DEF TakenOnly, HeadAfter, Initial

-----------------------------------------------------------------------------
(* Steps that move one tab. *)

LEMMA StoredSame ==
  ASSUME ImportInv, UNCHANGED <<journals, head, receipts, log>>
  PROVE  LogOK' /\ ReceiptsOK' /\ JournalsOK'
<1>1. LogOK'
  BY DEF ImportInv, LogOK, WriteOK, Initial, HeadAfter, Steps, Ours, Offset
<1>2. ReceiptsOK'
  BY DEF ImportInv, ReceiptsOK
<1>3. JournalsOK'
  <2>1. (journals = <<>> => log = <<>>)'
    BY DEF ImportInv, JournalsOK
  <2>2. ASSUME NEW j \in DOMAIN journals
        PROVE  /\ (journals[j].parent = j - 1)' /\ (Initial(j) <= head)'
               /\ (Ours(Initial(j)) = Offset(j))'
    <3>1. journals[j].parent = j - 1 /\ Initial(j) <= head /\ Ours(Initial(j)) = Offset(j)
      BY DEF ImportInv, JournalsOK
    <3> QED BY ONLY <3>1, UNCHANGED <<journals, head, receipts, log>>
            DEF Initial, Ours, Offset, Steps
  <2>3. ASSUME NEW j \in DOMAIN journals
        PROVE  /\ Reached(j, Accepted(j), journals[j].revision)'
               /\ TakenOnly(j, Accepted(j) + 1)'
    <3>1. Reached(j, Accepted(j), journals[j].revision) /\ TakenOnly(j, Accepted(j) + 1)
      BY DEF ImportInv, JournalsOK
    <3> QED BY ONLY <3>1, UNCHANGED <<journals, head, receipts, log>>
            DEF Initial, Accepted, Reached, IsTaken, HeadAfter, TakenOnly
  <2>4. ASSUME NEW j \in DOMAIN journals, NEW k \in DOMAIN journals, j < k
        PROVE  TakenOnly(j, Accepted(j))' /\ (Initial(j) < Initial(k))'
    <3>1. TakenOnly(j, Accepted(j)) /\ Initial(j) < Initial(k)
      BY <2>4 DEF ImportInv, JournalsOK
    <3> QED BY ONLY <3>1, UNCHANGED <<journals, head, receipts, log>>
            DEF Initial, Accepted, HeadAfter, TakenOnly
  <2>5. DOMAIN journals' = DOMAIN journals
    OBVIOUS
  <2> QED BY <2>1, <2>2, <2>3, <2>4, <2>5 DEF JournalsOK
<1> QED BY <1>1, <1>2, <1>3

LEMMA WorkSame ==
  ASSUME NEW w, WorkOK(w), UNCHANGED <<journals, head, log>>
  PROVE  WorkOK(w)'
BY DEF WorkOK, Accepted, Reached, IsTaken, HeadAfter, Initial, Steps, TakenOnly

LEMMA QuietInv ==
  ASSUME ImportInv, NEW t \in Tabs, NEW w \in WorkType,
         w.pc # "idle" => w.journal \in DOMAIN journals,
         tab' = [tab EXCEPT ![t] = w], stops' \in Nat,
         wire' \subseteq wire, UNCHANGED <<journals, server, ghosts>>, WorkOK(w)
  PROVE  ImportInv'
<1>1. TypeOK'
  BY TabType DEF ImportInv
<1>2. UNCHANGED <<journals, at, gone, head, receipts, log, alien>>
  BY DEF server, ghosts
<1>3. \A u \in Tabs : tab'[u] = IF u = t THEN w ELSE tab[u]
  BY DEF ImportInv, TypeOK
<1>4. LogOK' /\ ReceiptsOK' /\ JournalsOK'
  BY <1>2, StoredSame
<1>7. WireOK'
  BY <1>2 DEF ImportInv, WireOK, Accepted, Reached, IsTaken, HeadAfter, Initial
<1>8. \A u \in Tabs : TabOK(u)'
  <2>1. ASSUME NEW u \in Tabs
        PROVE  TabOK(u)'
    <3>1. WorkOK(IF u = t THEN w ELSE tab[u])
      BY DEF ImportInv, TabOK
    <3>2. PICK x : x = IF u = t THEN w ELSE tab[u]
      OBVIOUS
    <3>3. WorkOK(x) /\ tab'[u] = x
      BY <1>3, <3>1, <3>2
    <3>4. WorkOK(x)'
      BY <1>2, <3>3, WorkSame
    <3> QED BY <3>3, <3>4 DEF TabOK
  <2> QED BY <2>1
<1> QED BY <1>1, <1>4, <1>7, <1>8 DEF ImportInv

LEMMA IdleOK ==
  ASSUME ImportInv
  PROVE  /\ WorkOK(NoWork) /\ NoWork \in WorkType /\ NoWork.pc = "idle"
         /\ NoReview.head <= head /\ NoReview \in [accepted : Nat, head : Nat]
<1>1. head \in Nat
  BY DEF ImportInv, TypeOK
<1>2. NoReview.head = 0 /\ NoWork.shown = NoReview /\ NoWork.pc = "idle"
  BY DEF NoWork, NoReview
<1> QED BY <1>1, <1>2, NoWorkType DEF WorkOK

LEMMA WorkParts2 ==
  ASSUME ImportInv, NEW t \in Tabs
  PROVE  TypeOK /\ WorkOK(tab[t]) /\ (tab[t].pc # "idle" => tab[t].journal \in DOMAIN journals)
BY DEF ImportInv, TabOK, TypeOK, At

LEMMA BeginInv ==
  ASSUME ImportInv, NEW t \in Tabs, NEW j \in DOMAIN journals,
         NEW why \in {"continue", "review", "rebase"},
         NEW review \in [accepted : Nat, head : Nat], review.head <= head,
         Begin(t, j, why, review)
  PROVE  ImportInv'
<1> DEFINE w == [NoWork EXCEPT !.pc = "loop", !.why = why, !.journal = j, !.shown = review,
                   !.accepted = journals[j].accepted, !.revision = journals[j].revision]
<1>1. w \in WorkType /\ w.journal = j /\ w.pc = "loop" /\ w.shown = review
      /\ w.accepted = Accepted(j) /\ w.revision = journals[j].revision
  BY JournalParts, NoWorkType DEF NoWork, WorkType, ImportInv, Accepted
<1>2. stops' \in Nat /\ wire' = wire /\ tab' = [tab EXCEPT ![t] = w]
      /\ UNCHANGED <<journals, server, ghosts>>
  BY DEF ImportInv, TypeOK, Begin
<1>3. Reached(j, Accepted(j), journals[j].revision) /\ Accepted(j) \in Nat
  BY JournalParts DEF ImportInv, JournalsOK, Accepted
<1> HIDE DEF w
<1>4. WorkOK(w)
  BY <1>1, <1>3 DEF WorkOK
<1> QED BY <1>1, <1>2, <1>4, QuietInv

LEMMA IdleInv ==
  ASSUME ImportInv, NEW t \in Tabs, tab' = [tab EXCEPT ![t] = NoWork], stops' \in Nat,
         UNCHANGED <<journals, server, wire, ghosts>>
  PROVE  ImportInv'
<1>1. wire' \subseteq wire
  OBVIOUS
<1> QED BY <1>1, IdleOK, QuietInv

LEMMA RecordedParts ==
  ASSUME ImportInv, NEW j \in DOMAIN journals, NEW a \in Nat, NEW rev, Reached(j, a, rev),
         NEW r \in Recorded(j, a + 1, rev)
  PROVE  r.head \in Nat /\ Reached(j, a + 1, r.head)
<1>1. /\ r \in receipts /\ r.journal = j /\ r.step = a + 1 /\ r.guard = rev
      /\ TypeOK /\ rev = Initial(j) + a /\ Initial(j) \in Nat
  BY OursReached, JournalParts DEF Recorded, ImportInv, Initial
<1>2. /\ r.head \in DOMAIN log /\ r.guard + 1 = r.head
      /\ log[r.head] = [journal |-> r.journal, step |-> r.step]
  BY <1>1 DEF ImportInv, ReceiptsOK
<1>3. r.head = Initial(j) + (a + 1) /\ log[r.head].journal = j /\ r.head \in Nat
  BY <1>1, <1>2
<1> QED BY <1>2, <1>3 DEF Reached, IsTaken, HeadAfter

LEMMA ReplayInv ==
  ASSUME ImportInv, NEW m \in wire, Replay(m)
  PROVE  ImportInv'
<1>1. PICK r \in Recorded(m.journal, m.step, m.guard) : Answered(m, r.head)
  BY DEF Replay
<1>2. /\ m.journal \in DOMAIN journals /\ m.step \in DOMAIN journals[m.journal].steps
      /\ m.tab \in Tabs /\ TypeOK
  BY DEF ImportInv, TypeOK
<1>3. m.step \in Nat \ {0} /\ m.step - 1 \in Nat /\ m.step = (m.step - 1) + 1
  BY <1>2, JournalParts
<1>4. Reached(m.journal, m.step - 1, m.guard)
  BY DEF ImportInv, WireOK
<1>5. r.head \in Nat /\ Reached(m.journal, m.step, r.head)
  <2>1. PICK a \in Nat : a = m.step - 1 /\ m.step = a + 1
    BY <1>3
  <2> QED BY <1>1, <1>2, <1>4, <2>1, RecordedParts
<1>6. wire' \subseteq wire /\ stops' \in Nat /\ UNCHANGED <<journals, server, ghosts>>
  BY <1>2 DEF Replay, TypeOK
<1>7. r.head # 0
  <2>1. r \in receipts
    BY <1>1 DEF Recorded
  <2>2. r.head \in DOMAIN log
    BY <2>1 DEF ImportInv, ReceiptsOK
  <2> QED BY <1>2, <2>2, LogParts
<1>8. WorkOK(tab[m.tab]) /\ tab[m.tab] \in WorkType
      /\ (tab[m.tab].pc # "idle" => tab[m.tab].journal \in DOMAIN journals)
  BY <1>2, WorkParts, WorkParts2
<1>9. CASE ~ Waits(m)
  <2>1. tab' = [tab EXCEPT ![m.tab] = tab[m.tab]]
    BY <1>1, <1>9 DEF Answered
  <2> QED BY <1>2, <1>6, <1>8, <2>1, QuietInv
<1>10. CASE Waits(m)
  <2> DEFINE w == [tab[m.tab] EXCEPT !.pc = "answered", !.reply = r.head]
  <2>1. tab' = [tab EXCEPT ![m.tab] = w]
    BY <1>1, <1>7, <1>10 DEF Answered
  <2>2. /\ w \in WorkType /\ w.journal = m.journal /\ w.accepted = tab[m.tab].accepted
        /\ w.revision = tab[m.tab].revision /\ w.pc = "answered" /\ w.reply = r.head
        /\ w.shown = tab[m.tab].shown
    BY <1>5, <1>8, <1>10 DEF WorkType, Waits
  <2>3. tab[m.tab].pc = "wait" /\ tab[m.tab].journal = m.journal /\ m.step = w.accepted + 1
    BY <1>10, <2>2 DEF Waits, At, NextOf
  <2> HIDE DEF w
  <2>4. WorkOK(w)
    BY <1>5, <1>8, <2>2, <2>3 DEF WorkOK
  <2> QED BY <1>2, <1>6, <2>1, <2>2, <2>4, QuietInv
<1> QED BY <1>9, <1>10

LEMMA RefuseInv ==
  ASSUME ImportInv, NEW m \in wire, RefuseRequest(m)
  PROVE  ImportInv'
<1>1. Answered(m, 0) /\ m.tab \in Tabs /\ TypeOK
  BY DEF RefuseRequest, ImportInv, TypeOK
<1>2. wire' \subseteq wire /\ stops' \in Nat /\ UNCHANGED <<journals, server, ghosts>>
  BY <1>1 DEF RefuseRequest, TypeOK
<1>3. WorkOK(tab[m.tab]) /\ tab[m.tab] \in WorkType
      /\ (tab[m.tab].pc # "idle" => tab[m.tab].journal \in DOMAIN journals)
  BY <1>1, WorkParts, WorkParts2
<1>4. CASE ~ Waits(m)
  <2>1. tab' = [tab EXCEPT ![m.tab] = tab[m.tab]]
    BY <1>1, <1>4 DEF Answered
  <2> QED BY <1>1, <1>2, <1>3, <2>1, QuietInv
<1>5. CASE Waits(m)
  <2>1. tab' = [tab EXCEPT ![m.tab] = NoWork]
    BY <1>1, <1>5 DEF Answered
  <2> QED BY <1>1, <1>2, <2>1, IdleOK, QuietInv
<1> QED BY <1>4, <1>5

LEMMA LookupInv ==
  ASSUME ImportInv, NEW t \in Tabs, Lookup(t)
  PROVE  ImportInv'
<1>1. PICK r \in Recorded(tab[t].journal, NextOf(t), tab[t].revision) :
        tab' = [tab EXCEPT ![t] = [tab[t] EXCEPT !.pc = "answered", !.reply = r.head]]
  BY DEF Lookup
<1>2. /\ TypeOK /\ WorkOK(tab[t]) /\ tab[t].journal \in DOMAIN journals /\ tab[t].pc = "loop"
      /\ tab[t].accepted < Len(Steps(tab[t].journal)) /\ tab[t].accepted \in Nat
  <2>1. tab[t].pc = "loop" /\ Left(t) > 0
    BY DEF Lookup, At
  <2>2. TypeOK /\ WorkOK(tab[t]) /\ tab[t].journal \in DOMAIN journals /\ tab[t].accepted \in Nat
    BY <2>1, WorkParts, WorkParts2
  <2> QED BY <2>1, <2>2, JournalParts DEF Left, Steps
<1>3. Reached(tab[t].journal, tab[t].accepted, tab[t].revision)
  BY <1>2 DEF WorkOK
<1>4. r.head \in Nat /\ Reached(tab[t].journal, tab[t].accepted + 1, r.head)
  BY <1>1, <1>2, <1>3, RecordedParts DEF NextOf
<1> DEFINE w == [tab[t] EXCEPT !.pc = "answered", !.reply = r.head]
<1>5. /\ w \in WorkType /\ w.journal = tab[t].journal /\ w.accepted = tab[t].accepted
      /\ w.revision = tab[t].revision /\ w.pc = "answered" /\ w.reply = r.head
      /\ w.shown = tab[t].shown
  BY <1>2, <1>4, WorkParts DEF WorkType
<1>6. tab' = [tab EXCEPT ![t] = w] /\ wire' \subseteq wire /\ stops' \in Nat
      /\ UNCHANGED <<journals, server, ghosts>>
  BY <1>1, <1>2 DEF Lookup, TypeOK
<1> HIDE DEF w
<1>7. WorkOK(w)
  BY <1>2, <1>4, <1>5 DEF WorkOK
<1> QED BY <1>2, <1>5, <1>6, <1>7, QuietInv

\* Without a receipt of its next step the destination has taken no more of it.
LEMMA NoReceiptNothing ==
  ASSUME ImportInv, NEW j \in DOMAIN journals, NEW a \in Nat, NEW rev, Reached(j, a, rev),
         Recorded(j, a + 1, rev) = {}
  PROVE  TakenOnly(j, a)
<1> SUFFICES ASSUME NEW h \in DOMAIN log, log[h].journal = j, ~ (h <= HeadAfter(j, a))
             PROVE  FALSE
  BY DEF TakenOnly
<1>1. TypeOK /\ Initial(j) \in Nat /\ rev = Initial(j) + a /\ h \in Nat
      /\ DOMAIN log = 1 .. Len(log) /\ Len(log) \in Nat /\ j # 0
  BY JournalParts, LogParts DEF ImportInv, Initial, Reached, HeadAfter
<1>2. log[h] # Other
  BY <1>1, LogParts
<1>3. \A g \in Initial(j) + 1 .. h : log[g].journal = j
  BY <1>2 DEF ImportInv, LogOK, WriteOK
<1>4. rev + 1 \in DOMAIN log /\ log[rev + 1].journal = j
  BY <1>1, <1>3 DEF HeadAfter
<1>5. log[rev + 1] # Other
  BY <1>1, <1>4, LogParts
<1>6. rev + 1 = HeadAfter(j, log[rev + 1].step)
  BY <1>4, <1>5 DEF ImportInv, LogOK, WriteOK
<1>7. log[rev + 1].step = a + 1
  BY <1>1, <1>4, <1>6, LogParts DEF HeadAfter
<1>8. PICK r \in receipts : r.journal = j /\ r.step = a + 1 /\ r.head = rev + 1
  BY <1>4, <1>5, <1>7 DEF ImportInv, ReceiptsOK
<1>9. r.guard = rev
  <2>1. r.guard + 1 = r.head /\ r.guard \in Nat
    BY <1>1 DEF ImportInv, ReceiptsOK, TypeOK
  <2> QED BY <1>1, <1>8, <2>1
<1> QED BY <1>8, <1>9 DEF Recorded

LEMMA NoReceiptInv ==
  ASSUME ImportInv, NEW t \in Tabs, NoReceipt(t)
  PROVE  ImportInv'
<1>1. tab' = [tab EXCEPT ![t] = [tab[t] EXCEPT !.pc = "inspect"]]
  BY DEF NoReceipt, Goto
<1>2. /\ TypeOK /\ WorkOK(tab[t]) /\ tab[t].journal \in DOMAIN journals /\ tab[t].pc = "loop"
      /\ tab[t].accepted \in Nat
  <2>1. tab[t].pc = "loop"
    BY DEF NoReceipt, At
  <2> QED BY <2>1, WorkParts, WorkParts2
<1>3. Reached(tab[t].journal, tab[t].accepted, tab[t].revision)
  BY <1>2 DEF WorkOK
<1>4. tab[t].accepted = Len(Steps(tab[t].journal)) \/ TakenOnly(tab[t].journal, tab[t].accepted)
  <2>1. CASE Left(t) = 0
    BY <1>2, <2>1, JournalParts DEF Left, Steps
  <2>2. CASE Recorded(tab[t].journal, NextOf(t), tab[t].revision) = {}
    BY <1>2, <1>3, <2>2, NoReceiptNothing DEF NextOf
  <2> QED BY <2>1, <2>2 DEF NoReceipt
<1> DEFINE w == [tab[t] EXCEPT !.pc = "inspect"]
<1>5. /\ w \in WorkType /\ w.journal = tab[t].journal /\ w.accepted = tab[t].accepted
      /\ w.revision = tab[t].revision /\ w.pc = "inspect" /\ w.shown = tab[t].shown
  BY <1>2, WorkParts DEF WorkType
<1>6. tab' = [tab EXCEPT ![t] = w] /\ wire' \subseteq wire /\ stops' \in Nat
      /\ UNCHANGED <<journals, server, ghosts>>
  BY <1>1, <1>2 DEF NoReceipt, TypeOK
<1> HIDE DEF w
<1>7. WorkOK(w)
  BY <1>2, <1>4, <1>5 DEF WorkOK
<1> QED BY <1>2, <1>5, <1>6, <1>7, QuietInv

LEMMA ShowReviewInv ==
  ASSUME ImportInv, NEW t \in Tabs, ShowReview(t)
  PROVE  ImportInv'
<1> DEFINE w == [NoWork EXCEPT !.pc = "shown", !.journal = tab[t].journal,
                   !.shown = [accepted |-> tab[t].accepted, head |-> head]]
<1>1. TypeOK /\ head \in Nat /\ tab[t].journal \in DOMAIN journals
  <2>1. tab[t].pc # "idle" /\ head \in Nat
    BY DEF ShowReview, At, ImportInv, TypeOK
  <2> QED BY <2>1, WorkParts2
<1>2. w \in WorkType /\ w.journal = tab[t].journal /\ w.pc = "shown" /\ w.shown.head = head
  BY <1>1, WorkParts, NoWorkType DEF NoWork, WorkType
<1>3. tab' = [tab EXCEPT ![t] = w] /\ wire' \subseteq wire /\ stops' \in Nat
      /\ UNCHANGED <<journals, server, ghosts>>
  BY <1>1 DEF ShowReview, TypeOK
<1> HIDE DEF w
<1>4. WorkOK(w)
  BY <1>1, <1>2 DEF WorkOK
<1> QED BY <1>1, <1>2, <1>3, <1>4, QuietInv

\* What is left of a journal, and the same with the decisions of the person.
LEMMA PendingType ==
  ASSUME ImportInv, NEW t \in Tabs, tab[t].journal \in DOMAIN journals,
         tab[t].accepted <= Len(Steps(tab[t].journal))
  PROVE  /\ Pending(t) \in Seq(StepType)
         /\ Len(Pending(t)) + tab[t].accepted = Len(Steps(tab[t].journal))
<1> DEFINE s == journals[tab[t].journal].steps
           n == Len(s)
           a == tab[t].accepted
<1>1. s \in Seq(StepType) /\ n \in Nat /\ a \in Nat /\ a <= n
  BY JournalParts, WorkParts DEF ImportInv, Steps
<1>2. Pending(t) = SubSeq(s, a + 1, n)
  BY DEF Pending, NextOf
<1> HIDE DEF s, n, a
<1>3. SubSeq(s, a + 1, n) \in Seq(StepType) /\ Len(SubSeq(s, a + 1, n)) + a = n
  <2>1. n = Len(s)
    BY DEF n
  <2>2. CASE a = n
    BY <1>1, <2>1, <2>2
  <2>3. CASE a < n
    BY <1>1, <2>1, <2>3
  <2> QED BY <1>1, <2>2, <2>3
<1> QED BY <1>2, <1>3 DEF s, n, a, Steps

LEMMA ResolvedType ==
  ASSUME TypeOK, NEW steps \in Seq(StepType), NEW chosen
  PROVE  Resolved(steps, chosen) \in Seq(StepType) /\ Len(Resolved(steps, chosen)) = Len(steps)
<1> DEFINE now(i) == at[Row(steps[i].id, "ENTITY")]
           f(i) == IF i \in chosen THEN [steps[i] EXCEPT !.v = now(i), !.seen = now(i)]
                   ELSE IF /\ steps[i].op = "ARCHIVE"
                           /\ \E k \in chosen : steps[k].id = steps[i].id
                                                /\ steps[k].v + 1 = steps[i].v
                        THEN [steps[i] EXCEPT !.v = now(i) + 1]
                        ELSE steps[i]
<1>1. Resolved(steps, chosen) = [i \in DOMAIN steps |-> f(i)]
  BY DEF Resolved
<1>2. ASSUME NEW i \in DOMAIN steps
      PROVE  f(i) \in StepType
  <2>1. steps[i] \in StepType
    BY <1>2
  <2>2. now(i) \in Nat /\ now(i) + 1 \in Nat
    <3>1. Row(steps[i].id, "ENTITY") \in Ids \X Parts
      BY <2>1 DEF StepType, Row, Parts
    <3>2. now(i) \in Nat
      BY <3>1 DEF TypeOK
    <3> QED BY <3>2
  <2> HIDE DEF now
  <2>3. /\ [steps[i] EXCEPT !.v = now(i), !.seen = now(i)] \in StepType
        /\ [steps[i] EXCEPT !.v = now(i) + 1] \in StepType
    BY <2>1, <2>2 DEF StepType
  <2> QED BY <2>1, <2>3
<1> HIDE DEF f
<1>3. DOMAIN steps = 1 .. Len(steps) /\ Len(steps) \in Nat
  OBVIOUS
<1> QED BY <1>1, <1>2, <1>3

LEMMA PrepareForkInv ==
  ASSUME ImportInv, NEW t \in Tabs, PrepareFork(t)
  PROVE  ImportInv'
<1>1. PICK chosen \in SUBSET Candidates(Pending(t)) :
        tab' = [tab EXCEPT ![t] = [tab[t] EXCEPT !.pc = "fork",
                  !.steps = Resolved(Pending(t), chosen), !.reply = head]]
  BY DEF PrepareFork
<1> DEFINE steps == Resolved(Pending(t), chosen)
           w == [tab[t] EXCEPT !.pc = "fork", !.steps = steps, !.reply = head]
<1>2. /\ TypeOK /\ head \in Nat /\ WorkOK(tab[t]) /\ tab[t].journal \in DOMAIN journals
      /\ tab[t].pc = "inspect" /\ tab[t].why = "rebase" /\ tab[t].shown.head = head
      /\ tab[t].accepted \in Nat
  <2>1. tab[t].pc = "inspect" /\ tab[t].why = "rebase" /\ tab[t].shown.head = head
    BY DEF PrepareFork, At, AsReviewed
  <2>2. head \in Nat
    BY DEF ImportInv, TypeOK
  <2> QED BY <2>1, <2>2, WorkParts, WorkParts2
<1>3. /\ tab[t].accepted <= Accepted(tab[t].journal)
      /\ Reached(tab[t].journal, tab[t].accepted, tab[t].revision)
      /\ tab[t].accepted = Len(Steps(tab[t].journal)) \/ TakenOnly(tab[t].journal, tab[t].accepted)
  BY <1>2 DEF WorkOK
<1>4. tab[t].accepted <= Len(Steps(tab[t].journal)) /\ Len(Steps(tab[t].journal)) \in Nat
  <2>1. Accepted(tab[t].journal) <= Len(Steps(tab[t].journal))
    BY <1>2 DEF TypeOK, Accepted, Steps
  <2> QED BY <1>2, <1>3, <2>1, JournalParts DEF Accepted, Steps
<1>5. steps \in Seq(StepType) /\ Len(steps) + tab[t].accepted = Len(Steps(tab[t].journal))
  BY <1>2, <1>4, PendingType, ResolvedType
<1> HIDE DEF steps
<1>6. steps # <<>> => TakenOnly(tab[t].journal, tab[t].accepted)
  <2>1. steps # <<>> => Len(steps) # 0
    BY <1>5
  <2>2. Len(steps) \in Nat
    BY <1>5
  <2> QED BY <1>2, <1>3, <1>4, <1>5, <2>1, <2>2
<1>7. /\ w \in WorkType /\ w.journal = tab[t].journal /\ w.accepted = tab[t].accepted
      /\ w.revision = tab[t].revision /\ w.pc = "fork" /\ w.shown = tab[t].shown
      /\ w.steps = steps /\ w.reply = head
  BY <1>2, <1>5, WorkParts DEF WorkType
<1>8. tab' = [tab EXCEPT ![t] = w] /\ wire' \subseteq wire /\ stops' \in Nat
      /\ UNCHANGED <<journals, server, ghosts>>
  BY <1>1, <1>2 DEF PrepareFork, TypeOK, steps
<1> HIDE DEF w
<1>9. WorkOK(w)
  BY <1>2, <1>3, <1>5, <1>6, <1>7 DEF WorkOK
<1> QED BY <1>2, <1>7, <1>8, <1>9, QuietInv

LEMMA SendInv ==
  ASSUME ImportInv, NEW t \in Tabs, Send(t)
  PROVE  ImportInv'
<1> DEFINE m == [tab |-> t, journal |-> tab[t].journal, step |-> NextOf(t),
                 guard |-> tab[t].revision]
           w == [tab[t] EXCEPT !.pc = "wait"]
<1>1. /\ TypeOK /\ WorkOK(tab[t]) /\ tab[t].journal \in DOMAIN journals /\ tab[t].pc = "loop"
      /\ tab[t].accepted \in Nat /\ tab[t].accepted < Len(Steps(tab[t].journal))
  <2>1. tab[t].pc = "loop" /\ Left(t) > 0
    BY DEF Send, At, Sendable
  <2>2. TypeOK /\ WorkOK(tab[t]) /\ tab[t].journal \in DOMAIN journals /\ tab[t].accepted \in Nat
    BY <2>1, WorkParts, WorkParts2
  <2> QED BY <2>1, <2>2, JournalParts DEF Left, Steps
<1>2. /\ tab[t].accepted <= Accepted(tab[t].journal)
      /\ Reached(tab[t].journal, tab[t].accepted, tab[t].revision)
  BY <1>1 DEF WorkOK
<1>3. /\ w \in WorkType /\ w.journal = tab[t].journal /\ w.accepted = tab[t].accepted
      /\ w.revision = tab[t].revision /\ w.pc = "wait" /\ w.shown = tab[t].shown
  BY <1>1, WorkParts DEF WorkType
<1>4. tab' = [tab EXCEPT ![t] = w] /\ wire' = wire \cup {m}
      /\ UNCHANGED <<journals, at, gone, head, receipts, log, alien>>
  BY DEF Send, Goto, server, ghosts
<1>5. m.journal = tab[t].journal /\ m.step - 1 = tab[t].accepted /\ m.guard = tab[t].revision
  BY <1>1 DEF NextOf
<1> HIDE DEF m, w
<1>6. WorkOK(w)
  BY <1>1, <1>3 DEF WorkOK
<1>7. TypeOK'
  BY <1>1, SendType
<1>8. \A u \in Tabs : tab'[u] = IF u = t THEN w ELSE tab[u]
  BY <1>1, <1>4 DEF TypeOK
<1>9. LogOK' /\ ReceiptsOK' /\ JournalsOK'
  BY <1>4, StoredSame
<1>12. WireOK'
  <2>1. \A x \in wire \cup {m} : x.step - 1 <= Accepted(x.journal)
                                 /\ Reached(x.journal, x.step - 1, x.guard)
    BY <1>2, <1>5 DEF ImportInv, WireOK
  <2> QED BY <1>4, <2>1 DEF WireOK, Accepted, Reached, IsTaken, HeadAfter, Initial
<1>13. ASSUME NEW u \in Tabs
       PROVE  TabOK(u)'
  <2>1. WorkOK(IF u = t THEN w ELSE tab[u])
    BY <1>6 DEF ImportInv, TabOK
  <2>2. PICK x : x = IF u = t THEN w ELSE tab[u]
    OBVIOUS
  <2>3. WorkOK(x) /\ tab'[u] = x
    BY <1>8, <2>1, <2>2
  <2>4. WorkOK(x)'
    BY <1>4, <2>3, WorkSame
  <2> QED BY <2>3, <2>4 DEF TabOK
<1> QED BY <1>7, <1>9, <1>12, <1>13 DEF ImportInv

-----------------------------------------------------------------------------
(* Steps that write in the destination. *)

\* What was true stays so when the log grows by a write of journal i, or of nobody.
LEMMA WorkGrows ==
  ASSUME ImportInv, NEW w \in [journal : Nat, step : Nat], log' = Append(log, w),
         head' = head + 1, journals' = journals, NEW x \in WorkType,
         x.pc # "idle" => x.journal \in DOMAIN journals, WorkOK(x),
         x.pc = "fork" /\ w.journal = x.journal =>
           ~ (TakenOnly(x.journal, x.accepted) /\ x.reply > x.revision)
  PROVE  WorkOK(x)'
<1>1. TypeOK /\ head \in Nat /\ x.shown.head \in Nat /\ x.reply \in Nat
  BY DEF ImportInv, TypeOK, WorkType
<1>2. \A j : Initial(j)' = Initial(j) /\ Steps(j)' = Steps(j) /\ Accepted(j)' = Accepted(j)
  BY DEF Initial, Steps, Accepted
<1>3. PICK j, a : j = x.journal /\ a = x.accepted
  OBVIOUS
<1>4. /\ \A rev : Reached(j, a, rev) => Reached(j, a, rev)'
      /\ \A rev : Reached(j, a + 1, rev) => Reached(j, a + 1, rev)'
      /\ TakenOnly(j, a) /\ w.journal # j => TakenOnly(j, a)'
  BY <1>1, <1>2, ReachedKept
<1>5. (x.shown.head <= head)' /\ ~ (x.shown.head = head)'
  BY <1>1 DEF WorkOK
<1>6. x.pc \in {"loop", "wait", "answered", "inspect", "fork"} =>
        (a <= Accepted(j))' /\ Reached(j, a, x.revision)'
  BY <1>2, <1>3, <1>4 DEF WorkOK
<1>7. /\ x.pc = "wait" => (a < Len(Steps(j)))'
      /\ x.pc = "answered" => (a < Len(Steps(j)))' /\ Reached(j, a + 1, x.reply)'
  BY <1>2, <1>3, <1>4 DEF WorkOK
<1>8. ASSUME x.pc = "fork"
      PROVE  /\ (x.reply <= head /\ Len(x.steps) + a = Len(Steps(j)))'
             /\ x.steps # <<>> /\ x.reply > x.revision => TakenOnly(j, a)'
  <2>1. x.reply <= head /\ Len(x.steps) + a = Len(Steps(j))
    BY <1>3, <1>8 DEF WorkOK
  <2>2. (x.reply <= head /\ Len(x.steps) + a = Len(Steps(j)))'
    BY <1>1, <1>2, <2>1
  <2>3. ASSUME x.steps # <<>>, x.reply > x.revision
        PROVE  TakenOnly(j, a)'
    <3>1. TakenOnly(j, a)
      BY <1>3, <1>8, <2>3 DEF WorkOK
    <3>2. w.journal # j
      BY <1>3, <1>8, <2>3, <3>1
    <3> QED BY <1>4, <3>1, <3>2
  <2> QED BY <2>2, <2>3
<1> QED BY <1>3, <1>5, <1>6, <1>7, <1>8 DEF WorkOK

\* The journals, when the log grows by a write of the last of them, or of nobody.
LEMMA JournalsGrow ==
  ASSUME ImportInv, NEW w \in [journal : Nat, step : Nat], log' = Append(log, w),
         head' = head + 1, journals' = journals, journals # <<>>,
         \A j \in DOMAIN journals : w.journal = j =>
           /\ \A k \in DOMAIN journals : ~ (j < k)
           /\ head + 1 <= HeadAfter(j, Accepted(j) + 1)
  PROVE  JournalsOK'
<1>1. TypeOK /\ head \in Nat /\ head = Len(log)
  BY DEF ImportInv, TypeOK, LogOK
<1>2. \A j : Initial(j)' = Initial(j) /\ Steps(j)' = Steps(j) /\ Accepted(j)' = Accepted(j)
             /\ Offset(j)' = Offset(j)
  BY DEF Initial, Steps, Accepted, Offset
<1>3. ASSUME NEW j \in DOMAIN journals
      PROVE  /\ (journals[j].parent = j - 1)' /\ (Initial(j) <= head)'
             /\ (Ours(Initial(j)) = Offset(j))'
  <2>1. /\ journals[j].parent = j - 1 /\ Initial(j) <= head /\ Ours(Initial(j)) = Offset(j)
        /\ Initial(j) \in Nat
    BY <1>1, JournalParts DEF ImportInv, JournalsOK, Initial
  <2>2. PICK i : i = Initial(j)
    OBVIOUS
  <2>3. Ours(i)' = Ours(i)
    BY <1>1, <2>1, <2>2, OursKept
  <2>4. (Initial(j))' = i
    BY <1>2, <2>2
  <2>5. Ours(Initial(j))' = Ours(i)'
    BY <2>4 DEF Ours
  <2> QED BY <1>1, <1>2, <2>1, <2>2, <2>3, <2>5
<1>4. ASSUME NEW j \in DOMAIN journals
      PROVE  /\ Reached(j, Accepted(j), journals[j].revision)' /\ TakenOnly(j, Accepted(j) + 1)'
             /\ TakenOnly(j, Accepted(j)) /\ w.journal # j => TakenOnly(j, Accepted(j))'
  <2>1. PICK a, rev : a = Accepted(j) /\ rev = journals[j].revision
    OBVIOUS
  <2>2. Reached(j, a, rev) /\ TakenOnly(j, a + 1)
    BY <2>1 DEF ImportInv, JournalsOK
  <2>3. /\ Reached(j, a, rev)' /\ (TakenOnly(j, a) /\ w.journal # j => TakenOnly(j, a)')
        /\ (TakenOnly(j, a + 1) /\ w.journal # j => TakenOnly(j, a + 1)')
        /\ HeadAfter(j, a + 1)' = HeadAfter(j, a + 1)
    BY <1>1, <1>2, <2>2, ReachedKept
  <2>4. TakenOnly(j, a + 1)'
    <3>1. CASE w.journal # j
      BY <2>2, <2>3, <3>1
    <3>2. CASE w.journal = j
      <4>1. head + 1 <= HeadAfter(j, a + 1)
        BY <2>1, <3>2
      <4>2. \A h \in DOMAIN log : log[h].journal = j => h <= HeadAfter(j, a + 1)
        BY <2>2 DEF TakenOnly
      <4> QED BY <1>1, <2>3, <4>1, <4>2, LogParts, LogGrows DEF TakenOnly
    <3> QED BY <3>1, <3>2
  <2>5. Accepted(j)' = a /\ (journals[j].revision)' = rev
    BY <1>2, <2>1
  <2>6. Reached(j, Accepted(j), journals[j].revision)'
    BY <2>3, <2>5 DEF Reached, IsTaken, HeadAfter
  <2>7. TakenOnly(j, Accepted(j) + 1)'
    BY <2>4, <2>5 DEF TakenOnly, HeadAfter
  <2>8. TakenOnly(j, a)' => TakenOnly(j, Accepted(j))'
    BY <2>5 DEF TakenOnly, HeadAfter
  <2> QED BY <2>1, <2>3, <2>6, <2>7, <2>8
<1>5. ASSUME NEW j \in DOMAIN journals, NEW k \in DOMAIN journals, j < k
      PROVE  TakenOnly(j, Accepted(j))' /\ (Initial(j) < Initial(k))'
  <2>1. TakenOnly(j, Accepted(j)) /\ Initial(j) < Initial(k)
    BY <1>5 DEF ImportInv, JournalsOK
  <2>2. w.journal # j
    BY <1>5
  <2> QED BY <1>2, <1>4, <2>1, <2>2
<1> QED BY <1>3, <1>4, <1>5 DEF JournalsOK

\* The log, when it grows.
LEMMA LogStaysOK ==
  ASSUME ImportInv, NEW w \in [journal : Nat, step : Nat], log' = Append(log, w),
         head' = head + 1, journals' = journals,
         w # Other =>
           /\ w.journal \in DOMAIN journals /\ Initial(w.journal) < head + 1
           /\ head + 1 = HeadAfter(w.journal, w.step) /\ w.step \in DOMAIN Steps(w.journal)
           /\ \A g \in Initial(w.journal) + 1 .. head : log[g].journal = w.journal
           /\ \A k \in DOMAIN journals : ~ (w.journal < k)
           /\ Ours(head) + 1 = Offset(w.journal) + w.step
  PROVE  LogOK'
<1>1. /\ TypeOK /\ head \in Nat /\ head = Len(log) /\ DOMAIN log' = 1 .. head + 1
      /\ DOMAIN log = 1 .. head /\ log'[head + 1] = w /\ Len(log') = head + 1
      /\ \A h \in 1 .. head : log'[h] = log[h]
  BY LogParts, LogGrows DEF ImportInv, TypeOK, LogOK
<1>2. \A j : Initial(j)' = Initial(j) /\ Steps(j)' = Steps(j) /\ Offset(j)' = Offset(j)
  BY DEF Initial, Steps, Offset
<1>3. ASSUME NEW h \in 1 .. head, NEW j, NEW i, WriteOK(j, i, h)
      PROVE  WriteOK(j, i, h)'
  <2>1. /\ j \in DOMAIN journals /\ Initial(j) < h /\ h = HeadAfter(j, i)
        /\ i \in DOMAIN Steps(j)
        /\ \A g \in Initial(j) + 1 .. h : log[g].journal = j
        /\ \A k \in DOMAIN journals : j < k => h < Initial(k)
        /\ Ours(h) = Offset(j) + i
    BY <1>3 DEF WriteOK
  <2>2. Initial(j) \in Nat
    BY <1>1, <2>1, JournalParts DEF Initial
  <2>3. Ours(h)' = Ours(h)
    BY <1>1, OursKept
  <2>4. HeadAfter(j, i)' = HeadAfter(j, i)
    BY <1>2 DEF HeadAfter
  <2>5. \A g \in Initial(j) + 1 .. h : log'[g].journal = j
    BY <1>1, <2>1, <2>2
  <2> QED BY <1>2, <2>1, <2>3, <2>4, <2>5 DEF WriteOK
<1>4. ASSUME w # Other, NEW j, j = w.journal, NEW n, n = head + 1
      PROVE  WriteOK(j, w.step, n)'
  <2>1. HeadAfter(j, w.step)' = HeadAfter(j, w.step)
    BY <1>2 DEF HeadAfter
  <2>2. PICK m \in Nat : m = head
    BY <1>1
  <2>3. Ours(n)' = Ours(m) + 1
    <3>1. Ours(m + 1)' = Ours(m) + 1
      BY <1>1, <1>4, <2>2, OursNext
    <3> QED BY <1>4, <2>2, <3>1
  <2>4. Initial(j) \in Nat
    BY <1>1, <1>4, JournalParts DEF Initial
  <2>5. \A g \in Initial(j) + 1 .. n : log'[g].journal = j
    BY <1>1, <1>4, <2>4
  <2> QED BY <1>2, <1>4, <2>1, <2>2, <2>3, <2>5 DEF WriteOK
<1>5. ASSUME NEW h \in DOMAIN log', log'[h] # Other
      PROVE  WriteOK(log[h].journal, log[h].step, h)'
  <2>1. PICK j, i : j = log'[h].journal /\ i = log'[h].step
    OBVIOUS
  <2>2. WriteOK(j, i, h)'
    <3>1. CASE h \in 1 .. head
      <4>1. log[h] # Other /\ j = log[h].journal /\ i = log[h].step
        BY <1>1, <1>5, <2>1, <3>1
      <4>2. WriteOK(j, i, h)
        BY <1>1, <3>1, <4>1 DEF ImportInv, LogOK
      <4> QED BY <1>3, <3>1, <4>2
    <3>2. CASE h = head + 1
      BY <1>1, <1>4, <1>5, <2>1, <3>2
    <3> QED BY <1>1, <1>5, <3>1, <3>2
  <2> QED BY <2>1, <2>2 DEF WriteOK, HeadAfter, Initial, Steps, Offset
<1> QED BY <1>1, <1>5 DEF LogOK

LEMMA WireStaysOK ==
  ASSUME ImportInv, NEW w \in [journal : Nat, step : Nat], log' = Append(log, w),
         journals' = journals, wire' \subseteq wire
  PROVE  WireOK'
<1>1. TypeOK /\ \A j : Initial(j)' = Initial(j) /\ Accepted(j)' = Accepted(j)
  BY DEF ImportInv, Initial, Accepted
<1>2. ASSUME NEW m \in wire
      PROVE  (m.step - 1 <= Accepted(m.journal))' /\ Reached(m.journal, m.step - 1, m.guard)'
  <2>1. m.step - 1 <= Accepted(m.journal) /\ Reached(m.journal, m.step - 1, m.guard)
    BY DEF ImportInv, WireOK
  <2> QED BY <1>1, <2>1, ReachedKept
<1> QED BY <1>2 DEF WireOK

LEMMA OtherType ==
  ASSUME TypeOK, OtherWrite, at' \in [Ids \X Parts -> Nat], gone' \subseteq Ids,
         alien' \subseteq Ids \X Parts
  PROVE  TypeOK'
<1>1. Other \in [journal : Nat, step : Nat]
  BY DEF Other
<1>2. log' \in Seq([journal : Nat, step : Nat]) /\ head' \in Nat
  BY <1>1 DEF OtherWrite, TypeOK
<1>3. UNCHANGED <<journals, receipts, wire, tab, stops>>
  BY DEF OtherWrite
<1> QED BY <1>2, <1>3 DEF TypeOK, At

LEMMA OtherInv ==
  ASSUME ImportInv, OtherWrite, at' \in [Ids \X Parts -> Nat], gone' \subseteq Ids,
         alien' \subseteq Ids \X Parts
  PROVE  ImportInv'
<1>1. /\ TypeOK /\ TypeOK' /\ Other \in [journal : Nat, step : Nat] /\ Other.journal = 0
      /\ log' = Append(log, Other) /\ head' = head + 1 /\ journals # <<>>
      /\ UNCHANGED <<journals, receipts, wire, tab, stops>>
  BY OtherType DEF ImportInv, OtherWrite, Other
<1>2. LogOK'
  BY <1>1, LogStaysOK
<1>3. ReceiptsOK'
  <2>1. /\ DOMAIN log = 1 .. Len(log) /\ DOMAIN log' = 1 .. Len(log) + 1 /\ Len(log) \in Nat
        /\ \A h \in DOMAIN log : log'[h] = log[h]
        /\ log'[Len(log) + 1] = Other
    BY <1>1, LogParts, LogGrows
  <2>2. ASSUME NEW r \in receipts
        PROVE  /\ r.head \in DOMAIN log' /\ r.guard + 1 = r.head
               /\ r.journal \in DOMAIN journals
               /\ log'[r.head] = [journal |-> r.journal, step |-> r.step]
    BY <2>1 DEF ImportInv, ReceiptsOK
  <2>3. ASSUME NEW h \in DOMAIN log', log'[h] # Other
        PROVE  \E r \in receipts : r.journal = log'[h].journal /\ r.step = log'[h].step /\ r.head = h
    <3>1. h \in DOMAIN log /\ log'[h] = log[h]
      BY <2>1, <2>3
    <3> QED BY <2>3, <3>1 DEF ImportInv, ReceiptsOK
  <2> QED BY <1>1, <2>2, <2>3 DEF ReceiptsOK
<1>4. JournalsOK'
  <2>1. \A j \in DOMAIN journals : j # 0
    BY <1>1, JournalParts
  <2> QED BY <1>1, <2>1, JournalsGrow
<1>5. WireOK'
  BY <1>1, WireStaysOK
<1>6. ASSUME NEW t \in Tabs
      PROVE  TabOK(t)'
  <2>1. PICK x : x = tab[t]
    OBVIOUS
  <2>2. x \in WorkType /\ WorkOK(x) /\ (x.pc # "idle" => x.journal \in DOMAIN journals)
    BY <1>1, <2>1, WorkParts, WorkParts2
  <2>3. x.pc = "fork" => Other.journal # x.journal
    BY <1>1, <2>2, JournalParts
  <2>4. WorkOK(x)'
    BY <1>1, <2>2, <2>3, WorkGrows
  <2>5. tab'[t] = x
    BY <1>1, <2>1
  <2> QED BY <2>4, <2>5 DEF TabOK
<1> QED BY <1>1, <1>2, <1>3, <1>4, <1>5, <1>6 DEF ImportInv

LEMMA OthersInv ==
  ASSUME ImportInv, Others
  PROVE  ImportInv'
<1>1. /\ at \in [Ids \X Parts -> Nat] /\ gone \subseteq Ids /\ alien \subseteq Ids \X Parts
  BY DEF ImportInv, TypeOK
<1>2. ASSUME NEW row \in Ids \X Parts, OtherEdit(row)
      PROVE  ImportInv'
  <2>1. at' \in [Ids \X Parts -> Nat] /\ gone' \subseteq Ids /\ alien' \subseteq Ids \X Parts
    BY <1>1, <1>2 DEF OtherEdit
  <2> QED BY <1>2, <2>1, OtherInv DEF OtherEdit
<1>3. ASSUME NEW id \in Ids, OtherDelete(id)
      PROVE  ImportInv'
  <2>1. Row(id, "ENTITY") \in Ids \X Parts
    BY DEF Row, Parts
  <2>2. at' \in [Ids \X Parts -> Nat] /\ gone' \subseteq Ids /\ alien' \subseteq Ids \X Parts
    BY <1>1, <1>3, <2>1 DEF OtherDelete
  <2> QED BY <1>3, <2>2, OtherInv DEF OtherDelete
<1>4. ASSUME OtherElsewhere
      PROVE  ImportInv'
  <2>1. at' \in [Ids \X Parts -> Nat] /\ gone' \subseteq Ids /\ alien' \subseteq Ids \X Parts
    BY <1>1, <1>4 DEF OtherElsewhere
  <2> QED BY <1>4, <2>1, OtherInv DEF OtherElsewhere
<1> QED BY <1>2, <1>3, <1>4 DEF Others

-----------------------------------------------------------------------------
(* A request that is accepted. *)

LEMMA AcceptInv ==
  ASSUME ImportInv, NEW m \in wire, Accept(m)
  PROVE  ImportInv'
<1> DEFINE w == [journal |-> m.journal, step |-> m.step]
           r == [journal |-> m.journal, step |-> m.step, guard |-> m.guard, head |-> head + 1]
<1>1. /\ TypeOK /\ TypeOK' /\ head \in Nat /\ head = Len(log) /\ m.guard = head
      /\ m.journal \in DOMAIN journals /\ m.step \in DOMAIN Steps(m.journal) /\ m.tab \in Tabs
      /\ log' = Append(log, w) /\ head' = head + 1 /\ receipts' = receipts \cup {r}
      /\ wire' \subseteq wire /\ Answered(m, head + 1) /\ UNCHANGED <<journals, stops>>
  <2>1. TypeOK /\ TypeOK' /\ head = Len(log)
    BY AcceptType DEF ImportInv, LogOK
  <2> QED BY <2>1 DEF TypeOK, Accept, Acceptable, Steps
<1>2. PICK j, i, a : j = m.journal /\ i = m.step /\ a = m.step - 1
  OBVIOUS
<1>3. /\ j \in DOMAIN journals /\ i \in DOMAIN Steps(j) /\ j \in Nat \ {0} /\ i \in Nat \ {0}
      /\ a \in Nat /\ i = a + 1 /\ w \in [journal : Nat, step : Nat] /\ w.journal = j
      /\ w.step = i /\ w # Other /\ Initial(j) \in Nat /\ Accepted(j) \in Nat
  <2>1. j \in DOMAIN journals /\ i \in DOMAIN Steps(j)
    BY <1>1, <1>2
  <2>2. j \in Nat \ {0} /\ i \in Nat \ {0} /\ Initial(j) \in Nat /\ Accepted(j) \in Nat
    BY <1>1, <2>1, JournalParts DEF Steps, Initial, Accepted
  <2> QED BY <1>2, <2>1, <2>2 DEF Other
<1>4. a <= Accepted(j) /\ Reached(j, a, head)
  BY <1>1, <1>2 DEF ImportInv, WireOK
<1>5. /\ head = Initial(j) + a /\ Ours(head) = Offset(j) + a
      /\ \A g \in Initial(j) + 1 .. head : log[g].journal = j
      /\ a # 0 => head \in DOMAIN log /\ log[head].journal = j
  BY <1>3, <1>4, OursReached
<1>6. \A k \in DOMAIN journals : ~ (j < k)
  BY <1>3, <1>4, ReachedHeadLast
<1>7. head + 1 = HeadAfter(j, i) /\ HeadAfter(j, i) <= HeadAfter(j, Accepted(j) + 1)
  <2>1. HeadAfter(j, i) = Initial(j) + i /\ HeadAfter(j, Accepted(j) + 1) = Initial(j) + (Accepted(j) + 1)
    BY DEF HeadAfter
  <2> QED BY <1>3, <1>4, <1>5, <2>1
<1> HIDE DEF w, r
<1>8. LogOK'
  <2>1. Offset(j) \in Int
    <3>1. 1 \in DOMAIN journals
      BY <1>1, <1>3, JournalParts
    <3> QED BY <1>1, <1>3, <3>1, JournalParts DEF Offset, Steps
  <2>2. Initial(j) < head + 1 /\ Ours(head) + 1 = Offset(j) + i
    BY <1>1, <1>3, <1>5, <2>1
  <2> QED BY <1>1, <1>3, <1>5, <1>6, <1>7, <2>2, LogStaysOK
<1>9. /\ DOMAIN log = 1 .. head /\ DOMAIN log' = 1 .. head + 1
      /\ \A h \in DOMAIN log : log'[h] = log[h]
      /\ log'[head + 1] = w
  BY <1>1, <1>3, LogParts, LogGrows
<1>10. ReceiptsOK'
  <2>1. ASSUME NEW x \in receipts
        PROVE  /\ x.head \in DOMAIN log' /\ x.guard + 1 = x.head
               /\ x.journal \in DOMAIN journals
               /\ log'[x.head] = [journal |-> x.journal, step |-> x.step]
    BY <1>1, <1>9 DEF ImportInv, ReceiptsOK
  <2>2. /\ r.head \in DOMAIN log' /\ r.guard + 1 = r.head /\ r.journal \in DOMAIN journals
        /\ log'[r.head] = [journal |-> r.journal, step |-> r.step]
        /\ r.journal = j /\ r.step = i /\ r.head = head + 1
    BY <1>1, <1>2, <1>9 DEF r, w
  <2>3. ASSUME NEW h \in DOMAIN log', log'[h] # Other
        PROVE  \E x \in receipts' : x.journal = log'[h].journal /\ x.step = log'[h].step /\ x.head = h
    <3>1. CASE h \in DOMAIN log
      BY <1>1, <1>9, <2>3, <3>1 DEF ImportInv, ReceiptsOK
    <3>2. CASE h = head + 1
      BY <1>1, <1>3, <1>9, <2>2, <3>2
    <3> QED BY <1>1, <1>9, <2>3, <3>1, <3>2
  <2>4. \A x \in receipts' : x \in receipts \/ x = r
    BY <1>1
  <2> QED BY <1>1, <2>1, <2>2, <2>3, <2>4 DEF ReceiptsOK
<1>11. JournalsOK'
  <2>1. journals # <<>>
    BY <1>3
  <2> QED BY <1>1, <1>3, <1>6, <1>7, <2>1, JournalsGrow
<1>12. WireOK'
  BY <1>1, <1>3, WireStaysOK
<1>13. ASSUME NEW x \in WorkType, x.pc # "idle" => x.journal \in DOMAIN journals, WorkOK(x)
       PROVE  WorkOK(x)'
  <2>1. ASSUME x.pc = "fork", j = x.journal, TakenOnly(j, x.accepted), x.reply > x.revision
        PROVE  FALSE
    <3>1. x.revision = HeadAfter(j, x.accepted) /\ x.reply <= head
      BY <1>13, <2>1 DEF WorkOK, Reached
    <3>2. HeadAfter(j, x.accepted) = Initial(j) + x.accepted
      BY DEF HeadAfter
    <3>3. x.accepted \in Nat /\ x.reply \in Nat /\ x.revision \in Nat
      BY DEF WorkType
    <3>4. a # 0
      BY <1>3, <1>5, <2>1, <3>1, <3>2, <3>3
    <3>5. head <= HeadAfter(j, x.accepted)
      BY <1>5, <2>1, <3>4 DEF TakenOnly
    <3> QED BY <1>1, <2>1, <3>1, <3>3, <3>5
  <2> QED BY <1>1, <1>3, <1>13, <2>1, WorkGrows
<1>14. ASSUME NEW t \in Tabs
       PROVE  TabOK(t)'
  <2>1. PICK x : x = tab[t]
    OBVIOUS
  <2>2. x \in WorkType /\ WorkOK(x) /\ (x.pc # "idle" => x.journal \in DOMAIN journals)
    BY <1>1, <2>1, WorkParts, WorkParts2
  <2>3. WorkOK(x)'
    BY <1>13, <2>2
  <2>4. CASE t # m.tab \/ ~ Waits(m)
    <3>1. tab'[t] = x
      BY <1>1, <2>1, <2>4 DEF Answered, TypeOK
    <3> QED BY <2>3, <3>1 DEF TabOK
  <2>5. CASE t = m.tab /\ Waits(m)
    <3>1. tab' = [tab EXCEPT ![t] = [x EXCEPT !.pc = "answered", !.reply = head + 1]]
      <4>1. Answered(m, head + 1) /\ head + 1 # 0 /\ Waits(m) /\ t = m.tab /\ x = tab[m.tab]
        BY <1>1, <2>1, <2>5
      <4> QED BY ONLY <4>1 DEF Answered
    <3>2. PICK y : y = [x EXCEPT !.pc = "answered", !.reply = head + 1]
      OBVIOUS
    <3>3. tab'[t] = y
      BY <1>1, <3>1, <3>2 DEF TypeOK
    <3>4. x.pc = "wait" /\ x.journal = j /\ x.accepted = a
      <4>1. x.pc = "wait" /\ x.journal = j /\ x.accepted + 1 = i
        BY ONLY <1>2, <2>1, <2>5 DEF Waits, At, NextOf
      <4>2. x.accepted \in Nat
        BY ONLY <2>2 DEF WorkType
      <4> QED BY <1>3, <4>1, <4>2
    <3>5. /\ y.pc = "answered" /\ y.reply = head + 1 /\ y.journal = j /\ y.accepted = a
          /\ y.revision = x.revision /\ y.shown = x.shown
      BY <2>2, <3>2, <3>4 DEF WorkType
    <3>6. /\ (x.shown.head <= head)' /\ (a <= Accepted(j))' /\ Reached(j, a, x.revision)'
          /\ (a < Len(Steps(j)))'
      BY <2>3, <3>4 DEF WorkOK
    <3>7. PICK n : n = head + 1
      OBVIOUS
    <3>8. Reached(j, a + 1, n)'
      <4>1. HeadAfter(j, a + 1)' = HeadAfter(j, a + 1)
        BY <1>1 DEF HeadAfter, Initial
      <4>2. n = HeadAfter(j, a + 1)' /\ n \in DOMAIN log' /\ log'[n].journal = j
        BY <1>1, <1>3, <1>7, <1>9, <3>7, <4>1
      <4> QED BY <4>2 DEF Reached, IsTaken
    <3>9. y.reply = n
      BY <3>5, <3>7
    <3> QED BY <3>3, <3>5, <3>6, <3>8, <3>9 DEF WorkOK, TabOK
  <2> QED BY <2>4, <2>5
<1> QED BY <1>1, <1>8, <1>10, <1>11, <1>12, <1>14 DEF ImportInv

-----------------------------------------------------------------------------
(* Steps that store a journal. *)

LEMMA AdvanceInv ==
  ASSUME ImportInv, NEW t \in Tabs, Advance(t)
  PROVE  ImportInv'
<1>1. PICK j, a, rev, v : j = tab[t].journal /\ a = tab[t].accepted /\ rev = tab[t].reply /\ v = tab[t]
  OBVIOUS
<1> DEFINE x == [journals[j] EXCEPT !.accepted = a + 1, !.revision = rev]
           w == [v EXCEPT !.pc = "loop", !.accepted = a + 1, !.revision = rev, !.reply = 0]
<1>2. /\ TypeOK /\ j \in DOMAIN journals /\ v \in WorkType /\ v.pc = "answered" /\ WorkOK(v)
      /\ a \in Nat /\ rev \in Nat /\ v.journal = j /\ v.accepted = a /\ v.reply = rev
      /\ Accepted(j) = a /\ ~ Successor(j)
  <2>1. v.pc = "answered" /\ Accepted(j) = a /\ ~ Successor(j)
    BY <1>1 DEF Advance, At, Storable, Accepted
  <2> QED BY <1>1, <2>1, WorkParts, WorkParts2
<1>3. a < Len(Steps(j)) /\ Reached(j, a + 1, rev) /\ v.shown.head <= head
  BY <1>2 DEF WorkOK
<1>4. TypeOK'
  BY <1>1, <1>2, <1>3, AdvanceType DEF Steps
<1>5. /\ journals' = [journals EXCEPT ![j] = x] /\ tab' = [tab EXCEPT ![t] = w]
      /\ UNCHANGED <<at, gone, head, receipts, wire, stops, log, alien>>
  BY <1>1 DEF Advance, server, ghosts, NextOf
<1>6. /\ x.accepted = a + 1 /\ x.revision = rev /\ x.steps = journals[j].steps
      /\ x.initial = journals[j].initial /\ x.parent = journals[j].parent
  BY <1>2, JournalParts DEF JournalType
<1>7. /\ w.pc = "loop" /\ w.journal = j /\ w.accepted = a + 1 /\ w.revision = rev
      /\ w.shown = v.shown
  BY <1>2 DEF WorkType
<1> HIDE DEF x, w
<1>8. /\ DOMAIN journals' = DOMAIN journals /\ Len(journals') = Len(journals)
      /\ \A k \in DOMAIN journals :
           /\ journals'[k] = IF k = j THEN x ELSE journals[k]
           /\ Initial(k)' = Initial(k) /\ Steps(k)' = Steps(k) /\ journals'[k].parent = journals[k].parent
           /\ Offset(k)' = Offset(k)
           /\ Accepted(k)' = IF k = j THEN a + 1 ELSE Accepted(k)
           /\ Accepted(k) \in Nat /\ Accepted(k)' \in Nat /\ Accepted(k) <= Accepted(k)'
  <2>1. /\ journals \in Seq(JournalType) /\ DOMAIN journals' = DOMAIN journals
        /\ Len(journals') = Len(journals)
        /\ \A k \in DOMAIN journals : journals'[k] = IF k = j THEN x ELSE journals[k]
    BY <1>2, <1>5 DEF TypeOK
  <2>2. \A k \in DOMAIN journals :
          /\ Initial(k)' = Initial(k) /\ Steps(k)' = Steps(k)
          /\ journals'[k].parent = journals[k].parent
          /\ Accepted(k)' = IF k = j THEN a + 1 ELSE Accepted(k)
    BY <1>6, <2>1 DEF Initial, Steps, Accepted
  <2>3. \A k \in DOMAIN journals : Accepted(k) \in Nat
    BY <1>2, JournalParts DEF Accepted
  <2>4. 1 \in DOMAIN journals
    BY <1>2, JournalParts
  <2>5. \A k \in DOMAIN journals : Offset(k)' = Offset(k)
    BY <2>2, <2>4 DEF Offset
  <2> QED BY <1>2, <2>1, <2>2, <2>3, <2>5
<1>9. \A k \in DOMAIN journals : \A b, r :
         /\ (Reached(k, b, r) => Reached(k, b, r)')
         /\ (TakenOnly(k, b) => TakenOnly(k, b)')
  BY <1>5, <1>8 DEF Reached, IsTaken, HeadAfter, TakenOnly
<1>10. \A h : Ours(h)' = Ours(h)
  BY <1>5 DEF Ours
<1>11. LogOK'
  <2>1. ASSUME NEW h \in DOMAIN log, log[h] # Other
        PROVE  WriteOK(log[h].journal, log[h].step, h)'
    <3>1. PICK k, i : k = log[h].journal /\ i = log[h].step
      OBVIOUS
    <3>2. WriteOK(k, i, h)
      BY <2>1, <3>1 DEF ImportInv, LogOK
    <3>3. WriteOK(k, i, h)'
      BY <1>5, <1>8, <1>10, <3>2 DEF WriteOK, HeadAfter
    <3>4. k = log'[h].journal /\ i = log'[h].step
      BY <1>5, <3>1
    <3> QED BY <3>3, <3>4 DEF WriteOK, HeadAfter, Initial, Steps, Offset
  <2> QED BY <1>5, <2>1 DEF ImportInv, LogOK
<1>12. ReceiptsOK'
  BY <1>5, <1>8 DEF ImportInv, ReceiptsOK
<1>13. JournalsOK'
  <2>1. \A k \in DOMAIN journals : k <= j
    BY <1>2, LastJournal
  <2>2. ASSUME NEW k \in DOMAIN journals
        PROVE  /\ (journals[k].parent = k - 1)' /\ (Initial(k) <= head)'
               /\ (Ours(Initial(k)) = Offset(k))'
               /\ Reached(k, Accepted(k), journals[k].revision)' /\ TakenOnly(k, Accepted(k) + 1)'
    <3>1. /\ journals[k].parent = k - 1 /\ Initial(k) <= head
          /\ Ours(Initial(k)) = Offset(k)
          /\ Reached(k, Accepted(k), journals[k].revision) /\ TakenOnly(k, Accepted(k) + 1)
      BY DEF ImportInv, JournalsOK
    <3>2. PICK i : i = Initial(k) /\ (Initial(k))' = i
      BY <1>8
    <3>3. Ours(i)' = Offset(k)'
      BY <1>8, <1>10, <3>1, <3>2
    <3>4. (Ours(Initial(k)) = Offset(k))'
      BY <3>2, <3>3 DEF Ours
    <3>5. PICK b, r : b = (Accepted(k))' /\ r = (journals[k].revision)'
      OBVIOUS
    <3>6. Reached(k, b, r) /\ TakenOnly(k, b + 1)
      <4>1. CASE k = j
        <5>1. b = a + 1 /\ r = rev
          BY <1>6, <1>8, <3>5, <4>1
        <5>2. TakenOnly(j, a + 1)
          BY <1>2, <3>1, <4>1
        <5>3. TakenOnly(j, (a + 1) + 1)
          BY <1>2, <5>2, TakenOnlyMore
        <5> QED BY <1>3, <4>1, <5>1, <5>3
      <4>2. CASE k # j
        BY <1>8, <3>1, <3>5, <4>2
      <4> QED BY <4>1, <4>2
    <3>7. Reached(k, b, r)' /\ TakenOnly(k, b + 1)'
      BY <1>9, <3>6
    <3>8. Reached(k, Accepted(k), journals[k].revision)' /\ TakenOnly(k, Accepted(k) + 1)'
      BY <3>5, <3>7 DEF Reached, IsTaken, HeadAfter, TakenOnly
    <3> QED BY <1>5, <1>8, <3>1, <3>4, <3>8
  <2>3. ASSUME NEW k \in DOMAIN journals, NEW l \in DOMAIN journals, k < l
        PROVE  TakenOnly(k, Accepted(k))' /\ (Initial(k) < Initial(l))'
    <3>1. TakenOnly(k, Accepted(k)) /\ Initial(k) < Initial(l)
      BY <2>3 DEF ImportInv, JournalsOK
    <3>2. k # j
      BY <1>2, <2>1, <2>3, JournalParts
    <3>3. PICK b : b = Accepted(k) /\ (Accepted(k))' = b
      BY <1>8, <3>2
    <3>4. TakenOnly(k, b)'
      BY <1>9, <3>1, <3>3
    <3> QED BY <1>8, <3>1, <3>3, <3>4 DEF TakenOnly, HeadAfter
  <2>4. journals' # <<>>
    BY <1>2, <1>8
  <2> QED BY <1>8, <2>2, <2>3, <2>4 DEF JournalsOK
<1>14. WireOK'
  <2>1. ASSUME NEW m \in wire
        PROVE  (m.step - 1 <= Accepted(m.journal))' /\ Reached(m.journal, m.step - 1, m.guard)'
    <3>1. m.step - 1 <= Accepted(m.journal) /\ Reached(m.journal, m.step - 1, m.guard)
      BY DEF ImportInv, WireOK
    <3>2. m.journal \in DOMAIN journals /\ m.step - 1 \in Int
      <4>1. m.journal \in DOMAIN journals /\ m.step \in Nat
        BY <1>2 DEF TypeOK
      <4> QED BY <4>1
    <3> QED BY <1>8, <1>9, <3>1, <3>2
  <2> QED BY <1>5, <2>1 DEF WireOK
<1>15. ASSUME NEW u \in Tabs
       PROVE  TabOK(u)'
  <2>1. PICK y : y = IF u = t THEN w ELSE tab[u]
    OBVIOUS
  <2>2. tab'[u] = y
    BY <1>2, <1>5, <2>1 DEF TypeOK
  <2>3. CASE u = t
    <3>1. (y.shown.head <= head)' /\ y.pc = "loop" /\ y.journal = j /\ y.accepted = a + 1
          /\ y.revision = rev
      BY <1>3, <1>5, <1>7, <2>1, <2>3
    <3>2. (a + 1 <= Accepted(j))' /\ Reached(j, a + 1, rev)'
      BY <1>2, <1>3, <1>8, <1>9
    <3> QED BY <2>2, <3>1, <3>2 DEF TabOK, WorkOK
  <2>4. CASE u # t
    <3>1. y \in WorkType /\ WorkOK(y) /\ (y.pc # "idle" => y.journal \in DOMAIN journals)
      BY <1>2, <2>1, <2>4, WorkParts, WorkParts2
    <3>2. y.accepted \in Nat
      BY <3>1 DEF WorkType
    <3>3. WorkOK(y)'
      <4>1. CASE y.pc \in {"idle", "shown"}
        BY <1>5, <3>1, <4>1 DEF WorkOK
      <4>2. CASE y.pc \notin {"idle", "shown"}
        <5>1. y.journal \in DOMAIN journals
          BY <3>1, <4>2
        <5>2. y.accepted <= Accepted(y.journal) => (y.accepted <= Accepted(y.journal))'
          BY <1>8, <3>2, <5>1
        <5> QED BY <1>5, <1>8, <1>9, <3>1, <5>1, <5>2 DEF WorkOK
      <4> QED BY <4>1, <4>2
    <3> QED BY <2>2, <3>3 DEF TabOK
  <2> QED BY <2>3, <2>4
<1> QED BY <1>4, <1>11, <1>12, <1>13, <1>14, <1>15 DEF ImportInv

LEMMA ForkType ==
  ASSUME TypeOK, NEW t \in Tabs, Fork(t)
  PROVE  TypeOK'
<1> DEFINE x == [steps |-> tab[t].steps, accepted |-> 0, initial |-> tab[t].reply,
                 revision |-> tab[t].reply, parent |-> tab[t].journal]
<1>1. x \in JournalType /\ x.accepted = 0 /\ Len(x.steps) \in Nat
  BY WorkParts DEF JournalType
<1>2. /\ journals' = Append(journals, x) /\ tab' = [tab EXCEPT ![t] = NoWork]
      /\ UNCHANGED <<at, gone, head, receipts, wire, stops, log, alien>>
  BY DEF Fork, server, ghosts
<1> HIDE DEF x
<1>3. journals \in Seq(JournalType)
  BY DEF TypeOK
<1>4. /\ journals' \in Seq(JournalType) /\ DOMAIN journals' = 1 .. Len(journals) + 1
      /\ DOMAIN journals = 1 .. Len(journals) /\ Len(journals) \in Nat
      /\ \A k \in DOMAIN journals : k \in DOMAIN journals' /\ journals'[k] = journals[k]
      /\ journals'[Len(journals) + 1] = x
  BY <1>1, <1>2, <1>3
<1>5. \A k \in DOMAIN journals' : journals'[k].accepted <= Len(journals'[k].steps)
  <2>1. \A k \in DOMAIN journals : journals[k].accepted <= Len(journals[k].steps)
    BY DEF TypeOK
  <2>2. x.accepted <= Len(x.steps)
    BY <1>1
  <2>3. \A k \in DOMAIN journals' : k \in DOMAIN journals \/ k = Len(journals) + 1
    BY <1>4
  <2> QED BY <1>4, <2>1, <2>2, <2>3
<1>6. /\ tab' \in [Tabs -> WorkType]
      /\ \A u \in Tabs : tab'[u] = IF u = t THEN NoWork ELSE tab[u]
  BY <1>2, NoWorkType DEF TypeOK
<1>7. \A u \in Tabs : tab'[u].pc # "idle" => tab'[u].journal \in DOMAIN journals'
  BY <1>4, <1>6, NoWorkType DEF TypeOK, At
<1>8. \A m \in wire' : m.journal \in DOMAIN journals' /\ m.step \in DOMAIN journals'[m.journal].steps
  BY <1>2, <1>4 DEF TypeOK
<1> QED BY <1>2, <1>4, <1>5, <1>6, <1>7, <1>8 DEF TypeOK, At

LEMMA ForkInv ==
  ASSUME ImportInv, NEW t \in Tabs, Fork(t)
  PROVE  ImportInv'
<1>1. PICK j, a, v : j = tab[t].journal /\ a = tab[t].accepted /\ v = tab[t]
  OBVIOUS
<1> DEFINE x == [steps |-> v.steps, accepted |-> 0, initial |-> v.reply,
                 revision |-> v.reply, parent |-> j]
<1>n. PICK n : n = Len(journals) + 1
  OBVIOUS
<1>2. /\ TypeOK /\ j \in DOMAIN journals /\ v \in WorkType /\ v.pc = "fork" /\ WorkOK(v)
      /\ a \in Nat /\ v.journal = j /\ v.accepted = a /\ Accepted(j) = a /\ ~ Successor(j)
      /\ v.steps # <<>> /\ v.reply > v.revision /\ v.reply \in Nat /\ v.revision \in Nat
      /\ Len(v.steps) \in Nat
  <2>1. /\ v.pc = "fork" /\ Accepted(j) = a /\ ~ Successor(j)
        /\ v.steps # <<>> /\ v.reply > v.revision
    BY <1>1 DEF Fork, At, Forkable, Accepted
  <2>2. v.reply \in Nat /\ v.revision \in Nat /\ v.steps \in Seq(StepType)
    BY <1>1, WorkParts DEF ImportInv
  <2> QED BY <1>1, <2>1, <2>2, WorkParts, WorkParts2
<1>3. /\ Reached(j, a, v.revision) /\ v.shown.head <= head /\ v.reply <= head
      /\ Len(v.steps) + a = Len(Steps(j)) /\ TakenOnly(j, a)
  BY <1>2 DEF WorkOK
<1>4. /\ v.revision = Initial(j) + a /\ Ours(v.revision) = Offset(j) + a
      /\ Initial(j) \in Nat /\ head = Len(log) /\ head \in Nat
  <2>1. v.revision = Initial(j) + a /\ Ours(v.revision) = Offset(j) + a
    BY <1>2, <1>3, OursReached
  <2>2. Initial(j) \in Nat
    BY <1>2, JournalParts DEF Initial
  <2>3. head = Len(log) /\ head \in Nat
    BY <1>2 DEF ImportInv, LogOK, TypeOK
  <2> QED BY <2>1, <2>2, <2>3
<1>5. TypeOK'
  BY <1>2, ForkType
<1>6. /\ journals' = Append(journals, x) /\ tab' = [tab EXCEPT ![t] = NoWork]
      /\ UNCHANGED <<at, gone, head, receipts, wire, stops, log, alien>>
  BY <1>1 DEF Fork, server, ghosts
<1>7. /\ x.steps = v.steps /\ x.accepted = 0 /\ x.initial = v.reply /\ x.revision = v.reply
      /\ x.parent = j
  OBVIOUS
<1> HIDE DEF x
<1>8. j = Len(journals) /\ j \in Nat \ {0} /\ n = j + 1 /\ DOMAIN journals = 1 .. j
  BY <1>2, <1>n, LastJournal, JournalParts
<1>9. /\ DOMAIN journals' = 1 .. n
      /\ \A k \in 1 .. j : journals'[k] = journals[k]
      /\ journals'[n] = x
  <2>1. journals \in Seq(JournalType) /\ Len(journals) \in Nat
    BY <1>2 DEF TypeOK
  <2> QED BY <1>6, <1>8, <1>n, <2>1
<1>10. /\ \A k \in 1 .. j : /\ Initial(k)' = Initial(k) /\ Steps(k)' = Steps(k)
                            /\ Accepted(k)' = Accepted(k) /\ Offset(k)' = Offset(k)
                            /\ Initial(k) \in Nat
       /\ Initial(n)' = v.reply /\ Steps(n)' = v.steps /\ Accepted(n)' = 0
       /\ Offset(n)' = Offset(j) + a
  <2>1. \A k \in 1 .. j : Initial(k)' = Initial(k) /\ Steps(k)' = Steps(k) /\ Accepted(k)' = Accepted(k)
    BY <1>9 DEF Initial, Steps, Accepted
  <2>2. Initial(n)' = v.reply /\ Steps(n)' = v.steps /\ Accepted(n)' = 0
    BY <1>7, <1>9 DEF Initial, Steps, Accepted
  <2>3. 1 \in 1 .. j
    BY <1>8
  <2>4. \A k \in 1 .. j : Offset(k)' = Offset(k)
    BY <2>1, <2>3 DEF Offset
  <2>5. \A k \in 1 .. j : Initial(k) \in Nat /\ Len(Steps(k)) \in Nat
    BY <1>2, <1>8, JournalParts DEF Initial, Steps
  <2>6. Offset(n)' = Len(Steps(1)) - Len(v.steps)
    BY <2>1, <2>2, <2>3 DEF Offset
  <2>7. Offset(j) + a = Len(Steps(1)) - Len(v.steps)
    <3>1. Len(Steps(1)) \in Nat /\ Len(Steps(j)) \in Nat /\ Offset(j) = Len(Steps(1)) - Len(Steps(j))
      BY <1>8, <2>3, <2>5 DEF Offset
    <3>2. Len(v.steps) + a = Len(Steps(j)) /\ Len(v.steps) \in Nat /\ a \in Nat
      BY <1>2, <1>3
    <3>3. PICK p, q, r, l : /\ p = Offset(j) /\ q = Len(Steps(1)) /\ r = Len(Steps(j))
                            /\ l = Len(v.steps)
      OBVIOUS
    <3>4. q \in Nat /\ r \in Nat /\ l \in Nat /\ a \in Nat /\ p = q - r /\ l + a = r
      BY <3>1, <3>2, <3>3
    <3>5. p + a = q - l
      BY ONLY <3>4
    <3> QED BY <3>3, <3>5
  <2> QED BY <2>1, <2>2, <2>4, <2>5, <2>6, <2>7
<1>11. /\ \A k \in 1 .. j : \A b, r :
            /\ (Reached(k, b, r) => Reached(k, b, r)')
            /\ (TakenOnly(k, b) => TakenOnly(k, b)')
       /\ \A h : Ours(h)' = Ours(h)
  BY <1>6, <1>10 DEF Reached, IsTaken, HeadAfter, TakenOnly, Ours
<1>12. \A h \in DOMAIN log : log[h] # Other =>
         h \in Nat \ {0} /\ log[h].journal \in 1 .. j /\ h < v.reply
  <2>1. ASSUME NEW h \in DOMAIN log, log[h] # Other
        PROVE  h \in Nat \ {0} /\ log[h].journal \in 1 .. j /\ h < v.reply
    <3>1. PICK k : k = log[h].journal
      OBVIOUS
    <3>2. h \in Nat \ {0}
      BY <1>2, LogParts
    <3>3. /\ k \in 1 .. j /\ (k < j => h < Initial(j))
      BY <1>2, <1>8, <2>1, <3>1 DEF ImportInv, LogOK, WriteOK
    <3>4. k = j => h <= Initial(j) + a
      BY <1>3, <3>1 DEF TakenOnly, HeadAfter
    <3> QED BY <1>2, <1>4, <1>8, <3>1, <3>2, <3>3, <3>4
  <2> QED BY <2>1
\* Since the last step that the parent knows of, nothing of it has been written.
<1>13. Ours(v.reply) = Offset(j) + a
  <2>1. \A h \in DOMAIN log : log[h] # Other => h <= v.revision
    <3>1. ASSUME NEW h \in DOMAIN log, log[h] # Other
          PROVE  h <= v.revision
      <4>1. PICK k : k = log[h].journal
        OBVIOUS
      <4>2. /\ k \in 1 .. j /\ (k < j => h < Initial(j)) /\ h \in Nat
        BY <1>2, <1>8, <1>12, <3>1, <4>1 DEF ImportInv, LogOK, WriteOK
      <4>3. k = j => h <= Initial(j) + a
        BY <1>3, <4>1 DEF TakenOnly, HeadAfter
      <4> QED BY <1>2, <1>4, <1>8, <4>2, <4>3
    <3> QED BY <3>1
  <2>2. DOMAIN log = 1 .. head
    BY <1>2, <1>4, LogParts
  <2>3. {k \in 1 .. v.reply : log[k] # Other} = {k \in 1 .. v.revision : log[k] # Other}
    BY <1>2, <1>3, <1>4, <2>1, <2>2
  <2>4. Ours(v.reply) = Ours(v.revision)
    BY <2>3 DEF Ours
  <2> QED BY <1>4, <2>4
<1>14. LogOK'
  <2>1. ASSUME NEW h \in DOMAIN log, log[h] # Other
        PROVE  WriteOK(log[h].journal, log[h].step, h)'
    <3>1. PICK k, i : k = log[h].journal /\ i = log[h].step
      OBVIOUS
    <3>2. WriteOK(k, i, h) /\ k \in 1 .. j /\ h < v.reply
      BY <1>12, <2>1, <3>1 DEF ImportInv, LogOK
    <3>3. \A l \in DOMAIN journals' : k < l => h < Initial(l)'
      <4>1. \A l \in 1 .. j : k < l => h < Initial(l)
        BY <1>8, <3>2 DEF WriteOK
      <4>2. \A l \in DOMAIN journals' : l \in 1 .. j \/ l = n
        BY <1>8, <1>9
      <4> QED BY <1>10, <3>2, <4>1, <4>2
    <3>4. k \in DOMAIN journals'
      BY <1>8, <1>9, <3>2
    <3>5. WriteOK(k, i, h)'
      BY <1>6, <1>10, <1>11, <3>2, <3>3, <3>4 DEF WriteOK, HeadAfter
    <3>6. k = log'[h].journal /\ i = log'[h].step
      BY <1>6, <3>1
    <3> QED BY <3>5, <3>6 DEF WriteOK, HeadAfter, Initial, Steps, Offset
  <2> QED BY <1>6, <2>1 DEF ImportInv, LogOK
<1>15. ReceiptsOK'
  <2>1. DOMAIN journals \subseteq DOMAIN journals'
    BY <1>8, <1>9
  <2> QED BY <1>6, <2>1 DEF ImportInv, ReceiptsOK
<1>16. \A k \in DOMAIN journals' : k \in 1 .. j \/ k = n
  BY <1>8, <1>9
<1>17. ASSUME NEW k \in DOMAIN journals'
       PROVE  /\ (journals[k].parent = k - 1)' /\ (Initial(k) <= head)'
              /\ (Ours(Initial(k)) = Offset(k))'
              /\ Reached(k, Accepted(k), journals[k].revision)' /\ TakenOnly(k, Accepted(k) + 1)'
  <2>1. PICK i, b, r : i = (Initial(k))' /\ b = (Accepted(k))' /\ r = (journals[k].revision)'
    OBVIOUS
  <2>2. /\ (journals[k].parent = k - 1)' /\ i <= head /\ (Ours(i) = Offset(k))'
        /\ Reached(k, b, r)' /\ TakenOnly(k, b + 1)'
    <3>1. CASE k \in 1 .. j
      <4>1. k \in DOMAIN journals
        BY <1>8, <3>1
      <4>2. /\ journals[k].parent = k - 1 /\ Initial(k) <= head
            /\ Ours(Initial(k)) = Offset(k)
            /\ Reached(k, Accepted(k), journals[k].revision) /\ TakenOnly(k, Accepted(k) + 1)
        BY <4>1 DEF ImportInv, JournalsOK
      <4>3. i = Initial(k) /\ b = Accepted(k) /\ r = journals[k].revision
        BY <1>9, <1>10, <2>1, <3>1
      <4> QED BY <1>9, <1>10, <1>11, <3>1, <4>2, <4>3
    <3>2. CASE k = n
      <4>1. i = v.reply /\ b = 0 /\ r = v.reply /\ (journals[k].parent)' = j
        BY <1>7, <1>9, <1>10, <2>1, <3>2
      <4>2. Reached(k, 0, v.reply)'
        BY <1>2, <1>10, <3>2 DEF Reached, IsTaken, HeadAfter
      <4>3. TakenOnly(k, 0 + 1)'
        <5>1. ASSUME NEW h \in DOMAIN log, log[h].journal = n
              PROVE  FALSE
          <6>1. log[h] # Other
            BY <1>8, <5>1 DEF Other
          <6> QED BY <1>8, <1>12, <5>1, <6>1
        <5> QED BY <1>6, <3>2, <5>1 DEF TakenOnly
      <4> QED BY <1>3, <1>8, <1>10, <1>11, <1>13, <3>2, <4>1, <4>2, <4>3
    <3> QED BY <1>16, <3>1, <3>2
  <2>3. (Ours(Initial(k)) = Offset(k))'
    BY <2>1, <2>2 DEF Ours
  <2>4. Reached(k, Accepted(k), journals[k].revision)' /\ TakenOnly(k, Accepted(k) + 1)'
    BY <2>1, <2>2 DEF Reached, IsTaken, HeadAfter, TakenOnly
  <2> QED BY <1>6, <2>1, <2>2, <2>3, <2>4
<1>18. ASSUME NEW k \in DOMAIN journals', NEW l \in DOMAIN journals', k < l
       PROVE  TakenOnly(k, Accepted(k))' /\ (Initial(k) < Initial(l))'
  <2>1. k \in 1 .. j /\ k \in DOMAIN journals
    BY <1>8, <1>9, <1>16, <1>18
  <2>2. PICK b : b = Accepted(k) /\ b = (Accepted(k))'
    BY <1>10, <2>1
  <2>3. k # j => TakenOnly(k, b) /\ Initial(k) < Initial(j)
    <3>1. k # j => k < j
      BY <1>8, <2>1
    <3> QED BY <1>2, <2>1, <2>2, <3>1 DEF ImportInv, JournalsOK
  <2>4. TakenOnly(k, b) /\ Initial(k) <= Initial(j)
    BY <1>2, <1>3, <1>8, <1>10, <2>1, <2>2, <2>3
  <2>5. Initial(k) < v.reply
    BY <1>2, <1>4, <1>10, <2>1, <2>4
  <2>6. (Initial(k) < Initial(l))'
    <3>1. CASE l = n
      BY <1>10, <2>1, <2>5, <3>1
    <3>2. CASE l \in 1 .. j
      <4>1. Initial(k) < Initial(l)
        BY <1>8, <1>18, <2>1, <3>2 DEF ImportInv, JournalsOK
      <4> QED BY <1>10, <2>1, <3>2, <4>1
    <3> QED BY <1>16, <3>1, <3>2
  <2>7. TakenOnly(k, b)'
    BY <1>11, <2>1, <2>4
  <2> QED BY <2>2, <2>6, <2>7 DEF TakenOnly, HeadAfter
<1>19. JournalsOK'
  <2>1. journals' # <<>>
    BY <1>8, <1>9
  <2> QED BY <1>17, <1>18, <2>1 DEF JournalsOK
<1>20. WireOK'
  <2>1. ASSUME NEW m \in wire
        PROVE  (m.step - 1 <= Accepted(m.journal))' /\ Reached(m.journal, m.step - 1, m.guard)'
    <3>1. m.step - 1 <= Accepted(m.journal) /\ Reached(m.journal, m.step - 1, m.guard)
      BY DEF ImportInv, WireOK
    <3>2. m.journal \in 1 .. j
      BY <1>2, <1>8 DEF TypeOK
    <3> QED BY <1>10, <1>11, <3>1, <3>2
  <2> QED BY <1>6, <2>1 DEF WireOK
<1>21. ASSUME NEW u \in Tabs
       PROVE  TabOK(u)'
  <2>1. PICK y : y = IF u = t THEN NoWork ELSE tab[u]
    OBVIOUS
  <2>2. tab'[u] = y
    BY <1>2, <1>6, <2>1 DEF TypeOK
  <2>3. y \in WorkType /\ WorkOK(y) /\ (y.pc # "idle" => y.journal \in 1 .. j)
    BY <1>2, <1>8, <2>1, WorkParts, WorkParts2, IdleOK
  <2>4. WorkOK(y)'
    <3>1. CASE y.pc \in {"idle", "shown"}
      BY <1>6, <2>3, <3>1 DEF WorkOK
    <3>2. CASE y.pc \notin {"idle", "shown"}
      <4>1. y.journal \in 1 .. j
        BY <2>3, <3>2
      <4> QED BY <1>6, <1>10, <1>11, <2>3, <4>1 DEF WorkOK
    <3> QED BY <3>1, <3>2
  <2> QED BY <2>2, <2>4 DEF TabOK
<1> QED BY <1>5, <1>14, <1>15, <1>19, <1>20, <1>21 DEF ImportInv

LEMMA PrepareInv ==
  ASSUME ImportInv, NEW copies \in Selections, Prepare(copies)
  PROVE  ImportInv'
<1>1. PICK x, h : /\ x = [steps |-> Plan(copies), accepted |-> 0, initial |-> head,
                          revision |-> head, parent |-> 0]
                  /\ h = head
  OBVIOUS
<1>2. /\ TypeOK /\ TypeOK' /\ journals = <<>> /\ journals' = <<x>>
      /\ UNCHANGED <<at, gone, head, receipts, wire, tab, stops, log, alien>>
  BY <1>1, PrepareType DEF ImportInv, Prepare, server, ghosts
<1>3. log = <<>> /\ head = 0
  BY <1>2 DEF ImportInv, JournalsOK, LogOK
<1>4. DOMAIN log = {} /\ DOMAIN journals = {} /\ DOMAIN journals' = {1} /\ journals'[1] = x
  BY <1>2, <1>3
<1>5. receipts = {} /\ wire = {}
  BY <1>4 DEF ImportInv, ReceiptsOK, TypeOK
<1>6. \A t \in Tabs : tab[t].pc = "idle" /\ tab[t].shown.head <= head
  BY <1>4 DEF ImportInv, TypeOK, At, TabOK, WorkOK
<1>7. LogOK' /\ ReceiptsOK' /\ WireOK'
  BY <1>2, <1>3, <1>4, <1>5 DEF LogOK, ReceiptsOK, WireOK
<1>8. JournalsOK'
  <2>1. /\ (journals[1].parent = 1 - 1)' /\ Initial(1)' = 0 /\ Accepted(1)' = 0
        /\ (journals[1].revision)' = 0 /\ Offset(1)' = 0
    <3>1. x.parent = 0 /\ x.initial = 0 /\ x.revision = 0 /\ x.accepted = 0
      BY <1>1, <1>3
    <3>2. x \in JournalType
      BY <1>2, <1>4 DEF TypeOK
    <3>3. Len(x.steps) \in Nat /\ Len(x.steps) - Len(x.steps) = 0
      BY <3>2 DEF JournalType
    <3> QED BY <1>4, <3>1, <3>3 DEF Initial, Accepted, Offset, Steps
  <2>2. Ours(0)' = 0
    <3>1. {k \in 1 .. 0 : log'[k] # Other} = {}
      OBVIOUS
    <3> QED BY <3>1, FS_EmptySet DEF Ours
  <2>3. Reached(1, 0, 0)' /\ TakenOnly(1, 0 + 1)'
    BY <1>2, <1>4, <2>1 DEF Reached, IsTaken, HeadAfter, TakenOnly
  <2>4. /\ (Ours(Initial(1)) = Offset(1))' /\ Reached(1, Accepted(1), journals[1].revision)'
        /\ TakenOnly(1, Accepted(1) + 1)'
    BY <2>1, <2>2, <2>3 DEF Ours, Reached, IsTaken, HeadAfter, TakenOnly
  <2>5. journals' # <<>> /\ \A j \in DOMAIN journals' : j = 1
    BY <1>4
  <2> QED BY <1>2, <1>3, <2>1, <2>4, <2>5 DEF JournalsOK
<1>9. \A t \in Tabs : TabOK(t)'
  BY <1>2, <1>6 DEF TabOK, WorkOK
<1> QED BY <1>2, <1>7, <1>8, <1>9 DEF ImportInv

LEMMA InitInv ==
  ASSUME Init
  PROVE  ImportInv
<1>1. /\ journals = <<>> /\ log = <<>> /\ head = 0 /\ receipts = {} /\ wire = {}
      /\ \A t \in Tabs : tab[t] = NoWork
  BY DEF Init
<1>2. DOMAIN journals = {} /\ DOMAIN log = {} /\ Len(log) = 0
  BY <1>1
<1>3. at \in [Ids \X Parts -> Nat]
  <2>1. at = [row \in Ids \X Parts |-> IF row[1] \in Orders /\ row[2] = "ENTITY" THEN 1 ELSE 0]
    BY DEF Init
  <2>2. \A row \in Ids \X Parts :
          (IF row[1] \in Orders /\ row[2] = "ENTITY" THEN 1 ELSE 0) \in Nat
    OBVIOUS
  <2> QED BY <2>1, <2>2
<1>4. TypeOK
  BY <1>1, <1>2, <1>3, NoWorkType DEF Init, TypeOK, At
<1>5. NoWork.shown.head = 0
  BY DEF NoWork, NoReview
<1> QED BY <1>1, <1>2, <1>4, <1>5, NoWorkType
        DEF ImportInv, LogOK, ReceiptsOK, JournalsOK, WireOK, TabOK, WorkOK

LEMMA NextInv ==
  ASSUME ImportInv, [Next]_vars
  PROVE  ImportInv'
<1>1. ASSUME NEW copies \in Selections, Prepare(copies)
      PROVE  ImportInv'
  BY <1>1, PrepareInv
<1>2. ASSUME NEW t \in Tabs, TabStep(t)
      PROVE  ImportInv'
  <2>1. /\ tab[t].shown.head <= head /\ tab[t].shown \in [accepted : Nat, head : Nat]
        /\ NoReview \in [accepted : Nat, head : Nat] /\ NoReview.head <= head
        /\ stops \in Nat /\ (tab[t].pc # "idle" => tab[t].journal \in DOMAIN journals)
    BY IdleOK, WorkParts, WorkParts2 DEF ImportInv, WorkOK, TypeOK
  <2>2. ASSUME NEW j \in DOMAIN journals, Continue(t, j) \/ Review(t, j)
        PROVE  ImportInv'
    BY <2>1, <2>2, BeginInv DEF Continue, Review
  <2>3. ASSUME Rebase(t)
        PROVE  ImportInv'
    <3>1. tab[t].journal \in DOMAIN journals
      BY <2>1, <2>3 DEF Rebase, At
    <3> QED BY <2>1, <2>3, <3>1, BeginInv DEF Rebase
  <2>4. ASSUME Finished(t) \/ Stop(t)
        PROVE  ImportInv'
    <3>1. /\ tab' = [tab EXCEPT ![t] = NoWork] /\ stops' \in Nat
          /\ UNCHANGED <<journals, server, wire, ghosts>>
      BY <2>1, <2>4 DEF Finished, Stop
    <3> QED BY <3>1, IdleInv
  <2> QED BY <1>2, <2>2, <2>3, <2>4, SendInv, AdvanceInv, LookupInv, NoReceiptInv,
             ShowReviewInv, PrepareForkInv, ForkInv DEF TabStep
<1>3. ASSUME NEW m \in wire, Accept(m) \/ Replay(m) \/ RefuseRequest(m)
      PROVE  ImportInv'
  BY <1>3, AcceptInv, ReplayInv, RefuseInv
<1>4. ASSUME Others
      PROVE  ImportInv'
  BY <1>4, OthersInv
<1>5. ASSUME UNCHANGED vars
      PROVE  ImportInv'
  <2>1. UNCHANGED <<journals, at, gone, head, receipts, wire, tab, stops, log, alien>>
    BY <1>5 DEF vars, server, ghosts
  <2>2. TypeOK'
    BY <2>1 DEF ImportInv, TypeOK, At
  <2>3. LogOK' /\ ReceiptsOK' /\ JournalsOK'
    BY <2>1, StoredSame
  <2>4. WireOK'
    BY <2>1 DEF ImportInv, WireOK, Accepted, Reached, IsTaken, HeadAfter, Initial
  <2>5. ASSUME NEW t \in Tabs
        PROVE  TabOK(t)'
    <3>1. PICK x : x = tab[t] /\ tab'[t] = x
      BY <2>1
    <3>2. WorkOK(x)
      BY <3>1 DEF ImportInv, TabOK
    <3>3. WorkOK(x)'
      BY <2>1, <3>2, WorkSame
    <3> QED BY <3>1, <3>3 DEF TabOK
  <2> QED BY <2>2, <2>3, <2>4, <2>5 DEF ImportInv
<1> QED BY <1>1, <1>2, <1>3, <1>4, <1>5 DEF Next

-----------------------------------------------------------------------------
(* The theorems. *)

\* The invariant holds of every instance of the import.
THEOREM ImportInvariant == Spec => []ImportInv
<1>1. Init => ImportInv
  BY InitInv
<1>2. ImportInv /\ [Next]_vars => ImportInv'
  BY NextInv
<1> QED BY <1>1, <1>2, PTL DEF Spec

\* Every variable keeps its type.
THEOREM TypeCorrect == Spec => []TypeOK
<1>1. ImportInv => TypeOK
  BY DEF ImportInv
<1> QED BY <1>1, ImportInvariant, PTL

\* Whatever is sent again, recovered or forked, the steps of the plan are taken in
\* their order and each of them once.
THEOREM OnceInOrder == Spec => []StepsOnceInOrder
<1>1. ASSUME ImportInv
      PROVE  StepsOnceInOrder
  <2>1. ASSUME NEW h \in DOMAIN log, log[h] # Other
        PROVE  PlanStep(log[h]) = Cardinality({k \in 1 .. h : log[k] # Other})
    BY <1>1, <2>1 DEF ImportInv, LogOK, WriteOK, PlanStep, Whole, Ours, Offset, Steps
  <2> QED BY <2>1 DEF StepsOnceInOrder
<1> QED BY <1>1, ImportInvariant, PTL

\* Nobody else has written between the review that a journal starts from and its
\* last step in the destination.
THEOREM HeadReviewed == Spec => []ReviewedHead
<1>1. ImportInv => ReviewedHead
  BY DEF ImportInv, LogOK, WriteOK, ReviewedHead, Initial
<1> QED BY <1>1, ImportInvariant, PTL

\* No two journals continue the same one.
THEOREM ForksChain == Spec => []OneChain
<1>1. ASSUME ImportInv
      PROVE  OneChain
  <2>1. ASSUME NEW j \in DOMAIN journals, NEW k \in DOMAIN journals,
               journals[j].parent = journals[k].parent
        PROVE  j = k
    <3>1. journals[j].parent = j - 1 /\ journals[k].parent = k - 1
      BY <1>1 DEF ImportInv, JournalsOK
    <3>2. j \in Nat /\ k \in Nat
      BY <1>1, JournalParts DEF ImportInv
    <3>3. j - 1 = k - 1
      BY <2>1, <3>1
    <3> QED BY ONLY <3>2, <3>3
  <2> QED BY <2>1 DEF OneChain
<1> QED BY <1>1, ImportInvariant, PTL

\* The steps that the destination has taken for a journal are an interval of heads.
LEMMA DoneCount ==
  ASSUME ImportInv, NEW j \in DOMAIN journals, NEW a \in Nat, NEW rev, Reached(j, a, rev),
         NEW b \in Nat, a <= b, TakenOnly(j, b), b <= a + 1
  PROVE  Done(j) \in {a, b}
<1> DEFINE E == {h \in DOMAIN log : log[h].journal = j}
<1>1. /\ TypeOK /\ Initial(j) \in Nat /\ rev = Initial(j) + a /\ DOMAIN log = 1 .. Len(log)
      /\ Len(log) \in Nat /\ j # 0 /\ rev <= Len(log)
      /\ \A g \in Initial(j) + 1 .. rev : log[g].journal = j
  <2>1. TypeOK /\ head = Len(log)
    BY DEF ImportInv, LogOK
  <2> QED BY <2>1, OursReached, LogParts, JournalParts DEF Initial
<1>2. \A h \in E : h \in Initial(j) + 1 .. Initial(j) + b
  <2>1. ASSUME NEW h \in E
        PROVE  h \in Initial(j) + 1 .. Initial(j) + b
    <3>1. h <= Initial(j) + b
      BY DEF TakenOnly, HeadAfter
    <3>2. log[h] # Other
      BY <1>1, LogParts
    <3>3. Initial(j) < h
      BY <3>2 DEF ImportInv, LogOK, WriteOK
    <3> QED BY <1>1, <3>1, <3>3
  <2> QED BY <2>1
<1>3. Initial(j) + 1 .. Initial(j) + a \subseteq E
  BY <1>1
<1> HIDE DEF E
<1>4. PICK i \in Nat : i = Initial(j)
  BY <1>1
<1>5. E \in {i + 1 .. i + a, i + 1 .. i + b}
  <2>1. b = a \/ b = a + 1
    OBVIOUS
  <2>2. /\ \A h \in E : h \in i + 1 .. i + b
        /\ \A h \in i + 1 .. i + a : h \in E
    BY <1>2, <1>3, <1>4
  <2>3. CASE b = a
    <3>1. E = i + 1 .. i + a
      BY <2>2, <2>3
    <3> QED BY <3>1
  <2>4. CASE b = a + 1
    <3>1. i + 1 .. i + b = (i + 1 .. i + a) \cup {i + b}
      BY <2>4
    <3>2. E = IF i + b \in E THEN i + 1 .. i + b ELSE i + 1 .. i + a
      BY <2>2, <3>1
    <3> QED BY <3>2
  <2> QED BY <2>1, <2>3, <2>4
<1>7. Cardinality(i + 1 .. i + a) = a /\ Cardinality(i + 1 .. i + b) = b
  <2>1. ASSUME NEW c \in Nat
        PROVE  Cardinality(i + 1 .. i + c) = c
    <3>1. i + 1 \in Int /\ i + c \in Int
      OBVIOUS
    <3>2. Cardinality(i + 1 .. i + c) = IF i + 1 > i + c THEN 0 ELSE (i + c) - (i + 1) + 1
      BY <3>1, FS_Interval
    <3> QED BY <3>2
  <2> QED BY <2>1
<1>6. Done(j) = Cardinality(E)
  BY DEF Done, E
<1> QED BY <1>5, <1>6, <1>7

\* A journal knows of every step that the destination has taken for it, but for the
\* one that may be under way; once it is forked, of all of them.
THEOREM JournalsKnow == Spec => []JournalKnows
<1>1. ASSUME ImportInv
      PROVE  JournalKnows
  <2>1. ASSUME NEW j \in DOMAIN journals
        PROVE  /\ journals[j].accepted <= Done(j) /\ Done(j) <= journals[j].accepted + 1
               /\ Successor(j) => Done(j) = journals[j].accepted
    <3>1. /\ Accepted(j) \in Nat /\ Accepted(j) = journals[j].accepted /\ j \in Nat
          /\ Reached(j, Accepted(j), journals[j].revision) /\ TakenOnly(j, Accepted(j) + 1)
      BY <1>1, JournalParts DEF ImportInv, JournalsOK, Accepted
    <3>2. Done(j) \in {Accepted(j), Accepted(j) + 1}
      BY <1>1, <3>1, DoneCount
    <3>3. ASSUME Successor(j)
          PROVE  Done(j) = Accepted(j)
      <4>1. PICK k \in DOMAIN journals : journals[k].parent = j
        BY <3>3 DEF Successor
      <4>2. j < k
        <5>1. k \in Nat /\ journals[k].parent = k - 1
          BY <1>1, JournalParts DEF ImportInv, JournalsOK
        <5> QED BY <3>1, <4>1, <5>1
      <4>3. TakenOnly(j, Accepted(j))
        BY <1>1, <4>2 DEF ImportInv, JournalsOK
      <4>4. Done(j) \in {Accepted(j), Accepted(j)}
        BY <1>1, <3>1, <4>3, DoneCount
      <4> QED BY <4>4
    <3> QED BY <3>1, <3>2, <3>3
  <2> QED BY <2>1 DEF JournalKnows
<1> QED BY <1>1, ImportInvariant, PTL

-----------------------------------------------------------------------------
(* Lists: how they are flattened, which members are kept, and induction over
   them. *)

\* FlattenSeq joins one list after the other to those before it.
LEMMA FlattenIs ==
  ASSUME NEW S, NEW seqs \in Seq(Seq(S)), Len(seqs) # 0
  PROVE  \E f \in [1 .. Len(seqs) -> Seq(S)] :
           /\ \A i \in 1 .. Len(seqs) : f[i] = IF i = 1 THEN seqs[i] ELSE f[i-1] \o seqs[i]
           /\ FlattenSeq(seqs) = f[Len(seqs)]
<1> DEFINE n == Len(seqs)
           Is(f) == f = [i \in 1 .. n |-> IF i = 1 THEN seqs[i] ELSE f[i-1] \o seqs[i]]
           c == CHOOSE f : Is(f)
<1>1. FlattenSeq(seqs) = c[n]
  BY DEF FlattenSeq
<1>2. PICK g \in [1 .. n -> Seq(S)] :
        \A i \in 1 .. n : g[i] = IF i = 1 THEN seqs[i] ELSE g[i-1] \o seqs[i]
  BY FlattenExists
<1>3. Is(g)
  BY <1>2
<1>4. Is(c)
  BY <1>3
<1> HIDE DEF c
<1>5. \A i \in 1 .. n : c[i] = IF i = 1 THEN seqs[i] ELSE c[i-1] \o seqs[i]
  BY <1>4
<1> DEFINE N == {m \in Nat : m \in 1 .. n => c[m] = g[m]}
<1>6. 0 \in N
  OBVIOUS
<1>7. ASSUME NEW m \in Nat, m \in N PROVE m + 1 \in N
  <2> SUFFICES ASSUME m + 1 \in 1 .. n PROVE c[m + 1] = g[m + 1]
    OBVIOUS
  <2>1. PICK i \in 1 .. n : i = m + 1
    OBVIOUS
  <2>2. i # 1 => i - 1 = m /\ m \in 1 .. n
    BY <2>1
  <2>3. i # 1 => c[i - 1] = g[i - 1]
    BY <1>7, <2>2
  <2>4. c[i] = IF i = 1 THEN seqs[i] ELSE c[i-1] \o seqs[i]
    BY <1>5
  <2>5. g[i] = IF i = 1 THEN seqs[i] ELSE g[i-1] \o seqs[i]
    BY <1>2
  <2> HIDE DEF n
  <2> QED BY <2>1, <2>3, <2>4, <2>5
<1>8. Nat \subseteq N
  <2> HIDE DEF N
  <2> QED BY <1>6, <1>7, NatSet
<1>9. n \in Nat /\ n \in 1 .. n
  OBVIOUS
<1>10. c[n] = g[n]
  BY <1>8, <1>9
<1> QED BY <1>1, <1>2, <1>10

\* The empty list of lists, and one list more.
LEMMA FlattenNone == ASSUME NEW seqs, Len(seqs) = 0 PROVE FlattenSeq(seqs) = seqs
BY DEF FlattenSeq

LEMMA FlattenMore ==
  ASSUME NEW S, NEW seqs \in Seq(Seq(S)), NEW q \in Seq(S)
  PROVE  FlattenSeq(Append(seqs, q)) = FlattenSeq(seqs) \o q
<1> DEFINE n == Len(seqs)
           more == Append(seqs, q)
<1>1. more \in Seq(Seq(S)) /\ Len(more) = n + 1 /\ Len(more) # 0 /\ n \in Nat
  OBVIOUS
<1>2. more[n + 1] = q /\ \A i \in 1 .. n : more[i] = seqs[i]
  OBVIOUS
<1> HIDE DEF more
<1> HIDE DEF n
<1>3. PICK g \in [1 .. n + 1 -> Seq(S)] :
        /\ \A i \in 1 .. n + 1 : g[i] = IF i = 1 THEN more[i] ELSE g[i-1] \o more[i]
        /\ FlattenSeq(more) = g[n + 1]
  <2>1. \E g \in [1 .. Len(more) -> Seq(S)] :
           /\ \A i \in 1 .. Len(more) : g[i] = IF i = 1 THEN more[i] ELSE g[i-1] \o more[i]
           /\ FlattenSeq(more) = g[Len(more)]
    BY <1>1, FlattenIs
  <2> QED BY <1>1, <2>1
<1>4. CASE n = 0
  <2>1. FlattenSeq(seqs) = <<>>
    BY <1>4, FlattenNone DEF n
  <2>2. g[1] = more[1]
    BY <1>3, <1>4
  <2> QED BY <1>2, <1>3, <1>4, <2>1, <2>2 DEF more
<1>5. CASE n # 0
  <2>1. PICK f \in [1 .. n -> Seq(S)] :
          /\ \A i \in 1 .. n : f[i] = IF i = 1 THEN seqs[i] ELSE f[i-1] \o seqs[i]
          /\ FlattenSeq(seqs) = f[n]
    BY <1>5, FlattenIs DEF n
  <2> DEFINE N == {m \in Nat : m \in 1 .. n => g[m] = f[m]}
  <2>2. 0 \in N
    OBVIOUS
  <2>3. ASSUME NEW m \in Nat, m \in N PROVE m + 1 \in N
    <3> SUFFICES ASSUME m + 1 \in 1 .. n PROVE g[m + 1] = f[m + 1]
      OBVIOUS
    <3>1. PICK i \in 1 .. n : i = m + 1
      OBVIOUS
    <3>2. i # 1 => i - 1 = m /\ m \in 1 .. n
      BY <1>1, <3>1
    <3>3. i # 1 => g[i - 1] = f[i - 1]
      BY <2>3, <3>2
    <3>4. f[i] = IF i = 1 THEN seqs[i] ELSE f[i-1] \o seqs[i]
      BY <2>1
    <3>5. i \in 1 .. n + 1
      BY <1>1
    <3>6. g[i] = IF i = 1 THEN more[i] ELSE g[i-1] \o more[i]
      BY <1>3, <3>5
    <3>7. more[i] = seqs[i]
      BY <1>2
    <3> QED BY <3>1, <3>3, <3>4, <3>6, <3>7
  <2>4. Nat \subseteq N
    <3> HIDE DEF N
    <3> QED BY <2>2, <2>3, NatSet
  <2>5. n \in Nat /\ n \in 1 .. n
    BY <1>1, <1>5
  <2>6. g[n] = f[n]
    BY <2>4, <2>5
  <2>7. PICK i \in 1 .. n + 1 : i = n + 1 /\ i # 1 /\ i - 1 = n
    BY <1>1, <1>5
  <2>8. g[i] = g[i - 1] \o more[i]
    BY <1>3, <2>7
  <2> QED BY <1>2, <1>3, <2>1, <2>6, <2>7, <2>8 DEF more
<1> QED BY <1>4, <1>5

\* Induction over lists, for a set of them.
LEMMA ListSet ==
  ASSUME NEW S, NEW T, <<>> \in T,
         \A q \in Seq(S), x \in S : q \in T => Append(q, x) \in T
  PROVE  Seq(S) \subseteq T
<1> DEFINE N == {n \in Nat : \A q \in Seq(S) : Len(q) = n => q \in T}
<1>1. 0 \in N
  <2>1. \A q \in Seq(S) : Len(q) = 0 => q = <<>>
    OBVIOUS
  <2> QED BY <2>1
<1>2. ASSUME NEW n \in Nat, n \in N PROVE n + 1 \in N
  <2> SUFFICES ASSUME NEW q \in Seq(S), Len(q) = n + 1 PROVE q \in T
    OBVIOUS
  <2> DEFINE r == SubSeq(q, 1, n)
  <2>1. r \in Seq(S) /\ Len(r) = n /\ q[n + 1] \in S
    OBVIOUS
  <2>2. q = Append(r, q[n + 1])
    OBVIOUS
  <2>3. r \in T
    BY <1>2, <2>1
  <2> QED BY <2>1, <2>2, <2>3
<1>3. Nat \subseteq N
  <2> HIDE DEF N
  <2> QED BY <1>1, <1>2, NatSet
<1> QED BY <1>3

-----------------------------------------------------------------------------
(* Lists of copies: their filters and their order. *)

\* The copies of a list have identities of their own; those of a list that are in P.
Distinct(q) == \A i, k \in DOMAIN q : q[i].id = q[k].id => i = k
Kept(q, P) == FlattenSeq([i \in DOMAIN q |-> IF q[i] \in P THEN <<q[i]>> ELSE <<>>])

\* One member more, for Range, Distinct, Each and Kept.
LEMMA RangeMore ==
  ASSUME NEW S, NEW q \in Seq(S), NEW x \in S
  PROVE  Range(Append(q, x)) = Range(q) \cup {x}
<1>1. /\ DOMAIN Append(q, x) = 1 .. Len(q) + 1 /\ DOMAIN q = 1 .. Len(q) /\ Len(q) \in Nat
      /\ \A i \in 1 .. Len(q) : Append(q, x)[i] = q[i]
      /\ Append(q, x)[Len(q) + 1] = x
  OBVIOUS
<1>2. 1 .. Len(q) + 1 = 1 .. Len(q) \cup {Len(q) + 1}
  BY <1>1
<1> QED BY <1>1, <1>2 DEF Range

LEMMA DistinctMore ==
  ASSUME NEW S, NEW q \in Seq(S), NEW x \in S
  PROVE  Distinct(Append(q, x)) <=> Distinct(q) /\ \A c \in Range(q) : c.id # x.id
<1>1. /\ DOMAIN Append(q, x) = 1 .. Len(q) + 1 /\ DOMAIN q = 1 .. Len(q) /\ Len(q) \in Nat
      /\ \A i \in 1 .. Len(q) : Append(q, x)[i] = q[i]
      /\ Append(q, x)[Len(q) + 1] = x
  OBVIOUS
<1>2. 1 .. Len(q) + 1 = 1 .. Len(q) \cup {Len(q) + 1} /\ Len(q) + 1 \notin 1 .. Len(q)
  BY <1>1
<1>3. \A c \in Range(q) : \E i \in 1 .. Len(q) : c = q[i]
  BY <1>1 DEF Range
<1>4. \A i \in 1 .. Len(q) : q[i] \in Range(q)
  BY <1>1 DEF Range
<1>5. ASSUME Distinct(Append(q, x)) PROVE Distinct(q) /\ \A c \in Range(q) : c.id # x.id
  BY <1>1, <1>2, <1>3, <1>5 DEF Distinct
<1>6. ASSUME Distinct(q), \A c \in Range(q) : c.id # x.id PROVE Distinct(Append(q, x))
  BY <1>1, <1>2, <1>4, <1>6 DEF Distinct
<1> QED BY <1>5, <1>6

\* The lists that a function makes of the members of a list, one after the other.
Each(F, q) == FlattenSeq([i \in DOMAIN q |-> F[q[i]]])

LEMMA EachMore ==
  ASSUME NEW S, NEW T, NEW F \in [S -> Seq(T)], NEW q \in Seq(S), NEW x \in S
  PROVE  Each(F, Append(q, x)) = Each(F, q) \o F[x]
<1> DEFINE n == Len(q)
           r == Append(q, x)
           f == [i \in 1 .. n |-> F[q[i]]]
           g == [i \in 1 .. n + 1 |-> F[r[i]]]
<1>1. /\ DOMAIN r = 1 .. n + 1 /\ DOMAIN q = 1 .. n /\ n \in Nat
      /\ \A i \in 1 .. n : r[i] = q[i] /\ q[i] \in S
      /\ r[n + 1] = x
  OBVIOUS
<1> HIDE DEF r
<1>2. Each(F, q) = FlattenSeq(f) /\ Each(F, r) = FlattenSeq(g)
  BY <1>1 DEF Each
<1>3. f \in Seq(Seq(T)) /\ Len(f) = n
  BY <1>1
<1>4. Append(f, F[x]) = [i \in 1 .. n + 1 |-> IF i = n + 1 THEN F[x] ELSE f[i]]
  BY <1>1, <1>3
<1>5. ASSUME NEW i \in 1 .. n + 1
      PROVE  g[i] = IF i = n + 1 THEN F[x] ELSE f[i]
  BY <1>1
<1>6. g = Append(f, F[x])
  <2> HIDE DEF f
  <2> QED BY <1>4, <1>5
<1> HIDE DEF f, g
<1>7. FlattenSeq(Append(f, F[x])) = FlattenSeq(f) \o F[x]
  BY <1>3, FlattenMore
<1> QED BY <1>2, <1>6, <1>7 DEF r

LEMMA KeptMore ==
  ASSUME NEW S, NEW q \in Seq(S), NEW x \in S, NEW P
  PROVE  Kept(Append(q, x), P) = Kept(q, P) \o (IF x \in P THEN <<x>> ELSE <<>>)
<1> DEFINE F == [c \in S |-> IF c \in P THEN <<c>> ELSE <<>>]
<1>1. ASSUME NEW p \in Seq(S) PROVE Kept(p, P) = Each(F, p)
  <2>1. \A i \in DOMAIN p : p[i] \in S
    OBVIOUS
  <2>2. [i \in DOMAIN p |-> F[p[i]]] = [i \in DOMAIN p |-> IF p[i] \in P THEN <<p[i]>> ELSE <<>>]
    BY <2>1
  <2> QED BY <2>2 DEF Each, Kept
<1>2. F \in [S -> Seq(S)]
  OBVIOUS
<1>3. F[x] = (IF x \in P THEN <<x>> ELSE <<>>) /\ Append(q, x) \in Seq(S)
  OBVIOUS
<1> HIDE DEF F
<1>4. Each(F, Append(q, x)) = Each(F, q) \o F[x]
  BY <1>2, EachMore
<1> QED BY <1>1, <1>3, <1>4

\* What is kept are the members that are in P.
LEMMA KeptAre ==
  ASSUME NEW S, NEW q \in Seq(S), NEW P
  PROVE  /\ Kept(q, P) \in Seq(S)
         /\ Range(Kept(q, P)) = Range(q) \cap P
         /\ Distinct(q) => Distinct(Kept(q, P))
<1> DEFINE Good(p) == /\ Range(Kept(p, P)) = Range(p) \cap P
                      /\ Distinct(p) => Distinct(Kept(p, P))
           T == {p \in Seq(S) : Good(p)}
<1>0. \A p \in Seq(S) : Kept(p, P) \in Seq(S)
  BY FilterType DEF Kept
<1>1. <<>> \in T
  <2>1. Kept(<<>>, P) = <<>>
    BY FlattenNone DEF Kept
  <2>2. Range(<<>>) = {} /\ Distinct(<<>>)
    BY DEF Range, Distinct
  <2> QED BY <2>1, <2>2
<1>2. ASSUME NEW p \in Seq(S), NEW x \in S, p \in T PROVE Append(p, x) \in T
  <2>1. Append(p, x) \in Seq(S) /\ Kept(p, P) \in Seq(S)
    BY <1>0
  <2>2. Kept(Append(p, x), P) = Kept(p, P) \o (IF x \in P THEN <<x>> ELSE <<>>)
    BY KeptMore
  <2>3. Kept(Append(p, x), P) = IF x \in P THEN Append(Kept(p, P), x) ELSE Kept(p, P)
    BY <2>1, <2>2
  <2>4. Range(Append(p, x)) = Range(p) \cup {x} /\ Range(Append(Kept(p, P), x)) = Range(Kept(p, P)) \cup {x}
    BY <2>1, RangeMore
  <2>5. /\ Distinct(Append(p, x)) <=> Distinct(p) /\ \A c \in Range(p) : c.id # x.id
        /\ Distinct(Append(Kept(p, P), x)) <=>
             Distinct(Kept(p, P)) /\ \A c \in Range(Kept(p, P)) : c.id # x.id
    BY <2>1, DistinctMore
  <2>6. Good(p)
    BY <1>2
  <2>7. Good(Append(p, x))
    BY <2>3, <2>4, <2>5, <2>6
  <2> QED BY <2>1, <2>7
<1>3. Seq(S) \subseteq T
  <2> HIDE DEF T
  <2> QED BY <1>1, <1>2, ListSet
<1> QED BY <1>0, <1>3

-----------------------------------------------------------------------------
(* Orders: a list of copies in which none comes before what it belongs to. *)

\* The members of a list, and how many there are when they are distinct.
LEMMA RangeIs ==
  ASSUME NEW S, NEW q \in Seq(S)
  PROVE  /\ \A c : c \in Range(q) <=> \E i \in 1 .. Len(q) : q[i] = c
         /\ DOMAIN q = 1 .. Len(q) /\ Len(q) \in Nat /\ Range(q) \subseteq S
<1>1. DOMAIN q = 1 .. Len(q) /\ Len(q) \in Nat /\ \A i \in 1 .. Len(q) : q[i] \in S
  OBVIOUS
<1> QED BY <1>1 DEF Range

LEMMA RangeSize ==
  ASSUME NEW S, NEW q \in Seq(S), Distinct(q)
  PROVE  IsFiniteSet(Range(q)) /\ Cardinality(Range(q)) = Len(q)
<1>1. DOMAIN q = 1 .. Len(q) /\ Len(q) \in Nat /\ q \in [1 .. Len(q) -> Range(q)]
  BY DEF Range
<1>2. q \in Surjection(1 .. Len(q), Range(q))
  BY <1>1 DEF Surjection, Range
<1>3. q \in Injection(1 .. Len(q), Range(q))
  BY <1>1 DEF Injection, IsInjective, Distinct
<1>4. IsFiniteSet(1 .. Len(q)) /\ Cardinality(1 .. Len(q)) = Len(q)
  BY <1>1, FS_Interval
<1> QED BY <1>2, <1>3, <1>4, FS_Surjection

\* A part of an order: some of the copies, none before what it belongs to.
Ordered(copies, p) ==
  /\ Range(p) \subseteq Range(copies) /\ Distinct(p)
  /\ \A i \in DOMAIN p : \A d \in Range(copies) :
       d.id = p[i].under => \E k \in 1 .. i - 1 : p[k].id = d.id

\* A round of InOrder takes only copies whose owners are taken.
LEMMA TakenOrdered ==
  ASSUME NEW copies \in Seq(CopyType), Distinct(copies), NEW p \in Seq(CopyType),
         Ordered(copies, p)
  PROVE  Ordered(copies, Taken(copies, p))
<1> DEFINE ids == {d.id : d \in Range(copies) \ Range(p)}
           P == {c \in CopyType : c \notin Range(p) /\ c.under \notin ids}
<1> HIDE DEF CopyType
<1>1. Ready(copies, p) = Kept(copies, P)
  <2>1. [i \in DOMAIN copies |->
           IF copies[i] \notin Range(p) /\ copies[i].under \notin ids
           THEN <<copies[i]>> ELSE <<>>]
        = [i \in DOMAIN copies |-> IF copies[i] \in P THEN <<copies[i]>> ELSE <<>>]
    <3> HIDE DEF ids
    <3> QED OBVIOUS
  <2> HIDE DEF P
  <2> QED BY <2>1 DEF Ready, Those, EachOf, Kept
<1> HIDE DEF P, ids
<1>2. Kept(copies, P) \in Seq(CopyType) /\ Range(Kept(copies, P)) = Range(copies) \cap P
  BY KeptAre
<1>3. CASE Ready(copies, p) = <<>>
  BY <1>3 DEF Taken
<1>4. CASE Ready(copies, p) # <<>>
  <2> DEFINE c == Head(Ready(copies, p))
             q == Append(p, c)
  <2>1. Taken(copies, p) = q
    BY <1>4 DEF Taken
  <2>2. c \in Range(copies) \cap P
    <3>1. Ready(copies, p) \in Seq(CopyType) /\ c = Ready(copies, p)[1] /\ 1 \in 1 .. Len(Ready(copies, p))
      BY <1>1, <1>2, <1>4
    <3>2. c \in Range(Kept(copies, P))
      BY <1>1, <3>1, RangeIs
    <3> QED BY <1>2, <3>2
  <2>3. c \in CopyType
    BY <2>2 DEF P
  <2> HIDE DEF c
  <2>4. c \notin Range(p) /\ c.under \notin ids
    BY <2>2 DEF P
  <2>5. /\ Range(q) = Range(p) \cup {c}
        /\ Distinct(q) <=> Distinct(p) /\ \A d \in Range(p) : d.id # c.id
        /\ DOMAIN q = 1 .. Len(p) + 1 /\ DOMAIN p = 1 .. Len(p) /\ Len(p) \in Nat
        /\ \A i \in 1 .. Len(p) : q[i] = p[i]
        /\ q[Len(p) + 1] = c
    <3>1. /\ Range(q) = Range(p) \cup {c}
          /\ Distinct(q) <=> Distinct(p) /\ \A d \in Range(p) : d.id # c.id
      BY <2>3, RangeMore, DistinctMore
    <3> QED BY <2>3, <3>1
  <2> HIDE DEF q
  <2>6. \A d \in Range(p) : d.id # c.id
    <3> SUFFICES ASSUME NEW d \in Range(p), d.id = c.id PROVE FALSE
      OBVIOUS
    <3>1. d \in Range(copies) /\ c \in Range(copies)
      BY <2>2 DEF Ordered
    <3>2. PICK i, k \in DOMAIN copies : copies[i] = d /\ copies[k] = c
      BY <3>1 DEF Range
    <3>3. d = c
      BY <3>2 DEF Distinct
    <3> QED BY <2>4, <3>3
  <2>7. ASSUME NEW i \in DOMAIN q, NEW d \in Range(copies), d.id = q[i].under
        PROVE  \E k \in 1 .. i - 1 : q[k].id = d.id
    <3>1. CASE i \in 1 .. Len(p)
      <4>1. PICK k \in 1 .. i - 1 : p[k].id = d.id
        BY <2>5, <2>7, <3>1 DEF Ordered
      <4>2. k \in 1 .. Len(p)
        BY <2>5, <3>1
      <4> QED BY <2>5, <4>1, <4>2
    <3>2. CASE i = Len(p) + 1
      <4>1. d \in Range(p)
        BY <2>4, <2>5, <2>7, <3>2 DEF ids
      <4>2. PICK k \in 1 .. Len(p) : p[k] = d
        BY <2>5, <4>1 DEF Range
      <4>3. k \in 1 .. i - 1
        BY <2>5, <3>2
      <4> QED BY <2>5, <4>2, <4>3
    <3> QED BY <2>5, <3>1, <3>2
  <2>8. Range(q) \subseteq Range(copies)
    BY <2>2, <2>5 DEF Ordered
  <2> QED BY <2>1, <2>5, <2>6, <2>7, <2>8 DEF Ordered
<1> QED BY <1>3, <1>4

\* InOrder is the last of its rounds.
LEMMA InOrderIs ==
  ASSUME NEW copies \in Seq(CopyType)
  PROVE  \E f \in [0 .. Len(copies) -> Seq(CopyType)] :
           /\ \A i \in 0 .. Len(copies) : f[i] = IF i = 0 THEN <<>> ELSE Taken(copies, f[i - 1])
           /\ InOrder(copies) = f[Len(copies)]
<1> DEFINE n == Len(copies)
           Is(f) == f = [i \in 0 .. n |-> IF i = 0 THEN <<>> ELSE Taken(copies, f[i - 1])]
           c == CHOOSE f : Is(f)
<1>1. InOrder(copies) = c[n]
  BY DEF InOrder
<1>2. PICK g \in [0 .. n -> Seq(CopyType)] :
        \A i \in 0 .. n : g[i] = IF i = 0 THEN <<>> ELSE Taken(copies, g[i - 1])
  BY PlacedExists
<1>3. Is(g)
  BY <1>2
<1>4. Is(c)
  BY <1>3
<1> HIDE DEF c
<1>5. \A i \in 0 .. n : c[i] = IF i = 0 THEN <<>> ELSE Taken(copies, c[i - 1])
  BY <1>4
<1> DEFINE N == {m \in Nat : m \in 0 .. n => c[m] = g[m]}
<1>6. 0 \in N
  BY <1>2, <1>5
<1>7. ASSUME NEW m \in Nat, m \in N PROVE m + 1 \in N
  <2> SUFFICES ASSUME m + 1 \in 0 .. n PROVE c[m + 1] = g[m + 1]
    OBVIOUS
  <2>1. PICK i \in 0 .. n : i = m + 1
    OBVIOUS
  <2>2. i # 0 /\ i - 1 = m /\ m \in 0 .. n
    BY <2>1
  <2>3. c[m] = g[m]
    BY <1>7, <2>2
  <2>4. c[i] = Taken(copies, c[m]) /\ g[i] = Taken(copies, g[m])
    BY <1>2, <1>5, <2>2
  <2> QED BY <2>1, <2>3, <2>4
<1>8. Nat \subseteq N
  <2> HIDE DEF N
  <2> QED BY <1>6, <1>7, NatSet
<1>9. n \in Nat /\ n \in 0 .. n
  OBVIOUS
<1>10. c[n] = g[n]
  BY <1>8, <1>9
<1> QED BY <1>1, <1>2, <1>10

\* So its result is in order, and complete when it is as long as the list.
LEMMA InOrderOrdered ==
  ASSUME NEW copies \in Seq(CopyType), Distinct(copies)
  PROVE  /\ InOrder(copies) \in Seq(CopyType) /\ Ordered(copies, InOrder(copies))
         /\ Len(InOrder(copies)) = Len(copies) => Range(InOrder(copies)) = Range(copies)
<1> DEFINE n == Len(copies)
<1>1. PICK f \in [0 .. n -> Seq(CopyType)] :
        /\ \A i \in 0 .. n : f[i] = IF i = 0 THEN <<>> ELSE Taken(copies, f[i - 1])
        /\ InOrder(copies) = f[n]
  BY InOrderIs
<1> DEFINE N == {m \in Nat : m \in 0 .. n => Ordered(copies, f[m])}
<1>2. 0 \in N
  <2>1. f[0] = <<>>
    BY <1>1
  <2>2. Ordered(copies, <<>>)
    BY DEF Ordered, Range, Distinct
  <2> QED BY <2>1, <2>2
<1>3. ASSUME NEW m \in Nat, m \in N PROVE m + 1 \in N
  <2> SUFFICES ASSUME m + 1 \in 0 .. n PROVE Ordered(copies, f[m + 1])
    OBVIOUS
  <2>1. PICK i \in 0 .. n : i = m + 1
    OBVIOUS
  <2>2. i # 0 /\ i - 1 = m /\ m \in 0 .. n
    BY <2>1
  <2>3. Ordered(copies, f[m]) /\ f[m] \in Seq(CopyType)
    BY <1>3, <2>2
  <2>4. f[i] = Taken(copies, f[m])
    BY <1>1, <2>2
  <2> QED BY <2>1, <2>3, <2>4, TakenOrdered
<1>4. Nat \subseteq N
  <2> HIDE DEF N
  <2> QED BY <1>2, <1>3, NatSet
<1>5. n \in Nat /\ n \in 0 .. n
  OBVIOUS
<1>6. Ordered(copies, f[n]) /\ f[n] \in Seq(CopyType)
  BY <1>4, <1>5
<1>7. ASSUME Len(f[n]) = n PROVE Range(f[n]) = Range(copies)
  <2>1. IsFiniteSet(Range(copies)) /\ Cardinality(Range(copies)) = n /\ Cardinality(Range(f[n])) = n
    BY <1>6, <1>7, RangeSize DEF Ordered
  <2>2. Range(f[n]) \in SUBSET Range(copies)
    BY <1>6 DEF Ordered
  <2> QED BY <2>1, <2>2, FS_Subset
<1> QED BY <1>1, <1>6, <1>7

-----------------------------------------------------------------------------
(* Versions: what a step finds, what it leaves, and the runs of a list of
   steps; a phase of the plan runs when each of its copies does. *)

\* A row is the entity of an identity or its organization; it has a version.
Rows == Ids \X Parts
Versions == [Rows -> Nat]

\* Fits, where the versions are a and nothing is deleted; and what the step leaves.
Finds(s, a) ==
  LET entity == a[Row(s.id, "ENTITY")]
      org == a[Row(s.id, "ORG")] IN
  CASE s.op = "CREATE" -> entity = 0 /\ (s.under # NoId => a[Row(s.under, "ENTITY")] > 0)
    [] s.op = "SAVE" -> entity = s.v
    [] s.op = "NEW_FOLDER" -> org = 0 /\ (s.under # NoId => a[Row(s.under, "ORG")] > 0)
    [] s.op = "FOLDER_ICON" -> org = s.v
    [] OTHER -> /\ entity = s.v /\ org = s.ov
                /\ s.op = "MOVE_IN" => a[Row(s.into, "ORG")] > 0
Leaves(s, a) == [a EXCEPT ![Written(s)] = @ + 1]

\* Steps that find the versions they expect one after the other, from a to b.
Trace(q, g) ==
  /\ g \in [0 .. Len(q) -> Versions]
  /\ \A i \in 1 .. Len(q) : Finds(q[i], g[i - 1]) /\ g[i] = Leaves(q[i], g[i - 1])
Runs(q, a, b) == \E g : Trace(q, g) /\ g[0] = a /\ g[Len(q)] = b

\* A step writes one of the two rows of its identity, and raises it by one.
LEMMA StepRows ==
  ASSUME NEW s \in StepType
  PROVE  /\ Written(s) \in Rows /\ Row(s.id, "ENTITY") \in Rows /\ Row(s.id, "ORG") \in Rows
         /\ Row(s.id, "ENTITY") # Row(s.id, "ORG") /\ s.id \in Ids
BY DEF StepType, Written, Row, Rows, Parts

LEMMA LeavesIs ==
  ASSUME NEW s \in StepType, NEW a \in Versions
  PROVE  /\ Leaves(s, a) \in Versions
         /\ \A row \in Rows : Leaves(s, a)[row] = IF row = Written(s) THEN a[row] + 1 ELSE a[row]
BY StepRows DEF Leaves, Versions

\* Runs of no step, of one, of two lists and of two steps.
LEMMA RunsNone ==
  ASSUME NEW a \in Versions
  PROVE  Runs(<<>>, a, a)
<1> DEFINE g == [i \in 0 .. 0 |-> a]
<1>1. Trace(<<>>, g) /\ g[0] = a
  BY DEF Trace
<1> QED BY <1>1 DEF Runs

LEMMA RunsOne ==
  ASSUME NEW s \in StepType, NEW a \in Versions, Finds(s, a)
  PROVE  Runs(<<s>>, a, Leaves(s, a))
<1> DEFINE g == [i \in 0 .. 1 |-> IF i = 0 THEN a ELSE Leaves(s, a)]
<1>1. Len(<<s>>) = 1 /\ <<s>>[1] = s /\ Leaves(s, a) \in Versions
  BY LeavesIs
<1>2. g \in [0 .. 1 -> Versions] /\ g[0] = a /\ g[1] = Leaves(s, a)
  BY <1>1
<1> HIDE DEF g
<1>3. \A i \in 1 .. 1 : i = 1 /\ i - 1 = 0
  OBVIOUS
<1>4. Trace(<<s>>, g)
  BY <1>1, <1>2, <1>3 DEF Trace
<1> QED BY <1>1, <1>2, <1>4 DEF Runs

LEMMA RunsConcat ==
  ASSUME NEW p \in Seq(StepType), NEW q \in Seq(StepType), NEW a, NEW b, NEW c,
         Runs(p, a, b), Runs(q, b, c)
  PROVE  Runs(p \o q, a, c)
<1>1. PICK f : Trace(p, f) /\ f[0] = a /\ f[Len(p)] = b
  BY DEF Runs
<1>2. PICK g : Trace(q, g) /\ g[0] = b /\ g[Len(q)] = c
  BY DEF Runs
<1> DEFINE m == Len(p)
           n == Len(q)
           h == [i \in 0 .. m + n |-> IF i <= m THEN f[i] ELSE g[i - m]]
           r == p \o q
<1>3. /\ m \in Nat /\ n \in Nat /\ Len(r) = m + n
      /\ \A i \in 1 .. m : r[i] = p[i]
      /\ \A i \in 1 .. m + n : ~ (i <= m) => r[i] = q[i - m]
  BY ConcatProperties
<1>4. /\ f \in [0 .. m -> Versions] /\ f[m] = b /\ f[0] = a
      /\ \A i \in 1 .. m : Finds(p[i], f[i - 1]) /\ f[i] = Leaves(p[i], f[i - 1])
  BY <1>1 DEF Trace
<1>5. /\ g \in [0 .. n -> Versions] /\ g[0] = b /\ g[n] = c
      /\ \A i \in 1 .. n : Finds(q[i], g[i - 1]) /\ g[i] = Leaves(q[i], g[i - 1])
  BY <1>2 DEF Trace
<1> HIDE DEF r, m, n
<1>6. h \in [0 .. m + n -> Versions]
  <2>1. \A i \in 0 .. m + n : IF i <= m THEN i \in 0 .. m ELSE i - m \in 0 .. n
    BY <1>3
  <2> QED BY <1>4, <1>5, <2>1
<1>7. h[0] = a /\ h[m + n] = c
  <2>1. 0 \in 0 .. m + n /\ 0 <= m /\ m + n \in 0 .. m + n
    BY <1>3
  <2>2. m + n <= m => n = 0 /\ m + n = m
    BY <1>3
  <2>3. m + n - m = n
    BY <1>3
  <2>4. h[0] = a
    BY <1>4, <2>1
  <2>5. CASE m + n <= m
    <3>1. h[m + n] = f[m + n]
      BY <2>1, <2>5
    <3> QED BY <1>4, <1>5, <2>2, <2>4, <2>5, <3>1
  <2>6. CASE ~ (m + n <= m)
    <3>1. PICK i \in 0 .. m + n : i = m + n
      BY <2>1
    <3>2. ~ (i <= m) /\ i - m = n
      BY <1>3, <2>3, <2>6, <3>1
    <3>3. h[i] = g[i - m]
      BY <3>2
    <3> HIDE DEF h
    <3> QED BY <1>5, <2>4, <3>1, <3>2, <3>3
  <2> QED BY <2>5, <2>6
<1>8. ASSUME NEW i \in 1 .. m + n
      PROVE  Finds(r[i], h[i - 1]) /\ h[i] = Leaves(r[i], h[i - 1])
  <2>0. i \in 0 .. m + n /\ i - 1 \in 0 .. m + n /\ i \in Nat
    BY <1>3
  <2>1. CASE i <= m
    <3>1. i \in 1 .. m /\ i - 1 <= m
      BY <1>3, <2>0, <2>1
    <3>2. h[i] = f[i] /\ h[i - 1] = f[i - 1]
      BY <2>0, <2>1, <3>1
    <3> QED BY <1>3, <1>4, <3>1, <3>2
  <2>2. CASE ~ (i <= m)
    <3>1. PICK k \in 1 .. n : k = i - m /\ (i - 1) - m = k - 1
      BY <1>3, <2>2
    <3>2. h[i] = g[k]
      BY <2>0, <2>2, <3>1
    <3>3. h[i - 1] = g[k - 1]
      <4>1. CASE i - 1 <= m
        <5>1. k = 1 /\ i - 1 = m
          BY <1>3, <2>0, <2>2, <3>1, <4>1
        <5> QED BY <1>4, <1>5, <2>0, <4>1, <5>1
      <4>2. CASE ~ (i - 1 <= m)
        BY <2>0, <3>1, <4>2
      <4> QED BY <4>1, <4>2
    <3>4. r[i] = q[k]
      BY <1>3, <2>2, <3>1
    <3> QED BY <1>5, <3>1, <3>2, <3>3, <3>4
  <2> QED BY <2>1, <2>2
<1> HIDE DEF h
<1>9. Trace(r, h)
  BY <1>3, <1>6, <1>8 DEF Trace
<1> QED BY <1>3, <1>7, <1>9 DEF Runs, r

LEMMA RunsTwo ==
  ASSUME NEW s \in StepType, NEW u \in StepType, NEW a \in Versions,
         Finds(s, a), Finds(u, Leaves(s, a))
  PROVE  Runs(<<s>> \o <<u>>, a, Leaves(u, Leaves(s, a)))
<1>1. Leaves(s, a) \in Versions
  BY LeavesIs
<1>2. <<s>> \in Seq(StepType) /\ <<u>> \in Seq(StepType)
  OBVIOUS
<1>3. Runs(<<s>>, a, Leaves(s, a)) /\ Runs(<<u>>, Leaves(s, a), Leaves(u, Leaves(s, a)))
  BY <1>1, RunsOne
<1> HIDE DEF StepType
<1> QED BY <1>2, <1>3, RunsConcat

-----------------------------------------------------------------------------
\* A phase of the plan: a list of copies, each with its steps F, that write its
\* own rows only, D times each.
Block(D, c, a) ==
  [row \in Rows |-> IF row[1] = c.id THEN a[row] + D[c][row[2]] ELSE a[row]]

\* After n copies of the list, theirs are written D times and nothing else is.
Bumped(D, q, n, a, b) ==
  /\ b \in Versions
  /\ \A k \in 1 .. n : \A part \in Parts :
       b[Row(q[k].id, part)] = a[Row(q[k].id, part)] + D[q[k]][part]
  /\ \A row \in Rows : (\A k \in 1 .. n : q[k].id # row[1]) => b[row] = a[row]

\* The steps of each copy run where those before it have written.
Runnable(F, D, q, a) ==
  \A i \in 1 .. Len(q) : \A b \in Versions :
    Bumped(D, q, i - 1, a, b) => Runs(F[q[i]], b, Block(D, q[i], b))

\* Then the phase runs, by induction over its copies.
LEMMA PhaseRuns ==
  ASSUME NEW F \in [CopyType -> Seq(StepType)], NEW D \in [CopyType -> [Parts -> Nat]],
         NEW q \in Seq(CopyType), Distinct(q), NEW a \in Versions, Runnable(F, D, q, a)
  PROVE  \E b \in Versions : Bumped(D, q, Len(q), a, b) /\ Runs(Each(F, q), a, b)
<1> DEFINE n == Len(q)
           R(m, b) == Bumped(D, q, m, a, b) /\ Runs(Each(F, SubSeq(q, 1, m)), a, b)
           N == {m \in Nat : m <= n => \E b \in Versions : R(m, b)}
<1>00. \A c \in CopyType : c.id \in Ids
  BY DEF CopyType
<1> HIDE DEF CopyType, StepType
<1>0. n \in Nat /\ DOMAIN q = 1 .. n /\ \A i \in 1 .. n : q[i] \in CopyType /\ q[i].id \in Ids
  BY <1>00
<1>1. 0 \in N
  <2>1. SubSeq(q, 1, 0) = <<>>
    OBVIOUS
  <2>2. Each(F, <<>>) = <<>>
    BY FlattenNone DEF Each
  <2>3. Bumped(D, q, 0, a, a)
    BY DEF Bumped
  <2>4. Runs(Each(F, SubSeq(q, 1, 0)), a, a)
    BY <2>1, <2>2, RunsNone
  <2> QED BY <2>3, <2>4
<1>2. ASSUME NEW m \in Nat, m \in N PROVE m + 1 \in N
  <2> SUFFICES ASSUME m + 1 <= n PROVE \E b \in Versions : R(m + 1, b)
    OBVIOUS
  <2>0. PICK i \in 1 .. n : i = m + 1 /\ i - 1 = m /\ i \in Nat
    BY <1>0
  <2>1. PICK b \in Versions : R(m, b)
    BY <1>0, <1>2
  <2> DEFINE p == SubSeq(q, 1, m)
             x == q[i]
             e == Block(D, x, b)
  <2>2. p \in Seq(CopyType) /\ x \in CopyType /\ x.id \in Ids /\ SubSeq(q, 1, i) = Append(p, x)
    BY <1>0, <2>0
  <2>3. Runs(F[x], b, e)
    BY <1>0, <2>0, <2>1 DEF Runnable
  <2>4. Each(F, SubSeq(q, 1, i)) = Each(F, p) \o F[x]
    <3> HIDE DEF p, x
    <3>1. Each(F, Append(p, x)) = Each(F, p) \o F[x]
      BY <2>2, EachMore
    <3> QED BY <2>2, <3>1
  <2>5. Each(F, p) \in Seq(StepType) /\ F[x] \in Seq(StepType)
    <3> HIDE DEF p, x
    <3> DEFINE f == [k \in DOMAIN p |-> F[p[k]]]
    <3>1. \A k \in 1 .. Len(p) : f[k] \in Seq(StepType)
      BY <2>2
    <3>2. DOMAIN f = DOMAIN p /\ f = [k \in DOMAIN p |-> f[k]] /\ Each(F, p) = FlattenSeq(f)
      BY DEF Each
    <3> HIDE DEF f
    <3>3. FlattenSeq(f) \in Seq(StepType)
      BY <2>2, <3>1, <3>2, EachType
    <3> QED BY <2>2, <3>2, <3>3
  <2>6. Runs(Each(F, SubSeq(q, 1, i)), a, e)
    <3> HIDE DEF p, x, e
    <3>1. Runs(Each(F, p), a, b)
      BY <2>1 DEF p
    <3>2. Runs(Each(F, p) \o F[x], a, e)
      BY <2>3, <2>5, <3>1, RunsConcat
    <3> QED BY <2>4, <3>2
  <2>7. e \in Versions
    <3>1. \A row \in Rows : row[2] \in Parts
      BY DEF Rows
    <3>2. b \in [Rows -> Nat] /\ D[x] \in [Parts -> Nat]
      BY <2>1, <2>2 DEF Versions
    <3>3. \A row \in Rows : b[row] \in Nat /\ D[x][row[2]] \in Nat
      BY <3>1, <3>2
    <3> HIDE DEF x
    <3>4. \A row \in Rows : (IF row[1] = x.id THEN b[row] + D[x][row[2]] ELSE b[row]) \in Nat
      <4> SUFFICES ASSUME NEW row \in Rows
                   PROVE  (IF row[1] = x.id THEN b[row] + D[x][row[2]] ELSE b[row]) \in Nat
        OBVIOUS
      <4>1. PICK y \in Nat, z \in Nat : y = b[row] /\ z = D[x][row[2]]
        BY <3>3
      <4>2. y + z \in Nat
        OBVIOUS
      <4>3. (IF row[1] = x.id THEN y + z ELSE y) \in Nat
        BY <4>2
      <4> QED BY <4>1, <4>3
    <3> QED BY <3>4 DEF Block, Versions
  <2>8. Bumped(D, q, i, a, e)
    <3>0. 1 .. i = 1 .. m \cup {i} /\ i \notin 1 .. m
      BY <2>0
    <3>1. Bumped(D, q, m, a, b)
      BY <2>1
    <3>2. \A k \in 1 .. m : q[k].id # x.id /\ q[k].id \in Ids
      <4>1. \A k \in 1 .. m : k \in 1 .. n /\ k # i
        BY <1>0, <2>0
      <4> QED BY <1>0, <4>1 DEF Distinct
    <3>3. \A row \in Rows : e[row] = IF row[1] = x.id THEN b[row] + D[x][row[2]] ELSE b[row]
      BY DEF Block
    <3> HIDE DEF e, x
    <3>4. \A id \in Ids : \A part \in Parts :
            Row(id, part) \in Rows /\ Row(id, part)[1] = id /\ Row(id, part)[2] = part
      BY DEF Row, Rows
    <3>5. \A part \in Parts : b[Row(x.id, part)] = a[Row(x.id, part)]
      BY <2>2, <3>1, <3>2, <3>4 DEF Bumped
    <3>6. ASSUME NEW k \in 1 .. i, NEW part \in Parts
          PROVE  e[Row(q[k].id, part)] = a[Row(q[k].id, part)] + D[q[k]][part]
      <4>1. CASE k \in 1 .. m
        <5>1. e[Row(q[k].id, part)] = b[Row(q[k].id, part)]
          BY <3>2, <3>3, <3>4, <4>1
        <5> QED BY <3>1, <4>1, <5>1 DEF Bumped
      <4>2. CASE k = i
        <5>1. q[k] = x
          BY <4>2 DEF x
        <5>2. e[Row(x.id, part)] = b[Row(x.id, part)] + D[x][part]
          BY <2>2, <3>3, <3>4
        <5> QED BY <3>5, <5>1, <5>2
      <4> QED BY <3>0, <4>1, <4>2
    <3>7. ASSUME NEW row \in Rows, \A k \in 1 .. i : q[k].id # row[1]
          PROVE  e[row] = a[row]
      <4>1. e[row] = b[row]
        BY <2>0, <3>0, <3>3, <3>7 DEF x
      <4> QED BY <3>0, <3>1, <3>7, <4>1 DEF Bumped
    <3> QED BY <2>7, <3>6, <3>7 DEF Bumped
  <2> HIDE DEF e
  <2> QED BY <2>0, <2>6, <2>7, <2>8
<1>3. Nat \subseteq N
  <2> HIDE DEF N
  <2> QED BY <1>1, <1>2, NatSet
<1>4. PICK b \in Versions : R(n, b)
  BY <1>0, <1>3
<1>5. SubSeq(q, 1, n) = q
  OBVIOUS
<1> QED BY <1>4, <1>5

-----------------------------------------------------------------------------
(* What the steps of one copy find and write in each phase. *)

\* The versions a with e more writes of an entity and o of its organization.
Add(a, id, e, o) ==
  [row \in Rows |-> IF row = Row(id, "ENTITY") THEN a[row] + e
                    ELSE IF row = Row(id, "ORG") THEN a[row] + o ELSE a[row]]

\* How many writes of its entity and of its organization a copy gets.
Writes(e, o) == [part \in Parts |-> IF part = "ENTITY" THEN e ELSE o]

\* The rows of different identities differ; arithmetic of versions.
LEMMA RowParts ==
  ASSUME NEW id \in Ids
  PROVE  /\ Row(id, "ENTITY") \in Rows /\ Row(id, "ORG") \in Rows
         /\ Row(id, "ENTITY") # Row(id, "ORG")
         /\ \A part \in Parts : Row(id, part) \in Rows /\ Row(id, part)[1] = id /\ Row(id, part)[2] = part
         /\ \A row \in Rows : row[1] = id <=> row = Row(id, "ENTITY") \/ row = Row(id, "ORG")
         /\ \A other : other # id => \A part, part2 : Row(id, part) # Row(other, part2)
BY DEF Row, Rows, Parts

LEMMA AddIs ==
  ASSUME NEW a \in Versions, NEW id \in Ids, NEW e \in Nat, NEW o \in Nat
  PROVE  /\ Add(a, id, e, o) \in Versions
         /\ Add(a, id, e, o)[Row(id, "ENTITY")] = a[Row(id, "ENTITY")] + e
         /\ Add(a, id, e, o)[Row(id, "ORG")] = a[Row(id, "ORG")] + o
         /\ \A row \in Rows : a[row] <= Add(a, id, e, o)[row]
<1>1. ASSUME NEW row \in Rows
      PROVE  /\ a[row] \in Nat /\ Add(a, id, e, o)[row] \in Nat
             /\ a[row] <= Add(a, id, e, o)[row]
  <2>1. PICK y \in Nat : y = a[row]
    BY DEF Versions
  <2>2. y + e \in Nat /\ y + o \in Nat /\ y <= y + e /\ y <= y + o /\ y <= y
    OBVIOUS
  <2> QED BY <2>1, <2>2 DEF Add
<1>2. Add(a, id, e, o) = [row \in Rows |-> Add(a, id, e, o)[row]]
  BY DEF Add
<1>3. Add(a, id, e, o) \in Versions
  BY <1>1, <1>2 DEF Versions
<1> QED BY <1>1, <1>3, RowParts DEF Add

LEMMA AddAdd ==
  ASSUME NEW a \in Versions, NEW id \in Ids, NEW e \in Nat, NEW o \in Nat,
         NEW f \in Nat, NEW p \in Nat
  PROVE  Add(Add(a, id, e, o), id, f, p) = Add(a, id, e + f, o + p)
<1>1. ASSUME NEW row \in Rows
      PROVE  Add(Add(a, id, e, o), id, f, p)[row] = Add(a, id, e + f, o + p)[row]
  <2>1. PICK y \in Nat : y = a[row]
    BY DEF Versions
  <2>2. (y + e) + f = y + (e + f) /\ (y + o) + p = y + (o + p)
    OBVIOUS
  <2> QED BY <2>1, <2>2 DEF Add
<1>2. /\ Add(Add(a, id, e, o), id, f, p) = [row \in Rows |-> Add(Add(a, id, e, o), id, f, p)[row]]
      /\ Add(a, id, e + f, o + p) = [row \in Rows |-> Add(a, id, e + f, o + p)[row]]
  BY DEF Add
<1> QED BY <1>1, <1>2

LEMMA AddNone ==
  ASSUME NEW a \in Versions, NEW id \in Ids
  PROVE  Add(a, id, 0, 0) = a
<1>1. ASSUME NEW row \in Rows
      PROVE  Add(a, id, 0, 0)[row] = a[row]
  <2>1. PICK y \in Nat : y = a[row]
    BY DEF Versions
  <2> QED BY <2>1 DEF Add
<1>2. /\ Add(a, id, 0, 0) = [row \in Rows |-> Add(a, id, 0, 0)[row]]
      /\ a = [row \in Rows |-> a[row]]
  BY DEF Add, Versions
<1> QED BY <1>1, <1>2

LEMMA BlockIs ==
  ASSUME NEW D, NEW c \in CopyType, NEW a \in Versions, NEW e \in Nat, NEW o \in Nat,
         D[c] = Writes(e, o)
  PROVE  Block(D, c, a) = Add(a, c.id, e, o)
<1>0. c.id \in Ids
  BY DEF CopyType
<1>1. ASSUME NEW row \in Rows
      PROVE  Block(D, c, a)[row] = Add(a, c.id, e, o)[row]
  <2>1. CASE row = Row(c.id, "ENTITY")
    <3>1. row[1] = c.id /\ row[2] = "ENTITY" /\ D[c]["ENTITY"] = e
      BY <1>0, <2>1, RowParts DEF Writes, Parts
    <3> QED BY <2>1, <3>1 DEF Block, Add
  <2>2. CASE row = Row(c.id, "ORG")
    <3>1. row[1] = c.id /\ row[2] = "ORG" /\ D[c]["ORG"] = o /\ row # Row(c.id, "ENTITY")
      BY <1>0, <2>2, RowParts DEF Writes, Parts
    <3> QED BY <2>2, <3>1 DEF Block, Add
  <2>3. CASE row # Row(c.id, "ENTITY") /\ row # Row(c.id, "ORG")
    <3>1. row[1] # c.id
      BY <1>0, <2>3, RowParts
    <3> QED BY <2>3, <3>1 DEF Block, Add
  <2> QED BY <2>1, <2>2, <2>3
<1>2. /\ Block(D, c, a) = [row \in Rows |-> Block(D, c, a)[row]]
      /\ Add(a, c.id, e, o) = [row \in Rows |-> Add(a, c.id, e, o)[row]]
  BY DEF Block, Add
<1> QED BY <1>1, <1>2

\* A step adds one write to the entity or to the organization of its identity.
LEMMA LeavesAdd ==
  ASSUME NEW s \in StepType, NEW a \in Versions
  PROVE  /\ Written(s) = Row(s.id, "ENTITY") => Leaves(s, a) = Add(a, s.id, 1, 0)
         /\ Written(s) = Row(s.id, "ORG") => Leaves(s, a) = Add(a, s.id, 0, 1)
<1>0. s.id \in Ids /\ Leaves(s, a) \in Versions
  BY StepRows, LeavesIs
<1> HIDE DEF StepType
<1>1. ASSUME NEW row \in Rows
      PROVE  /\ Written(s) = Row(s.id, "ENTITY") => Leaves(s, a)[row] = Add(a, s.id, 1, 0)[row]
             /\ Written(s) = Row(s.id, "ORG") => Leaves(s, a)[row] = Add(a, s.id, 0, 1)[row]
  <2>1. PICK y \in Nat : y = a[row]
    BY DEF Versions
  <2>2. Leaves(s, a)[row] = IF row = Written(s) THEN y + 1 ELSE y
    BY <2>1, LeavesIs
  <2>3. /\ Add(a, s.id, 1, 0)[row] = IF row = Row(s.id, "ENTITY") THEN y + 1 ELSE y
        /\ Add(a, s.id, 0, 1)[row] = IF row = Row(s.id, "ORG") THEN y + 1 ELSE y
    <3>1. Row(s.id, "ENTITY") # Row(s.id, "ORG") /\ y + 0 = y
      BY <1>0, RowParts
    <3> QED BY <2>1, <3>1 DEF Add
  <2> QED BY <2>2, <2>3
<1>2. /\ Leaves(s, a) = [row \in Rows |-> Leaves(s, a)[row]]
      /\ Add(a, s.id, 1, 0) = [row \in Rows |-> Add(a, s.id, 1, 0)[row]]
      /\ Add(a, s.id, 0, 1) = [row \in Rows |-> Add(a, s.id, 0, 1)[row]]
  BY <1>0 DEF Versions, Add
<1> QED BY <1>1, <1>2

-----------------------------------------------------------------------------
(* The steps of one copy. *)

\* How often each phase writes the rows of a copy.
CreateWrites == [c \in CopyType |-> Writes(IF c.kind = "FILE" /\ c.renamed THEN 2 ELSE 1, 0)]
FinalWrites == [c \in CopyType |-> Writes(IF c.kind = "WORK" THEN 1 ELSE 0, 0)]
OrderWrites == [c \in CopyType |-> Writes(1, 0)]
FolderWrites == [c \in CopyType |-> Writes(0, IF c.icon THEN 2 ELSE 1)]
MembershipWrites ==
  [c \in CopyType |->
     Writes(IF c.kind = "NOTE" /\ c.into # NoId THEN 1 ELSE 0,
            IF \/ c.kind = "WORK" /\ c.archived
               \/ c.kind = "NOTE" /\ (c.icon \/ (c.into = NoId /\ c.text))
            THEN 1 ELSE 0)]

LEMMA WritesType ==
  /\ CreateWrites \in [CopyType -> [Parts -> Nat]] /\ FinalWrites \in [CopyType -> [Parts -> Nat]]
  /\ OrderWrites \in [CopyType -> [Parts -> Nat]] /\ FolderWrites \in [CopyType -> [Parts -> Nat]]
  /\ MembershipWrites \in [CopyType -> [Parts -> Nat]]
<1>1. \A e, o \in Nat : Writes(e, o) \in [Parts -> Nat]
  BY DEF Writes
<1> HIDE DEF CopyType
<1> QED BY <1>1 DEF CreateWrites, FinalWrites, OrderWrites, FolderWrites, MembershipWrites

\* The fields of the steps that a copy makes.
LEMMA StepFields ==
  ASSUME NEW op, NEW c, NEW v, NEW ov
  PROVE  LET s == Step(op, c, v, ov) IN
         /\ s.op = op /\ s.id = c.id /\ s.v = v /\ s.ov = ov /\ s.under = c.under
         /\ s.into = c.into /\ s.seen = 0
         /\ Written(s) = Row(c.id, IF op \in {"CREATE", "SAVE", "MOVE_IN"} THEN "ENTITY" ELSE "ORG")
BY DEF Step, Written

\* The creation of a copy runs where it does not exist and its owner does.
LEMMA CreateRuns ==
  ASSUME NEW c \in CopyType, NEW a \in Versions, a[Row(c.id, "ENTITY")] = 0,
         c.under # NoId => a[Row(c.under, "ENTITY")] > 0
  PROVE  Runs(CreateSteps(c), a, Block(CreateWrites, c, a))
<1>0. c.id \in Ids
  BY DEF CopyType
<1> DEFINE s == Step("CREATE", c, 0, 0)
           u == Step("SAVE", c, 1, 0)
<1>1. s \in StepType /\ u \in StepType
  BY StepIsStep
<1>2. Finds(s, a)
  BY StepFields DEF Finds
<1>3. Leaves(s, a) = Add(a, c.id, 1, 0) /\ Add(a, c.id, 1, 0)[Row(c.id, "ENTITY")] = 1
      /\ Add(a, c.id, 1, 0) \in Versions
  BY <1>0, <1>1, StepFields, LeavesAdd, AddIs
<1>4. Finds(u, Leaves(s, a))
  BY <1>3, StepFields DEF Finds
<1>5. Leaves(u, Leaves(s, a)) = Add(a, c.id, 2, 0)
  <2>1. Leaves(u, Add(a, c.id, 1, 0)) = Add(Add(a, c.id, 1, 0), c.id, 1, 0)
    BY <1>1, <1>3, StepFields, LeavesAdd
  <2> QED BY <1>0, <1>3, <2>1, AddAdd
<1>6. CASE c.kind = "FILE" /\ c.renamed
  <2>1. CreateSteps(c) = <<s>> \o <<u>>
    BY <1>6 DEF CreateSteps
  <2>2. CreateWrites[c] = Writes(2, 0)
    BY <1>6 DEF CreateWrites
  <2>3. Block(CreateWrites, c, a) = Add(a, c.id, 2, 0)
    BY <2>2, BlockIs
  <2> HIDE DEF s, u
  <2> QED BY <1>1, <1>2, <1>4, <1>5, <2>1, <2>3, RunsTwo
<1>7. CASE ~ (c.kind = "FILE" /\ c.renamed)
  <2>1. CreateSteps(c) = <<s>>
    <3>1. CreateSteps(c) = <<s>> \o <<>>
      BY <1>7 DEF CreateSteps
    <3> HIDE DEF s
    <3> QED BY <3>1
  <2>2. CreateWrites[c] = Writes(1, 0)
    BY <1>7 DEF CreateWrites
  <2>3. Block(CreateWrites, c, a) = Add(a, c.id, 1, 0)
    BY <2>2, BlockIs
  <2> HIDE DEF s, u
  <2> QED BY <1>1, <1>2, <1>3, <2>1, <2>3, RunsOne
<1> QED BY <1>6, <1>7

\* A copy without a step in a phase leaves everything.
LEMMA NoneRuns ==
  ASSUME NEW D, NEW c \in CopyType, NEW a \in Versions, D[c] = Writes(0, 0)
  PROVE  Runs(<<>>, a, Block(D, c, a))
<1>1. Block(D, c, a) = Add(a, c.id, 0, 0) /\ c.id \in Ids
  <2>1. c.id \in Ids
    BY DEF CopyType
  <2> QED BY <2>1, BlockIs
<1> QED BY <1>1, AddNone, RunsNone

\* A save runs where its version is found.
LEMMA SaveRuns ==
  ASSUME NEW D, NEW c \in CopyType, NEW a \in Versions, NEW v \in Nat, D[c] = Writes(1, 0),
         a[Row(c.id, "ENTITY")] = v
  PROVE  Runs(<<Step("SAVE", c, v, 0)>>, a, Block(D, c, a))
<1> DEFINE s == Step("SAVE", c, v, 0)
<1>1. s \in StepType
  BY StepIsStep
<1>2. Finds(s, a)
  BY StepFields DEF Finds
<1>3. Leaves(s, a) = Add(a, c.id, 1, 0)
  BY <1>1, StepFields, LeavesAdd
<1>4. Block(D, c, a) = Add(a, c.id, 1, 0)
  BY BlockIs
<1> HIDE DEF s
<1> QED BY <1>1, <1>2, <1>3, <1>4, RunsOne DEF s

\* A folder, and its icon, run where it is new and its parent is there.
LEMMA FolderRuns ==
  ASSUME NEW c \in CopyType, NEW a \in Versions, a[Row(c.id, "ORG")] = 0,
         c.under # NoId => a[Row(c.under, "ORG")] > 0
  PROVE  Runs(FolderSteps(c), a, Block(FolderWrites, c, a))
<1>0. c.id \in Ids
  BY DEF CopyType
<1> DEFINE s == Step("NEW_FOLDER", c, 0, 0)
           u == Step("FOLDER_ICON", c, 1, 1)
<1>1. s \in StepType /\ u \in StepType
  BY StepIsStep
<1>2. Finds(s, a)
  BY StepFields DEF Finds
<1>3. Leaves(s, a) = Add(a, c.id, 0, 1) /\ Add(a, c.id, 0, 1)[Row(c.id, "ORG")] = 1
      /\ Add(a, c.id, 0, 1) \in Versions
  BY <1>0, <1>1, StepFields, LeavesAdd, AddIs
<1>4. Finds(u, Leaves(s, a))
  BY <1>3, StepFields DEF Finds
<1>5. Leaves(u, Leaves(s, a)) = Add(a, c.id, 0, 2)
  <2>1. Leaves(u, Add(a, c.id, 0, 1)) = Add(Add(a, c.id, 0, 1), c.id, 0, 1)
    BY <1>1, <1>3, StepFields, LeavesAdd
  <2> QED BY <1>0, <1>3, <2>1, AddAdd
<1>6. CASE c.icon
  <2>1. FolderSteps(c) = <<s>> \o <<u>>
    BY <1>6 DEF FolderSteps
  <2>2. FolderWrites[c] = Writes(0, 2)
    BY <1>6 DEF FolderWrites
  <2>3. Block(FolderWrites, c, a) = Add(a, c.id, 0, 2)
    BY <2>2, BlockIs
  <2> HIDE DEF s, u
  <2> QED BY <1>1, <1>2, <1>4, <1>5, <2>1, <2>3, RunsTwo
<1>7. CASE ~ c.icon
  <2>1. FolderSteps(c) = <<s>>
    BY <1>7 DEF FolderSteps
  <2>2. FolderWrites[c] = Writes(0, 1)
    BY <1>7 DEF FolderWrites
  <2>3. Block(FolderWrites, c, a) = Add(a, c.id, 0, 1)
    BY <2>2, BlockIs
  <2> HIDE DEF s, u
  <2> QED BY <1>1, <1>2, <1>3, <2>1, <2>3, RunsOne
<1> QED BY <1>6, <1>7

\* A note moved into a folder; a copy whose organization is written.
Moved(c) == c.kind = "NOTE" /\ c.into # NoId
Organized(c) ==
  \/ c.kind = "WORK" /\ c.archived
  \/ c.kind = "NOTE" /\ (c.icon \/ (c.into = NoId /\ c.text))

\* The four kinds of membership steps, by what they write.
LEMMA MembershipIs ==
  ASSUME NEW c \in CopyType
  PROVE  /\ Moved(c) /\ Organized(c) => MembershipWrites[c] = Writes(1, 1)
         /\ Moved(c) /\ ~ Organized(c) => MembershipWrites[c] = Writes(1, 0)
         /\ ~ Moved(c) /\ Organized(c) => MembershipWrites[c] = Writes(0, 1)
         /\ ~ Moved(c) /\ ~ Organized(c) => MembershipWrites[c] = Writes(0, 0)
<1>1. MembershipWrites[c] = Writes(IF Moved(c) THEN 1 ELSE 0, IF Organized(c) THEN 1 ELSE 0)
  <2> HIDE DEF CopyType
  <2> QED BY DEF MembershipWrites, Moved, Organized
<1> QED BY <1>1

\* The membership steps of a copy run after its creation and its last save, unless
\* it is a note of a legacy folder with an icon.
LEMMA MembershipRuns ==
  ASSUME NEW c \in CopyType, NEW a \in Versions,
         ~ (c.kind = "NOTE" /\ c.into = NoId /\ c.text /\ c.icon),
         c.kind = "WORK" => a[Row(c.id, "ENTITY")] = 2,
         c.kind = "NOTE" => a[Row(c.id, "ENTITY")] = 1,
         a[Row(c.id, "ORG")] = 0,
         c.kind = "NOTE" /\ c.into # NoId => a[Row(c.into, "ORG")] > 0 /\ c.into \in Ids
  PROVE  Runs(MembershipSteps(c), a, Block(MembershipWrites, c, a))
<1>0. c.id \in Ids
  BY DEF CopyType
<1>1. \A op \in {"ARCHIVE", "MOVE_IN", "MOVE_TEXT", "NOTE_ICON"} : \A v \in Nat :
        Step(op, c, v, 0) \in StepType
  BY StepIsStep
<1>2. CASE c.kind = "WORK" /\ c.archived
  <2> DEFINE s == Step("ARCHIVE", c, 2, 0)
  <2>1. MembershipSteps(c) = <<s>>
    BY <1>2 DEF MembershipSteps
  <2>2. MembershipWrites[c] = Writes(0, 1)
    BY <1>2 DEF MembershipWrites
  <2>3. s \in StepType /\ Finds(s, a)
    BY <1>1, <1>2, StepFields DEF Finds
  <2>4. Leaves(s, a) = Add(a, c.id, 0, 1)
    BY <2>3, StepFields, LeavesAdd
  <2>5. Block(MembershipWrites, c, a) = Add(a, c.id, 0, 1)
    BY <2>2, BlockIs
  <2> HIDE DEF s
  <2> QED BY <2>1, <2>3, <2>4, <2>5, RunsOne
<1>3. CASE c.kind = "NOTE" /\ c.into # NoId
  <2> DEFINE s == Step("MOVE_IN", c, 1, 0)
             u == Step("NOTE_ICON", c, 2, 0)
  <2>1. MembershipSteps(c) = <<s>> \o (IF c.icon THEN <<u>> ELSE <<>>)
    BY <1>3 DEF MembershipSteps
  <2>2. s \in StepType /\ Finds(s, a) /\ u \in StepType
    BY <1>1, <1>3, StepFields DEF Finds
  <2>3. /\ Leaves(s, a) = Add(a, c.id, 1, 0) /\ Add(a, c.id, 1, 0) \in Versions
        /\ Add(a, c.id, 1, 0)[Row(c.id, "ENTITY")] = 2
        /\ Add(a, c.id, 1, 0)[Row(c.id, "ORG")] = 0
    <3>1. Leaves(s, a) = Add(a, c.id, 1, 0)
      BY <2>2, StepFields, LeavesAdd
    <3>2. a[Row(c.id, "ENTITY")] = 1
      BY <1>3
    <3> HIDE DEF s
    <3>3. /\ Add(a, c.id, 1, 0) \in Versions
          /\ Add(a, c.id, 1, 0)[Row(c.id, "ENTITY")] = a[Row(c.id, "ENTITY")] + 1
          /\ Add(a, c.id, 1, 0)[Row(c.id, "ORG")] = a[Row(c.id, "ORG")] + 0
      BY <1>0, AddIs
    <3> QED BY <3>1, <3>2, <3>3
  <2>4. Finds(u, Leaves(s, a))
    BY <2>3, StepFields DEF Finds
  <2>5. Leaves(u, Leaves(s, a)) = Add(a, c.id, 1, 1)
    <3>1. Leaves(u, Add(a, c.id, 1, 0)) = Add(Add(a, c.id, 1, 0), c.id, 0, 1)
      BY <2>2, <2>3, StepFields, LeavesAdd
    <3> QED BY <1>0, <2>3, <3>1, AddAdd
  <2>6. CASE c.icon
    <3>1. MembershipWrites[c] = Writes(1, 1)
      <4>1. Moved(c) /\ Organized(c)
        BY <1>3, <2>6 DEF Moved, Organized
      <4> QED BY <4>1, MembershipIs
    <3>2. Block(MembershipWrites, c, a) = Add(a, c.id, 1, 1)
      BY <3>1, BlockIs
    <3> HIDE DEF s, u
    <3> QED BY <2>1, <2>2, <2>4, <2>5, <2>6, <3>2, RunsTwo
  <2>7. CASE ~ c.icon
    <3>1. MembershipWrites[c] = Writes(1, 0)
      <4>1. Moved(c) /\ ~ Organized(c)
        BY <1>3, <2>7 DEF Moved, Organized
      <4> QED BY <4>1, MembershipIs
    <3>2. Block(MembershipWrites, c, a) = Add(a, c.id, 1, 0)
      BY <3>1, BlockIs
    <3>3. MembershipSteps(c) = <<s>>
      BY <2>1, <2>7
    <3> HIDE DEF s, u
    <3> QED BY <2>2, <2>3, <3>2, <3>3, RunsOne
  <2> QED BY <2>6, <2>7
<1>4. CASE c.kind = "NOTE" /\ c.into = NoId
  <2> DEFINE s == Step("MOVE_TEXT", c, 1, 0)
             u == Step("NOTE_ICON", c, 1, 0)
  <2>1. s \in StepType /\ Finds(s, a) /\ u \in StepType /\ Finds(u, a)
    BY <1>1, <1>4, StepFields DEF Finds
  <2>2. Leaves(s, a) = Add(a, c.id, 0, 1) /\ Leaves(u, a) = Add(a, c.id, 0, 1)
    BY <2>1, StepFields, LeavesAdd
  <2>3. MembershipSteps(c) = IF c.text THEN <<s>> ELSE IF c.icon THEN <<u>> ELSE <<>>
    <3> DEFINE move == IF c.text THEN <<s>> ELSE <<>>
               icon == IF c.icon THEN <<u>> ELSE <<>>
    <3>1. ~ (c.text /\ c.icon)
      BY <1>4
    <3>2. MembershipSteps(c) = (IF c.text THEN <<s>> ELSE <<>>)
            \o (IF c.icon THEN <<Step("NOTE_ICON", c, IF c.text THEN 2 ELSE 1,
                                     IF c.text THEN 1 ELSE 0)>> ELSE <<>>)
      BY <1>4 DEF MembershipSteps
    <3>3. MembershipSteps(c) = move \o icon
      BY <3>1, <3>2
    <3> HIDE DEF s, u
    <3> QED BY <3>1, <3>3
  <2>4. MembershipWrites[c] = Writes(0, IF c.text \/ c.icon THEN 1 ELSE 0)
    <3>1. c.kind # "WORK" /\ ~ (c.into # NoId)
      BY <1>4
    <3>2. ~ Moved(c) /\ (Organized(c) <=> c.text \/ c.icon)
      BY <1>4, <3>1 DEF Moved, Organized
    <3> QED BY <3>2, MembershipIs
  <2>5. CASE c.text \/ c.icon
    <3>1. Block(MembershipWrites, c, a) = Add(a, c.id, 0, 1)
      BY <2>4, <2>5, BlockIs
    <3> HIDE DEF s, u
    <3> QED BY <2>1, <2>2, <2>3, <2>5, <3>1, RunsOne
  <2>6. CASE ~ (c.text \/ c.icon)
    <3>1. MembershipWrites[c] = Writes(0, 0)
      BY <2>4, <2>6
    <3> QED BY <2>3, <2>6, <3>1, NoneRuns
  <2> QED BY <2>5, <2>6
<1>5. CASE ~ (c.kind = "WORK" /\ c.archived) /\ c.kind # "NOTE"
  <2>1. MembershipSteps(c) = <<>> /\ MembershipWrites[c] = Writes(0, 0)
    BY <1>5 DEF MembershipSteps, MembershipWrites
  <2> QED BY <2>1, NoneRuns
<1> QED BY <1>2, <1>3, <1>4, <1>5

-----------------------------------------------------------------------------
(* What a phase leaves, and the lists of copies that the phases go by. *)

\* After a phase over the copies R, each is written D times and nothing else is.
Wrote(D, R, a, b) ==
  /\ b \in Versions
  /\ \A c \in R : \A part \in Parts : b[Row(c.id, part)] = a[Row(c.id, part)] + D[c][part]
  /\ \A row \in Rows : row[1] \notin {c.id : c \in R} => b[row] = a[row]
  /\ \A row \in Rows : a[row] <= b[row]

\* The steps of the i-th copy run where its own rows are as they were and those of
\* the copies before it are written.
Follows(D, q, i, a, b) ==
  /\ \A part \in Parts : b[Row(q[i].id, part)] = a[Row(q[i].id, part)]
  /\ \A row \in Rows : a[row] <= b[row]
  /\ \A k \in 1 .. i - 1 : \A part \in Parts :
       b[Row(q[k].id, part)] = a[Row(q[k].id, part)] + D[q[k]][part]

\* A phase every copy of which runs so.
Steady(F, D, q, a) ==
  \A i \in 1 .. Len(q) : \A b \in Versions :
    Follows(D, q, i, a, b) => Runs(F[q[i]], b, Block(D, q[i], b))

\* A phase only adds writes.
LEMMA BumpedMore ==
  ASSUME NEW D \in [CopyType -> [Parts -> Nat]], NEW q \in Seq(CopyType), NEW a \in Versions,
         NEW b, NEW n \in 0 .. Len(q), Bumped(D, q, n, a, b)
  PROVE  \A row \in Rows : a[row] <= b[row]
<1> SUFFICES ASSUME NEW row \in Rows PROVE a[row] <= b[row]
  OBVIOUS
<1>1. PICK y \in Nat : y = a[row]
  BY DEF Versions
<1>2. CASE \E k \in 1 .. n : q[k].id = row[1]
  <2>1. PICK k \in 1 .. n : q[k].id = row[1]
    BY <1>2
  <2>2. q[k] \in CopyType
    <3> HIDE DEF CopyType
    <3> QED OBVIOUS
  <2>3. row[2] \in Parts /\ row = Row(q[k].id, row[2])
    BY <2>1 DEF Rows, Row
  <2>4. b[row] = a[row] + D[q[k]][row[2]] /\ D[q[k]][row[2]] \in Nat
    <3> HIDE DEF CopyType
    <3> QED BY <2>2, <2>3 DEF Bumped
  <2> QED BY <1>1, <2>4
<1>3. CASE ~ \E k \in 1 .. n : q[k].id = row[1]
  <2>1. b[row] = a[row]
    BY <1>3 DEF Bumped
  <2> QED BY <1>1, <2>1
<1> QED BY <1>2, <1>3

\* A steady phase is runnable, as its copies are distinct.
LEMMA SteadyRunnable ==
  ASSUME NEW F, NEW D \in [CopyType -> [Parts -> Nat]],
         NEW q \in Seq(CopyType), Distinct(q), NEW a \in Versions, Steady(F, D, q, a)
  PROVE  Runnable(F, D, q, a)
<1>0. \A c \in CopyType : c.id \in Ids
  BY DEF CopyType
<1> HIDE DEF CopyType
<1> SUFFICES ASSUME NEW i \in 1 .. Len(q), NEW b \in Versions, Bumped(D, q, i - 1, a, b)
             PROVE  Runs(F[q[i]], b, Block(D, q[i], b))
  BY DEF Runnable
<1>1. \A row \in Rows : a[row] <= b[row]
  <2>1. i - 1 \in 0 .. Len(q)
    OBVIOUS
  <2> QED BY <2>1, BumpedMore
<1>2. ASSUME NEW part \in Parts
      PROVE  b[Row(q[i].id, part)] = a[Row(q[i].id, part)]
  <2>1. q[i] \in CopyType /\ DOMAIN q = 1 .. Len(q)
    OBVIOUS
  <2>2. Row(q[i].id, part) \in Rows /\ Row(q[i].id, part)[1] = q[i].id
    BY <1>0, <2>1, RowParts
  <2>3. \A k \in 1 .. i - 1 : k \in 1 .. Len(q) /\ k # i
    OBVIOUS
  <2>4. \A k \in 1 .. i - 1 : q[k].id # q[i].id
    BY <2>1, <2>3 DEF Distinct
  <2> QED BY <2>2, <2>4 DEF Bumped
<1>3. Follows(D, q, i, a, b)
  BY <1>1, <1>2 DEF Follows, Bumped
<1> QED BY <1>3 DEF Steady

\* And it leaves each copy written D times.
LEMMA PhaseWrites ==
  ASSUME NEW F \in [CopyType -> Seq(StepType)], NEW D \in [CopyType -> [Parts -> Nat]],
         NEW q \in Seq(CopyType), Distinct(q), NEW a \in Versions, Steady(F, D, q, a)
  PROVE  \E b \in Versions : Wrote(D, Range(q), a, b) /\ Runs(Each(F, q), a, b)
<1> HIDE DEF CopyType, StepType
<1>1. PICK b \in Versions : Bumped(D, q, Len(q), a, b) /\ Runs(Each(F, q), a, b)
  BY SteadyRunnable, PhaseRuns
<1>2. \A c : c \in Range(q) <=> \E k \in 1 .. Len(q) : q[k] = c
  BY RangeIs
<1>3. Len(q) \in 0 .. Len(q)
  OBVIOUS
<1>4. \A row \in Rows : a[row] <= b[row]
  BY <1>1, <1>3, BumpedMore
<1>5. \A c \in Range(q) : \A part \in Parts :
        b[Row(c.id, part)] = a[Row(c.id, part)] + D[c][part]
  <2> SUFFICES ASSUME NEW c \in Range(q), NEW part \in Parts
               PROVE  b[Row(c.id, part)] = a[Row(c.id, part)] + D[c][part]
    OBVIOUS
  <2>1. PICK k \in 1 .. Len(q) : q[k] = c
    BY <1>2
  <2>2. b[Row(q[k].id, part)] = a[Row(q[k].id, part)] + D[q[k]][part]
    BY <1>1 DEF Bumped
  <2> QED BY <2>1, <2>2
<1>6. \A row \in Rows : row[1] \notin {c.id : c \in Range(q)} => b[row] = a[row]
  BY <1>1, <1>2 DEF Bumped
<1> QED BY <1>1, <1>4, <1>5, <1>6 DEF Wrote

\* Two copies of one identity are one.
LEMMA DistinctRange ==
  ASSUME NEW q, Distinct(q), NEW c \in Range(q), NEW d \in Range(q), c.id = d.id
  PROVE  c = d
BY DEF Distinct, Range

-----------------------------------------------------------------------------
(* The copies of a selection. *)

\* The copies of a selection that each phase is about.
OwnersOf(copies) == {c \in Range(copies) : c.kind \in Owners}
OrdersOf(copies) == {c \in Range(copies) : c.kind = "ORDER"}
FoldersOf(copies) == {c \in Range(copies) : c.kind = "FOLDER" /\ ~ c.archived}

\* What CopiesAssumption says of the selected copies.
LEMMA CopiesParts ==
  ASSUME NEW copies \in Selections
  PROVE  /\ copies \in Seq(CopyType) /\ Distinct(copies) /\ Range(copies) \subseteq CopyType
         /\ \A c \in Range(copies) : c.id \in Orders => c.kind = "ORDER"
         /\ \A c \in OwnersOf(copies) : c.under \notin Orders \cup {NoId} =>
              \E d \in OwnersOf(copies) : d.id = c.under
<1> HIDE DEF CopyType
<1>1. copies \in Seq(CopyType)
  BY ImportAssumption
<1>2. /\ \A c : c \in Range(copies) <=> \E i \in DOMAIN copies : copies[i] = c
      /\ Range(copies) \subseteq CopyType
  BY <1>1, RangeIs
<1>3. Distinct(copies)
  BY CopiesAssumption DEF Distinct
<1>4. ASSUME NEW c \in Range(copies)
      PROVE  /\ c.id \in Orders => c.kind = "ORDER"
             /\ c.kind \in Owners /\ c.under \notin Orders \cup {NoId} =>
                  \E d \in OwnersOf(copies) : d.id = c.under
  <2>1. PICK i \in DOMAIN copies : copies[i] = c
    BY <1>2
  <2>2. /\ c.id \in Orders => c.kind = "ORDER"
        /\ c.kind \in Owners /\ c.under \notin Orders \cup {NoId} =>
                  \E k \in DOMAIN copies : copies[k].id = c.under /\ copies[k].kind \in Owners
    BY <2>1, CopiesAssumption
  <2> QED BY <1>2, <2>2 DEF OwnersOf
<1> QED BY <1>1, <1>2, <1>3, <1>4 DEF OwnersOf

\* The lists by kind, and that of the folders, have just those copies.
LEMMA OfKindIs ==
  ASSUME NEW copies \in Seq(CopyType), Distinct(copies), NEW kinds
  PROVE  /\ OfKind(kinds, copies) \in Seq(CopyType) /\ Distinct(OfKind(kinds, copies))
         /\ Range(OfKind(kinds, copies)) = {c \in Range(copies) : c.kind \in kinds}
<1> DEFINE P == {c \in CopyType : c.kind \in kinds}
<1> HIDE DEF CopyType
<1>1. OfKind(kinds, copies) = Kept(copies, P)
  <2>1. [i \in DOMAIN copies |-> IF copies[i].kind \in kinds THEN <<copies[i]>> ELSE <<>>]
        = [i \in DOMAIN copies |-> IF copies[i] \in P THEN <<copies[i]>> ELSE <<>>]
    OBVIOUS
  <2> HIDE DEF P
  <2> QED BY <2>1 DEF OfKind, Those, EachOf, Kept
<1>2. Range(copies) \subseteq CopyType
  BY RangeIs
<1>3. Range(copies) \cap P = {c \in Range(copies) : c.kind \in kinds}
  BY <1>2
<1> HIDE DEF P
<1> QED BY <1>1, <1>3, KeptAre

LEMMA FoldersAre ==
  ASSUME NEW copies \in Seq(CopyType), Distinct(copies)
  PROVE  /\ Folders(copies) \in Seq(CopyType) /\ Distinct(Folders(copies))
         /\ Range(Folders(copies)) = FoldersOf(copies)
<1> DEFINE P == {c \in CopyType : c.kind = "FOLDER" /\ ~ c.archived}
<1> HIDE DEF CopyType
<1>1. Folders(copies) = Kept(copies, P)
  <2>1. [i \in DOMAIN copies |->
           IF copies[i].kind = "FOLDER" /\ ~ copies[i].archived THEN <<copies[i]>> ELSE <<>>]
        = [i \in DOMAIN copies |-> IF copies[i] \in P THEN <<copies[i]>> ELSE <<>>]
    OBVIOUS
  <2> HIDE DEF P
  <2> QED BY <2>1 DEF Folders, Those, EachOf, Kept
<1>2. Range(copies) \subseteq CopyType
  BY RangeIs
<1>3. Range(copies) \cap P = FoldersOf(copies)
  BY <1>2 DEF FoldersOf
<1> HIDE DEF P
<1> QED BY <1>1, <1>3, KeptAre

\* The lists of the phases: all the copies of their kind, those that others belong
\* to before them.
LEMMA PlanLists ==
  ASSUME NEW copies \in Selections, Plannable(copies)
  PROVE  /\ \A q \in {Entities(copies), InOrder(Entities(copies))} :
              q \in Seq(CopyType) /\ Distinct(q) /\ Range(q) = OwnersOf(copies)
         /\ \A q \in {Folders(copies), InOrder(Folders(copies))} :
              q \in Seq(CopyType) /\ Distinct(q) /\ Range(q) = FoldersOf(copies)
         /\ LET q == OfKind({"ORDER"}, copies) IN
              q \in Seq(CopyType) /\ Distinct(q) /\ Range(q) = OrdersOf(copies)
         /\ Ordered(Entities(copies), InOrder(Entities(copies)))
         /\ Ordered(Folders(copies), InOrder(Folders(copies)))
<1> HIDE DEF CopyType
<1>1. copies \in Seq(CopyType) /\ Distinct(copies)
  BY CopiesParts
<1>2. /\ Entities(copies) \in Seq(CopyType) /\ Distinct(Entities(copies))
      /\ Range(Entities(copies)) = OwnersOf(copies)
  BY <1>1, OfKindIs DEF Entities, OwnersOf
<1>3. /\ Folders(copies) \in Seq(CopyType) /\ Distinct(Folders(copies))
      /\ Range(Folders(copies)) = FoldersOf(copies)
  BY <1>1, FoldersAre
<1>4. /\ OfKind({"ORDER"}, copies) \in Seq(CopyType) /\ Distinct(OfKind({"ORDER"}, copies))
      /\ Range(OfKind({"ORDER"}, copies)) = OrdersOf(copies)
  BY <1>1, OfKindIs DEF OrdersOf
<1>5. /\ Len(InOrder(Entities(copies))) = Len(Entities(copies))
      /\ Len(InOrder(Folders(copies))) = Len(Folders(copies))
  BY DEF Plannable
<1>6. /\ InOrder(Entities(copies)) \in Seq(CopyType)
      /\ Ordered(Entities(copies), InOrder(Entities(copies)))
      /\ Range(InOrder(Entities(copies))) = OwnersOf(copies)
  BY <1>2, <1>5, InOrderOrdered
<1>7. /\ InOrder(Folders(copies)) \in Seq(CopyType)
      /\ Ordered(Folders(copies), InOrder(Folders(copies)))
      /\ Range(InOrder(Folders(copies))) = FoldersOf(copies)
  BY <1>3, <1>5, InOrderOrdered
<1> QED BY <1>2, <1>3, <1>4, <1>6, <1>7 DEF Ordered

-----------------------------------------------------------------------------
(* The phases of the plan, each from where those before it have led. *)

\* The versions that an import begins with.
Start == [row \in Rows |-> IF row[1] \in Orders /\ row[2] = "ENTITY" THEN 1 ELSE 0]

\* The steps of a copy in each phase, as functions.
CreateOf == [c \in CopyType |-> CreateSteps(c)]
FinalOf == [c \in CopyType |-> FinalSteps(c)]
OrderOf == [c \in CopyType |-> OrderSteps(c)]
FolderOf == [c \in CopyType |-> FolderSteps(c)]
MembershipOf == [c \in CopyType |-> MembershipSteps(c)]

\* They are lists of steps, and EachOf goes by them.
LEMMA StepsOfType ==
  ASSUME TypeOK
  PROVE  /\ CreateOf \in [CopyType -> Seq(StepType)] /\ FinalOf \in [CopyType -> Seq(StepType)]
         /\ OrderOf \in [CopyType -> Seq(StepType)] /\ FolderOf \in [CopyType -> Seq(StepType)]
         /\ MembershipOf \in [CopyType -> Seq(StepType)]
<1>1. \A c \in CopyType :
         /\ CreateSteps(c) \in Seq(StepType) /\ FinalSteps(c) \in Seq(StepType)
         /\ OrderSteps(c) \in Seq(StepType) /\ FolderSteps(c) \in Seq(StepType)
         /\ MembershipSteps(c) \in Seq(StepType)
  BY CopySteps
<1> HIDE DEF CopyType, StepType
<1> QED BY <1>1 DEF CreateOf, FinalOf, OrderOf, FolderOf, MembershipOf

LEMMA EachOfIs ==
  ASSUME NEW q \in Seq(CopyType)
  PROVE  /\ EachOf(q, CreateSteps) = Each(CreateOf, q) /\ EachOf(q, FinalSteps) = Each(FinalOf, q)
         /\ EachOf(q, OrderSteps) = Each(OrderOf, q) /\ EachOf(q, FolderSteps) = Each(FolderOf, q)
         /\ EachOf(q, MembershipSteps) = Each(MembershipOf, q)
<1> HIDE DEF CopyType
<1>1. \A i \in DOMAIN q : q[i] \in CopyType
  OBVIOUS
<1>2. /\ [i \in DOMAIN q |-> CreateSteps(q[i])] = [i \in DOMAIN q |-> CreateOf[q[i]]]
      /\ [i \in DOMAIN q |-> FinalSteps(q[i])] = [i \in DOMAIN q |-> FinalOf[q[i]]]
      /\ [i \in DOMAIN q |-> OrderSteps(q[i])] = [i \in DOMAIN q |-> OrderOf[q[i]]]
      /\ [i \in DOMAIN q |-> FolderSteps(q[i])] = [i \in DOMAIN q |-> FolderOf[q[i]]]
      /\ [i \in DOMAIN q |-> MembershipSteps(q[i])] = [i \in DOMAIN q |-> MembershipOf[q[i]]]
  BY <1>1 DEF CreateOf, FinalOf, OrderOf, FolderOf, MembershipOf
<1> QED BY <1>2 DEF EachOf, Each

\* At the start only the manual orders are there, in version 1.
LEMMA StartIs ==
  /\ Start \in Versions
  /\ \A id \in Ids : /\ Start[Row(id, "ENTITY")] = IF id \in Orders THEN 1 ELSE 0
                     /\ Start[Row(id, "ORG")] = 0
<1>1. Start \in Versions
  BY DEF Start, Versions
<1> QED BY <1>1 DEF Start, Row, Rows, Parts

-----------------------------------------------------------------------------
(* The phases. *)

\* Each phase is steady after those before it: owners come first ...
LEMMA CreateSteady ==
  ASSUME NEW copies \in Selections, Plannable(copies)
  PROVE  Steady(CreateOf, CreateWrites, InOrder(Entities(copies)), Start)
<1> DEFINE q == InOrder(Entities(copies))
<1>0. \A c \in CopyType : c.id \in Ids /\ c.under \in Ids \cup {NoId}
  BY DEF CopyType
<1> HIDE DEF CopyType
<1>1. /\ q \in Seq(CopyType) /\ Distinct(q) /\ Range(q) = OwnersOf(copies)
      /\ Range(Entities(copies)) = OwnersOf(copies) /\ Ordered(Entities(copies), q)
  BY PlanLists
<1> HIDE DEF q
<1>2. /\ \A c : c \in Range(q) <=> \E k \in 1 .. Len(q) : q[k] = c
      /\ DOMAIN q = 1 .. Len(q)
  BY <1>1, RangeIs
<1> SUFFICES ASSUME NEW i \in 1 .. Len(q), NEW b \in Versions, Follows(CreateWrites, q, i, Start, b)
             PROVE  Runs(CreateOf[q[i]], b, Block(CreateWrites, q[i], b))
  BY DEF Steady, q
<1>3. PICK c : c = q[i] /\ c \in OwnersOf(copies) /\ c \in CopyType
  BY <1>1, <1>2
<1>4. c.id \notin Orders /\ c.id \in Ids /\ c.under \in Ids \cup {NoId}
  BY <1>0, <1>3, CopiesParts DEF OwnersOf, Owners
<1>5. b[Row(c.id, "ENTITY")] = 0
  BY <1>3, <1>4, StartIs DEF Follows, Parts
<1>6. ASSUME c.under # NoId PROVE b[Row(c.under, "ENTITY")] > 0
  <2>0. c.under \in Ids /\ Row(c.under, "ENTITY") \in Rows
    BY <1>4, <1>6, RowParts
  <2>1. CASE c.under \in Orders
    <3>1. Start[Row(c.under, "ENTITY")] = 1
      BY <2>0, <2>1, StartIs
    <3>2. 1 <= b[Row(c.under, "ENTITY")] /\ b[Row(c.under, "ENTITY")] \in Nat
      BY <2>0, <3>1 DEF Follows, Versions
    <3> QED BY <3>2
  <2>2. CASE c.under \notin Orders
    <3>1. PICK d \in OwnersOf(copies) : d.id = c.under
      BY <1>3, <1>6, <2>2, CopiesParts
    <3>2. PICK k \in 1 .. i - 1 : q[k].id = c.under
      BY <1>1, <1>2, <1>3, <3>1 DEF Ordered
    <3>3. k \in 1 .. Len(q) /\ q[k] \in CopyType
      BY <1>1
    <3>4. CreateWrites[q[k]]["ENTITY"] \in {1, 2}
      BY <3>3 DEF CreateWrites, Writes, Parts
    <3>5. b[Row(q[k].id, "ENTITY")] = Start[Row(q[k].id, "ENTITY")] + CreateWrites[q[k]]["ENTITY"]
      BY DEF Follows, Parts
    <3>6. Start[Row(q[k].id, "ENTITY")] \in {0, 1}
      BY <2>0, <3>2, StartIs
    <3> QED BY <3>2, <3>4, <3>5, <3>6
  <2> QED BY <2>1, <2>2
<1>7. Runs(CreateSteps(c), b, Block(CreateWrites, c, b))
  BY <1>3, <1>5, <1>6, CreateRuns
<1>8. CreateOf[c] = CreateSteps(c)
  BY <1>3 DEF CreateOf
<1> QED BY <1>3, <1>7, <1>8

\* ... created work is saved once more ...
LEMMA FinalSteady ==
  ASSUME NEW copies \in Selections, Plannable(copies), NEW a \in Versions,
         Wrote(CreateWrites, OwnersOf(copies), Start, a)
  PROVE  Steady(FinalOf, FinalWrites, Entities(copies), a)
<1> DEFINE q == Entities(copies)
<1>0. \A c \in CopyType : c.id \in Ids
  BY DEF CopyType
<1> HIDE DEF CopyType
<1>1. q \in Seq(CopyType) /\ Range(q) = OwnersOf(copies)
  BY PlanLists
<1> HIDE DEF q
<1>2. \A c : c \in Range(q) <=> \E k \in 1 .. Len(q) : q[k] = c
  BY <1>1, RangeIs
<1> SUFFICES ASSUME NEW i \in 1 .. Len(q), NEW b \in Versions, Follows(FinalWrites, q, i, a, b)
             PROVE  Runs(FinalOf[q[i]], b, Block(FinalWrites, q[i], b))
  BY DEF Steady, q
<1>3. PICK c : c = q[i] /\ c \in OwnersOf(copies) /\ c \in CopyType /\ c.id \in Ids
  BY <1>0, <1>1, <1>2
<1>4. FinalOf[c] = FinalSteps(c)
  BY <1>3 DEF FinalOf
<1>5. CASE c.kind = "WORK"
  <2>1. c.id \notin Orders
    BY <1>3, CopiesParts DEF OwnersOf, Owners
  <2>2. CreateWrites[c]["ENTITY"] = 1
    BY <1>3, <1>5 DEF CreateWrites, Writes, Parts
  <2>3. a[Row(c.id, "ENTITY")] = 1
    BY <1>3, <2>1, <2>2, StartIs DEF Wrote, Parts
  <2>4. b[Row(c.id, "ENTITY")] = 1
    BY <1>3, <2>3 DEF Follows, Parts
  <2>5. FinalWrites[c] = Writes(1, 0)
    BY <1>3, <1>5 DEF FinalWrites
  <2>6. FinalSteps(c) = <<Step("SAVE", c, 1, 0)>>
    BY <1>5 DEF FinalSteps
  <2>7. Runs(<<Step("SAVE", c, 1, 0)>>, b, Block(FinalWrites, c, b))
    BY <1>3, <2>4, <2>5, SaveRuns
  <2> QED BY <1>3, <1>4, <2>6, <2>7
<1>6. CASE c.kind # "WORK"
  <2>1. FinalWrites[c] = Writes(0, 0)
    BY <1>3, <1>6 DEF FinalWrites
  <2>2. FinalSteps(c) = <<>>
    BY <1>6 DEF FinalSteps
  <2> QED BY <1>3, <1>4, <2>1, <2>2, NoneRuns
<1> QED BY <1>5, <1>6

\* ... a manual order is found as it is ...
LEMMA OrderSteady ==
  ASSUME NEW copies \in Selections, Plannable(copies), NEW a \in Versions, at \in Versions,
         \A c \in OrdersOf(copies) : a[Row(c.id, "ENTITY")] = at[Row(c.id, "ENTITY")]
  PROVE  Steady(OrderOf, OrderWrites, OfKind({"ORDER"}, copies), a)
<1> DEFINE q == OfKind({"ORDER"}, copies)
<1>0. \A c \in CopyType : c.id \in Ids
  BY DEF CopyType
<1> HIDE DEF CopyType
<1>1. q \in Seq(CopyType) /\ Range(q) = OrdersOf(copies)
  BY PlanLists
<1> HIDE DEF q
<1>2. \A c : c \in Range(q) <=> \E k \in 1 .. Len(q) : q[k] = c
  BY <1>1, RangeIs
<1> SUFFICES ASSUME NEW i \in 1 .. Len(q), NEW b \in Versions, Follows(OrderWrites, q, i, a, b)
             PROVE  Runs(OrderOf[q[i]], b, Block(OrderWrites, q[i], b))
  BY DEF Steady, q
<1>3. PICK c : c = q[i] /\ c \in OrdersOf(copies) /\ c \in CopyType /\ c.id \in Ids
  BY <1>0, <1>1, <1>2
<1>4. OrderOf[c] = <<Step("SAVE", c, at[Row(c.id, "ENTITY")], 0)>>
  BY <1>3 DEF OrderOf, OrderSteps
<1>5. at[Row(c.id, "ENTITY")] \in Nat
  BY <1>3, RowParts DEF Versions
<1>6. b[Row(c.id, "ENTITY")] = at[Row(c.id, "ENTITY")]
  BY <1>3 DEF Follows, Parts
<1>7. OrderWrites[c] = Writes(1, 0)
  BY <1>3 DEF OrderWrites
<1>8. Runs(<<Step("SAVE", c, at[Row(c.id, "ENTITY")], 0)>>, b, Block(OrderWrites, c, b))
  BY <1>3, <1>5, <1>6, <1>7, SaveRuns
<1> QED BY <1>3, <1>4, <1>8

\* ... folders are new, parents first ...
LEMMA FolderSteady ==
  ASSUME NEW copies \in Selections, Plannable(copies), NEW a \in Versions,
         \A c \in FoldersOf(copies) : a[Row(c.id, "ORG")] = 0
  PROVE  Steady(FolderOf, FolderWrites, InOrder(Folders(copies)), a)
<1> DEFINE q == InOrder(Folders(copies))
<1>0. \A c \in CopyType : c.id \in Ids
  BY DEF CopyType
<1> HIDE DEF CopyType
<1>1. /\ q \in Seq(CopyType) /\ Distinct(q) /\ Range(q) = FoldersOf(copies)
      /\ Range(Folders(copies)) = FoldersOf(copies) /\ Ordered(Folders(copies), q)
      /\ \A c \in FoldersOf(copies) : c.under \in {d.id : d \in FoldersOf(copies)} \cup {NoId}
  BY PlanLists DEF Plannable
<1> HIDE DEF q
<1>2. /\ \A c : c \in Range(q) <=> \E k \in 1 .. Len(q) : q[k] = c
      /\ DOMAIN q = 1 .. Len(q)
  BY <1>1, RangeIs
<1> SUFFICES ASSUME NEW i \in 1 .. Len(q), NEW b \in Versions, Follows(FolderWrites, q, i, a, b)
             PROVE  Runs(FolderOf[q[i]], b, Block(FolderWrites, q[i], b))
  BY DEF Steady, q
<1>3. PICK c : c = q[i] /\ c \in FoldersOf(copies) /\ c \in CopyType
  BY <1>1, <1>2
<1>5. b[Row(c.id, "ORG")] = 0
  BY <1>3 DEF Follows, Parts
<1>6. ASSUME c.under # NoId PROVE b[Row(c.under, "ORG")] > 0
  <2>1. PICK d \in FoldersOf(copies) : d.id = c.under
    BY <1>1, <1>3, <1>6
  <2>2. PICK k \in 1 .. i - 1 : q[k].id = c.under
    BY <1>1, <1>2, <1>3, <2>1 DEF Ordered
  <2>3. k \in 1 .. Len(q) /\ q[k] \in CopyType /\ q[k] \in FoldersOf(copies)
    BY <1>1, <1>2
  <2>4. FolderWrites[q[k]]["ORG"] \in {1, 2}
    BY <2>3 DEF FolderWrites, Writes, Parts
  <2>5. b[Row(q[k].id, "ORG")] = a[Row(q[k].id, "ORG")] + FolderWrites[q[k]]["ORG"]
    BY DEF Follows, Parts
  <2>6. a[Row(q[k].id, "ORG")] = 0
    BY <2>3
  <2> QED BY <2>2, <2>4, <2>5, <2>6
<1>7. Runs(FolderSteps(c), b, Block(FolderWrites, c, b))
  BY <1>3, <1>5, <1>6, FolderRuns
<1>8. FolderOf[c] = FolderSteps(c)
  BY <1>3 DEF FolderOf
<1> QED BY <1>3, <1>7, <1>8

\* ... and memberships find what was created and saved, and their folders.
LEMMA MembershipSteady ==
  ASSUME NEW copies \in Selections, Plannable(copies), NEW a \in Versions,
         \A c \in OwnersOf(copies) :
           /\ ~ (c.kind = "NOTE" /\ c.into = NoId /\ c.text /\ c.icon)
           /\ c.kind = "WORK" => a[Row(c.id, "ENTITY")] = 2
           /\ c.kind = "NOTE" => a[Row(c.id, "ENTITY")] = 1
           /\ a[Row(c.id, "ORG")] = 0,
         \A c \in FoldersOf(copies) : a[Row(c.id, "ORG")] > 0
  PROVE  Steady(MembershipOf, MembershipWrites, Entities(copies), a)
<1> DEFINE q == Entities(copies)
<1>0. \A c \in CopyType : c.id \in Ids /\ c.into \in Ids \cup {NoId}
  BY DEF CopyType
<1> HIDE DEF CopyType
<1>1. q \in Seq(CopyType) /\ Range(q) = OwnersOf(copies)
  BY PlanLists
<1> HIDE DEF q
<1>2. \A c : c \in Range(q) <=> \E k \in 1 .. Len(q) : q[k] = c
  BY <1>1, RangeIs
<1> SUFFICES ASSUME NEW i \in 1 .. Len(q), NEW b \in Versions, Follows(MembershipWrites, q, i, a, b)
             PROVE  Runs(MembershipOf[q[i]], b, Block(MembershipWrites, q[i], b))
  BY DEF Steady, q
<1>3. PICK c : c = q[i] /\ c \in OwnersOf(copies) /\ c \in CopyType /\ c.id \in Ids
  BY <1>0, <1>1, <1>2
<1>4. MembershipOf[c] = MembershipSteps(c)
  BY <1>3 DEF MembershipOf
<1>5. /\ c.kind = "WORK" => b[Row(c.id, "ENTITY")] = 2
      /\ c.kind = "NOTE" => b[Row(c.id, "ENTITY")] = 1
      /\ b[Row(c.id, "ORG")] = 0
  BY <1>3 DEF Follows, Parts
<1>6. ASSUME c.kind = "NOTE", c.into # NoId
      PROVE  b[Row(c.into, "ORG")] > 0 /\ c.into \in Ids
  <2>1. c.into \in Ids /\ Row(c.into, "ORG") \in Rows
    BY <1>0, <1>3, <1>6, RowParts
  <2>2. c.into \in {d.id : d \in FoldersOf(copies)}
    BY <1>3, <1>6, PlanLists DEF Plannable, OwnersOf
  <2>3. a[Row(c.into, "ORG")] > 0 /\ a[Row(c.into, "ORG")] \in Nat /\ b[Row(c.into, "ORG")] \in Nat
    BY <2>1, <2>2 DEF Versions
  <2>4. a[Row(c.into, "ORG")] <= b[Row(c.into, "ORG")]
    BY <2>1 DEF Follows
  <2> QED BY <2>1, <2>3, <2>4
<1>7. ~ (c.kind = "NOTE" /\ c.into = NoId /\ c.text /\ c.icon)
  BY <1>3
<1>8. Runs(MembershipSteps(c), b, Block(MembershipWrites, c, b))
  BY <1>3, <1>5, <1>6, <1>7, MembershipRuns
<1> QED BY <1>3, <1>4, <1>8

-----------------------------------------------------------------------------
(* The plan as a whole runs from an empty destination. *)

\* No note that goes into a folder of the old, textual kind has an icon of its own.
\* The plan of such a note expects version 2 of its organization where there is 1, so
\* neither theorem below holds of it: MCWorkspaceImport keeps it as LegacySelections.
NoLegacyIcons ==
  \A copies \in Selections : \A c \in Range(copies) :
    ~ (c.kind = "NOTE" /\ c.into = NoId /\ c.text /\ c.icon)

\* The copies of a plan: who writes what.
LEMMA KindsApart ==
  ASSUME NEW copies \in Selections
  PROVE  /\ OwnersOf(copies) \subseteq CopyType /\ OrdersOf(copies) \subseteq CopyType
         /\ FoldersOf(copies) \subseteq CopyType
         /\ \A c \in OwnersOf(copies) \cup OrdersOf(copies) \cup FoldersOf(copies) : c.id \in Ids
         /\ \A c \in OwnersOf(copies) \cup FoldersOf(copies) : c.id \notin Orders
         /\ \A c \in OwnersOf(copies), d \in OrdersOf(copies) \cup FoldersOf(copies) : c.id # d.id
         /\ \A c \in OrdersOf(copies), d \in FoldersOf(copies) : c.id # d.id
<1>0. \A c \in CopyType : c.id \in Ids
  BY DEF CopyType
<1> HIDE DEF CopyType
<1>1. /\ Distinct(copies) /\ Range(copies) \subseteq CopyType
      /\ \A c \in Range(copies) : c.id \in Orders => c.kind = "ORDER"
  BY CopiesParts
<1>2. \A c, d \in Range(copies) : c.id = d.id => c = d
  BY <1>1, DistinctRange
<1> QED BY <1>0, <1>1, <1>2 DEF OwnersOf, OrdersOf, FoldersOf, Owners

\* A phase leaves what it is not about; its steps are a list.
LEMMA WroteElsewhere ==
  ASSUME NEW D, NEW R, NEW a, NEW b, Wrote(D, R, a, b), NEW id \in Ids, \A c \in R : c.id # id
  PROVE  \A part \in Parts : b[Row(id, part)] = a[Row(id, part)]
BY RowParts DEF Wrote

LEMMA EachIsType ==
  ASSUME NEW S, NEW T, NEW F \in [S -> Seq(T)], NEW q \in Seq(S)
  PROVE  Each(F, q) \in Seq(T)
<1> DEFINE f == [i \in DOMAIN q |-> F[q[i]]]
<1>1. \A i \in 1 .. Len(q) : f[i] \in Seq(T)
  OBVIOUS
<1>2. DOMAIN f = DOMAIN q /\ f = [i \in DOMAIN q |-> f[i]]
  OBVIOUS
<1> HIDE DEF f
<1>3. FlattenSeq(f) \in Seq(T)
  BY <1>1, <1>2, EachType
<1> QED BY <1>3 DEF Each, f

\* The phases run one after the other.
LEMMA PlanRuns ==
  ASSUME TypeOK, NEW copies \in Selections, Plannable(copies), at = Start,
         \A c \in Range(copies) : ~ (c.kind = "NOTE" /\ c.into = NoId /\ c.text /\ c.icon)
  PROVE  \E b : Runs(Plan(copies), Start, b)
<1> DEFINE q1 == InOrder(Entities(copies))
           q2 == Entities(copies)
           q3 == OfKind({"ORDER"}, copies)
           q4 == InOrder(Folders(copies))
<1> HIDE DEF CopyType, StepType
<1>1. /\ q1 \in Seq(CopyType) /\ Distinct(q1) /\ Range(q1) = OwnersOf(copies)
      /\ q2 \in Seq(CopyType) /\ Distinct(q2) /\ Range(q2) = OwnersOf(copies)
      /\ q3 \in Seq(CopyType) /\ Distinct(q3) /\ Range(q3) = OrdersOf(copies)
      /\ q4 \in Seq(CopyType) /\ Distinct(q4) /\ Range(q4) = FoldersOf(copies)
  BY PlanLists
<1>2. /\ CreateOf \in [CopyType -> Seq(StepType)] /\ FinalOf \in [CopyType -> Seq(StepType)]
      /\ OrderOf \in [CopyType -> Seq(StepType)] /\ FolderOf \in [CopyType -> Seq(StepType)]
      /\ MembershipOf \in [CopyType -> Seq(StepType)] /\ Start \in Versions
  BY StepsOfType, StartIs
<1>3. PICK a1 \in Versions : Wrote(CreateWrites, OwnersOf(copies), Start, a1)
                             /\ Runs(Each(CreateOf, q1), Start, a1)
  <2>1. Steady(CreateOf, CreateWrites, q1, Start)
    BY CreateSteady
  <2> HIDE DEF q1
  <2>2. \E b \in Versions : Wrote(CreateWrites, Range(q1), Start, b) /\ Runs(Each(CreateOf, q1), Start, b)
    BY <1>1, <1>2, <2>1, WritesType, PhaseWrites
  <2> QED BY <1>1, <2>2
<1>4. PICK a2 \in Versions : Wrote(FinalWrites, OwnersOf(copies), a1, a2)
                             /\ Runs(Each(FinalOf, q2), a1, a2)
  <2>1. Steady(FinalOf, FinalWrites, q2, a1)
    BY <1>3, FinalSteady
  <2> HIDE DEF q2
  <2>2. \E b \in Versions : Wrote(FinalWrites, Range(q2), a1, b) /\ Runs(Each(FinalOf, q2), a1, b)
    BY <1>1, <1>2, <2>1, WritesType, PhaseWrites
  <2> QED BY <1>1, <2>2
<1>5. \A c \in OrdersOf(copies) : a2[Row(c.id, "ENTITY")] = at[Row(c.id, "ENTITY")]
  <2> SUFFICES ASSUME NEW c \in OrdersOf(copies)
               PROVE  a2[Row(c.id, "ENTITY")] = at[Row(c.id, "ENTITY")]
    OBVIOUS
  <2>1. c.id \in Ids /\ \A d \in OwnersOf(copies) : d.id # c.id
    BY KindsApart
  <2>2. a1[Row(c.id, "ENTITY")] = Start[Row(c.id, "ENTITY")]
    BY <1>3, <2>1, WroteElsewhere DEF Parts
  <2>3. a2[Row(c.id, "ENTITY")] = a1[Row(c.id, "ENTITY")]
    BY <1>4, <2>1, WroteElsewhere DEF Parts
  <2> QED BY <2>2, <2>3
<1>6. PICK a3 \in Versions : Wrote(OrderWrites, OrdersOf(copies), a2, a3)
                             /\ Runs(Each(OrderOf, q3), a2, a3)
  <2>1. Steady(OrderOf, OrderWrites, q3, a2)
    BY <1>2, <1>4, <1>5, OrderSteady
  <2> HIDE DEF q3
  <2>2. \E b \in Versions : Wrote(OrderWrites, Range(q3), a2, b) /\ Runs(Each(OrderOf, q3), a2, b)
    BY <1>1, <1>2, <2>1, WritesType, PhaseWrites
  <2> QED BY <1>1, <2>2
\* What the rows of the owners and of the folders are then.
<1>7. ASSUME NEW c \in OwnersOf(copies)
      PROVE  /\ c.kind = "WORK" => a3[Row(c.id, "ENTITY")] = 2
             /\ c.kind = "NOTE" => a3[Row(c.id, "ENTITY")] = 1
             /\ a3[Row(c.id, "ORG")] = 0
  <2>1. c.id \in Ids /\ c.id \notin Orders /\ c \in CopyType /\ \A d \in OrdersOf(copies) : d.id # c.id
    BY KindsApart
  <2>2. /\ c.kind = "WORK" => CreateWrites[c]["ENTITY"] = 1 /\ FinalWrites[c]["ENTITY"] = 1
        /\ c.kind = "NOTE" => CreateWrites[c]["ENTITY"] = 1 /\ FinalWrites[c]["ENTITY"] = 0
        /\ CreateWrites[c]["ORG"] = 0 /\ FinalWrites[c]["ORG"] = 0
    BY <2>1 DEF CreateWrites, FinalWrites, Writes, Parts
  <2>3. Start[Row(c.id, "ENTITY")] = 0 /\ Start[Row(c.id, "ORG")] = 0
    BY <2>1, StartIs
  <2>4. \A part \in Parts :
          /\ a1[Row(c.id, part)] = Start[Row(c.id, part)] + CreateWrites[c][part]
          /\ a2[Row(c.id, part)] = a1[Row(c.id, part)] + FinalWrites[c][part]
          /\ a3[Row(c.id, part)] = a2[Row(c.id, part)]
    <3>1. \A part \in Parts : a3[Row(c.id, part)] = a2[Row(c.id, part)]
      BY <1>6, <2>1, WroteElsewhere
    <3> QED BY <1>3, <1>4, <3>1 DEF Wrote
  <2> QED BY <2>2, <2>3, <2>4 DEF Parts
<1>8. \A c \in FoldersOf(copies) : a3[Row(c.id, "ORG")] = 0
  <2> SUFFICES ASSUME NEW c \in FoldersOf(copies)
               PROVE  a3[Row(c.id, "ORG")] = 0
    OBVIOUS
  <2>1. c.id \in Ids /\ \A d \in OwnersOf(copies) \cup OrdersOf(copies) : d.id # c.id
    BY KindsApart
  <2>2. a1[Row(c.id, "ORG")] = Start[Row(c.id, "ORG")]
    BY <1>3, <2>1, WroteElsewhere DEF Parts
  <2>3. a2[Row(c.id, "ORG")] = a1[Row(c.id, "ORG")]
    BY <1>4, <2>1, WroteElsewhere DEF Parts
  <2>4. a3[Row(c.id, "ORG")] = a2[Row(c.id, "ORG")]
    BY <1>6, <2>1, WroteElsewhere DEF Parts
  <2> QED BY <2>1, <2>2, <2>3, <2>4, StartIs
<1>9. PICK a4 \in Versions : Wrote(FolderWrites, FoldersOf(copies), a3, a4)
                             /\ Runs(Each(FolderOf, q4), a3, a4)
  <2>1. Steady(FolderOf, FolderWrites, q4, a3)
    BY <1>8, FolderSteady
  <2> HIDE DEF q4
  <2>2. \E b \in Versions : Wrote(FolderWrites, Range(q4), a3, b) /\ Runs(Each(FolderOf, q4), a3, b)
    BY <1>1, <1>2, <2>1, WritesType, PhaseWrites
  <2> QED BY <1>1, <2>2
<1>10. PICK a5 : Runs(Each(MembershipOf, q2), a4, a5)
  <2>1. \A c \in FoldersOf(copies) : a4[Row(c.id, "ORG")] > 0
    <3> SUFFICES ASSUME NEW c \in FoldersOf(copies) PROVE a4[Row(c.id, "ORG")] > 0
      OBVIOUS
    <3>1. FolderWrites[c]["ORG"] \in {1, 2}
      BY KindsApart DEF FolderWrites, Writes, Parts
    <3>2. a4[Row(c.id, "ORG")] = a3[Row(c.id, "ORG")] + FolderWrites[c]["ORG"]
      BY <1>9 DEF Wrote, Parts
    <3> QED BY <1>8, <3>1, <3>2
  <2>2. ASSUME NEW c \in OwnersOf(copies)
        PROVE  /\ ~ (c.kind = "NOTE" /\ c.into = NoId /\ c.text /\ c.icon)
               /\ c.kind = "WORK" => a4[Row(c.id, "ENTITY")] = 2
               /\ c.kind = "NOTE" => a4[Row(c.id, "ENTITY")] = 1
               /\ a4[Row(c.id, "ORG")] = 0
    <3>1. c.id \in Ids /\ \A d \in FoldersOf(copies) : d.id # c.id
      BY KindsApart
    <3>2. \A part \in Parts : a4[Row(c.id, part)] = a3[Row(c.id, part)]
      BY <1>9, <3>1, WroteElsewhere
    <3>3. c \in Range(copies)
      BY DEF OwnersOf
    <3>4. ~ (c.kind = "NOTE" /\ c.into = NoId /\ c.text /\ c.icon)
      BY <3>3
    <3>5. /\ c.kind = "WORK" => a4[Row(c.id, "ENTITY")] = 2
          /\ c.kind = "NOTE" => a4[Row(c.id, "ENTITY")] = 1
          /\ a4[Row(c.id, "ORG")] = 0
      BY <1>7, <3>2 DEF Parts
    <3> QED BY <3>4, <3>5
  <2>3. Steady(MembershipOf, MembershipWrites, q2, a4)
    BY <2>1, <2>2, MembershipSteady
  <2> HIDE DEF q2
  <2>4. \E b \in Versions : Wrote(MembershipWrites, Range(q2), a4, b)
                            /\ Runs(Each(MembershipOf, q2), a4, b)
    BY <1>1, <1>2, <2>3, WritesType, PhaseWrites
  <2> QED BY <2>4
<1> DEFINE s1 == EachOf(q1, CreateSteps)
           s2 == EachOf(q2, FinalSteps)
           s3 == EachOf(q3, OrderSteps)
           s4 == EachOf(q4, FolderSteps)
           s5 == EachOf(q2, MembershipSteps)
<1>11. Plan(copies) = s1 \o s2 \o s3 \o s4 \o s5
  BY DEF Plan
<1>12. /\ Runs(s1, Start, a1) /\ Runs(s2, a1, a2) /\ Runs(s3, a2, a3) /\ Runs(s4, a3, a4)
       /\ Runs(s5, a4, a5)
  BY <1>1, <1>3, <1>4, <1>6, <1>9, <1>10, EachOfIs
<1>13. /\ s1 \in Seq(StepType) /\ s2 \in Seq(StepType) /\ s3 \in Seq(StepType)
       /\ s4 \in Seq(StepType) /\ s5 \in Seq(StepType)
  <2>1. /\ s1 = Each(CreateOf, q1) /\ s2 = Each(FinalOf, q2) /\ s3 = Each(OrderOf, q3)
        /\ s4 = Each(FolderOf, q4) /\ s5 = Each(MembershipOf, q2)
    BY <1>1, EachOfIs
  <2> HIDE DEF s1, s2, s3, s4, s5, q1, q2, q3, q4
  <2>2. Each(CreateOf, q1) \in Seq(StepType) /\ Each(FinalOf, q2) \in Seq(StepType)
    BY <1>1, <1>2, EachIsType
  <2>3. Each(OrderOf, q3) \in Seq(StepType) /\ Each(FolderOf, q4) \in Seq(StepType)
    BY <1>1, <1>2, EachIsType
  <2>4. Each(MembershipOf, q2) \in Seq(StepType)
    BY <1>1, <1>2, EachIsType
  <2> QED BY <2>1, <2>2, <2>3, <2>4
<1> HIDE DEF s1, s2, s3, s4, s5
<1> DEFINE r2 == s1 \o s2
           r3 == r2 \o s3
           r4 == r3 \o s4
<1>14. r2 \in Seq(StepType) /\ r3 \in Seq(StepType) /\ r4 \in Seq(StepType)
  BY <1>13
<1>15. Runs(r2, Start, a2)
  BY <1>12, <1>13, RunsConcat
<1>16. Plan(copies) = r4 \o s5
  BY <1>11
<1> HIDE DEF r2
<1>17. Runs(r3, Start, a3)
  BY <1>12, <1>13, <1>14, <1>15, RunsConcat
<1> HIDE DEF r3
<1>18. Runs(r4, Start, a4)
  BY <1>12, <1>13, <1>14, <1>17, RunsConcat
<1> HIDE DEF r4
<1>19. Runs(r4 \o s5, Start, a5)
  BY <1>12, <1>13, <1>14, <1>18, RunsConcat
<1> QED BY <1>16, <1>19

-----------------------------------------------------------------------------
(* While nobody else writes, the destination follows the plan (FitInv). *)

\* While nobody else writes, the destination is where the plan has led it.
Alone == \A h \in DOMAIN log : log[h] # Other

\* The versions are those after n steps of the plan.
Follow(q, n, a) == \E g : Trace(q, g) /\ g[0] = Start /\ n \in 0 .. Len(q) /\ a = g[n]
FitInv ==
  Alone =>
    /\ gone = {} /\ \A j \in DOMAIN journals : j = 1
    /\ journals # <<>> => Follow(Steps(1), Len(log), at)

\* Before an import the destination has only its manual orders.
BlankInv == journals = <<>> => at = Start /\ gone = {} /\ alien = {}

\* Whatever writes nothing and prepares nothing keeps FitInv.
LEMMA FitQuiet ==
  ASSUME FitInv, UNCHANGED <<at, gone, log>>, DOMAIN journals' = DOMAIN journals,
         journals = <<>> <=> journals' = <<>>,
         \A j \in DOMAIN journals : journals'[j].steps = journals[j].steps,
         1 \in DOMAIN journals \/ journals = <<>>
  PROVE  FitInv'
<1>1. Alone' <=> Alone
  BY DEF Alone
<1>2. ASSUME Alone, journals # <<>> PROVE Follow(Steps(1), Len(log), at)'
  <2>1. Follow(Steps(1), Len(log), at)
    BY <1>2 DEF FitInv
  <2>2. Steps(1)' = Steps(1) /\ Len(log)' = Len(log) /\ at' = at
    BY <1>2 DEF Steps
  <2> QED BY <2>1, <2>2 DEF Follow
<1> QED BY <1>1, <1>2 DEF FitInv

\* What a step finds, when nothing is deleted, is what Fits looks at.
LEMMA FindsFits ==
  ASSUME NEW s, gone = {}
  PROVE  Finds(s, at) <=> Fits(s)
BY DEF Finds, Fits, Present, ActiveFolder

\* The next step of the plan finds what it expects.
LEMMA TraceParts ==
  ASSUME NEW q \in Seq(StepType), NEW n, NEW a, Follow(q, n, a), n < Len(q)
  PROVE  n + 1 \in 1 .. Len(q) /\ Finds(q[n + 1], a) /\ Follow(q, n + 1, Leaves(q[n + 1], a))
<1>1. PICK g : Trace(q, g) /\ g[0] = Start /\ n \in 0 .. Len(q) /\ a = g[n]
  BY DEF Follow
<1> HIDE DEF StepType
<1>2. PICK i \in 1 .. Len(q) : i = n + 1 /\ i - 1 = n /\ i \in 0 .. Len(q)
  BY <1>1
<1>3. Finds(q[i], g[i - 1]) /\ g[i] = Leaves(q[i], g[i - 1])
  BY <1>1 DEF Trace
<1> QED BY <1>1, <1>2, <1>3 DEF Follow

\* FitInv and BlankInv hold at the start, and every step keeps them: a plan is
\* prepared for an empty destination ...
LEMMA InitFit ==
  ASSUME Init
  PROVE  FitInv /\ BlankInv
<1>1. journals = <<>> /\ gone = {} /\ alien = {}
  BY DEF Init
<1>2. at = Start
  BY DEF Init, Start, Rows
<1> QED BY <1>1, <1>2 DEF FitInv, BlankInv

\* ... which follows it from there ...
LEMMA PrepareFit ==
  ASSUME NoLegacyIcons, ImportInv, BlankInv, NEW copies \in Selections, Prepare(copies)
  PROVE  FitInv'
<1>1. /\ journals = <<>> /\ Plannable(copies) /\ at = Start /\ gone = {} /\ log = <<>>
      /\ UNCHANGED <<at, gone, log>> /\ TypeOK
  BY DEF Prepare, BlankInv, server, ghosts, ImportInv, JournalsOK
<1>2. DOMAIN journals' = {1} /\ journals'[1].steps = Plan(copies)
  BY DEF Prepare
<1>3. \A c \in Range(copies) : ~ (c.kind = "NOTE" /\ c.into = NoId /\ c.text /\ c.icon)
  BY DEF NoLegacyIcons
<1>4. PICK b : Runs(Plan(copies), Start, b)
  BY <1>1, <1>3, PlanRuns
<1>5. copies \in Seq(CopyType)
  BY CopiesParts
<1>6. Plan(copies) \in Seq(StepType)
  BY <1>1, <1>5, PlanType
<1>7. Len(Plan(copies)) \in Nat
  <2> HIDE DEF StepType
  <2> QED BY <1>6
<1>8. Follow(Plan(copies), 0, Start)
  BY <1>4, <1>7 DEF Runs, Follow
<1>9. Follow(Steps(1), Len(log), at)'
  <2>1. Len(log)' = 0 /\ at' = Start /\ Steps(1)' = Plan(copies)
    BY <1>1, <1>2 DEF Steps
  <2> QED BY <1>8, <2>1 DEF Follow
<1> QED BY <1>1, <1>2, <1>9 DEF FitInv

\* While nobody else writes, every write is a step of the first journal.
LEMMA AloneOurs ==
  ASSUME ImportInv, FitInv, Alone
  PROVE  /\ head = Len(log) /\ head \in Nat
         /\ \A h \in DOMAIN log : log[h].journal = 1
         /\ Ours(head) = head
<1>1. TypeOK /\ head = Len(log) /\ DOMAIN log = 1 .. Len(log) /\ Len(log) \in Nat
  BY LogParts DEF ImportInv, LogOK
<1>2. \A h \in DOMAIN log : log[h].journal \in DOMAIN journals
  BY DEF Alone, ImportInv, LogOK, WriteOK
<1>3. \A h \in DOMAIN log : log[h].journal = 1
  BY <1>2 DEF FitInv
<1>4. {k \in 1 .. head : log[k] # Other} = 1 .. head
  BY <1>1 DEF Alone
<1>5. Cardinality(1 .. head) = head
  <2>1. PICK n \in Nat : n = head
    BY <1>1
  <2>2. Cardinality(1 .. n) = IF 1 > n THEN 0 ELSE n - 1 + 1
    BY FS_Interval
  <2>3. Cardinality(1 .. n) = n
    BY <2>2
  <2> QED BY <2>1, <2>3
<1> QED BY <1>1, <1>3, <1>4, <1>5 DEF Ours

\* ... no fork is made, as a fork needs a write of somebody else ...
LEMMA ForkFit ==
  ASSUME ImportInv, FitInv, NEW t \in Tabs, Fork(t)
  PROVE  FitInv'
<1>1. Alone' <=> Alone
  BY DEF Fork, ghosts, Alone
<1> SUFFICES ASSUME Alone PROVE FALSE
  BY <1>1 DEF FitInv
<1> DEFINE w == tab[t]
<1>2. /\ w.pc = "fork" /\ w.steps # <<>> /\ w.reply > w.revision
  BY DEF Fork, At, Forkable
<1>3. /\ w.journal \in DOMAIN journals /\ WorkOK(w) /\ w.accepted \in Nat /\ w.reply \in Nat
      /\ w.revision \in Nat /\ TypeOK
  BY <1>2, WorkParts DEF ImportInv, TypeOK, At, TabOK
<1> HIDE DEF w
<1>4. /\ Reached(w.journal, w.accepted, w.revision) /\ w.reply <= head
      /\ TakenOnly(w.journal, w.accepted)
  BY <1>2, <1>3 DEF WorkOK
<1>5. w.journal = 1
  BY <1>3 DEF FitInv
<1>6. /\ head = Len(log) /\ head \in Nat /\ DOMAIN log = 1 .. Len(log)
      /\ \A h \in DOMAIN log : log[h].journal = 1
  BY <1>3, AloneOurs, LogParts
<1>7. head \in DOMAIN log
  BY <1>2, <1>3, <1>4, <1>6
<1>8. head <= HeadAfter(w.journal, w.accepted)
  BY <1>4, <1>5, <1>6, <1>7 DEF TakenOnly
<1>9. w.revision = HeadAfter(w.journal, w.accepted)
  BY <1>4 DEF Reached
<1> QED BY <1>2, <1>3, <1>4, <1>6, <1>8, <1>9

\* ... an accepted step is the next of the plan ...
LEMMA AcceptFit ==
  ASSUME ImportInv, FitInv, NEW m \in wire, Accept(m)
  PROVE  FitInv'
<1> DEFINE s == Steps(m.journal)[m.step]
           w == [journal |-> m.journal, step |-> m.step]
<1>0. /\ TypeOK /\ m.journal \in DOMAIN journals /\ m.step \in DOMAIN Steps(m.journal)
      /\ m.step \in Nat /\ m.journal \in Nat
  BY DEF ImportInv, TypeOK, Steps
<1>1. /\ log' = Append(log, w) /\ UNCHANGED <<journals, gone>> /\ m.guard = head
      /\ at' = [at EXCEPT ![Written(s)] = @ + 1]
  BY DEF Accept, Acceptable, Steps
<1> HIDE DEF w, s
<1>2. w \in [journal : Nat, step : Nat]
  BY <1>0 DEF w
<1>3. Alone' => Alone
  BY <1>0, <1>1, <1>2, LogGrows, LogParts DEF Alone
<1> SUFFICES ASSUME Alone
             PROVE  Follow(Steps(1), Len(log), at)'
  BY <1>1, <1>3 DEF FitInv
<1>4. m.journal = 1 /\ gone = {} /\ Follow(Steps(1), Len(log), at)
  <2>1. journals # <<>>
    BY <1>0
  <2> QED BY <1>0, <2>1 DEF FitInv
<1>5. Reached(1, m.step - 1, head) /\ m.step - 1 \in Nat
  <2>1. Reached(m.journal, m.step - 1, m.guard)
    BY DEF ImportInv, WireOK
  <2>2. m.step \in 1 .. Len(Steps(1)) /\ Steps(1) \in Seq(StepType)
    BY <1>0, <1>4, JournalParts DEF Steps
  <2> QED BY <1>1, <1>4, <2>1, <2>2
<1>6. Ours(head) = Offset(1) + (m.step - 1) /\ Offset(1) = 0
  <2>1. Ours(head) = Offset(1) + (m.step - 1)
    BY <1>0, <1>4, <1>5, OursReached
  <2>2. Len(Steps(1)) \in Nat
    BY <1>0, <1>4, JournalParts DEF Steps
  <2> QED BY <2>1, <2>2 DEF Offset
<1>7. Len(log) + 1 = m.step /\ Len(log) \in Nat
  <2>1. Ours(head) = Len(log) /\ Len(log) \in Nat
    BY AloneOurs
  <2> QED BY <1>0, <1>6, <2>1
<1>8. Steps(1) \in Seq(StepType) /\ Len(log) < Len(Steps(1))
  <2>1. Steps(1) \in Seq(StepType) /\ m.step \in 1 .. Len(Steps(1)) /\ Len(Steps(1)) \in Nat
    BY <1>0, <1>4, JournalParts DEF Steps
  <2> QED BY <1>7, <2>1
<1>9. Follow(Steps(1), Len(log) + 1, Leaves(Steps(1)[Len(log) + 1], at))
  BY <1>4, <1>8, TraceParts
<1>10. at' = Leaves(Steps(1)[Len(log) + 1], at)
  BY <1>1, <1>4, <1>7 DEF Leaves, s
<1>11. Len(log)' = Len(log) + 1 /\ Steps(1)' = Steps(1)
  BY <1>0, <1>1, <1>2, LogGrows DEF Steps
<1> QED BY <1>9, <1>10, <1>11 DEF Follow

\* ... and after a write of somebody else there is nothing to show.
LEMMA OthersFit ==
  ASSUME ImportInv, Others
  PROVE  FitInv'
<1>1. TypeOK /\ log' = Append(log, Other)
  BY DEF ImportInv, Others, OtherEdit, OtherDelete, OtherElsewhere, OtherWrite
<1>2. Other \in [journal : Nat, step : Nat]
  BY DEF Other
<1>3. Len(log) + 1 \in DOMAIN log' /\ log'[Len(log) + 1] = Other
  BY <1>1, <1>2, LogGrows, LogParts
<1> QED BY <1>3 DEF FitInv, Alone

\* All the steps together, and what follows from the invariant.
LEMMA NextFit ==
  ASSUME NoLegacyIcons, ImportInv, FitInv, BlankInv, [Next]_vars
  PROVE  FitInv' /\ BlankInv'
<1>0. 1 \in DOMAIN journals \/ journals = <<>>
  BY DEF ImportInv, TypeOK
<1>1. ASSUME NEW copies \in Selections, Prepare(copies)
      PROVE  FitInv' /\ BlankInv'
  <2>1. journals' # <<>>
    BY <1>1 DEF Prepare
  <2> QED BY <1>1, <2>1, PrepareFit DEF BlankInv
<1>2. ASSUME UNCHANGED <<at, gone, log, alien, journals>>
      PROVE  FitInv' /\ BlankInv'
  BY <1>0, <1>2, FitQuiet DEF BlankInv
<1>3. ASSUME NEW t \in Tabs, TabStep(t)
      PROVE  FitInv' /\ BlankInv'
  <2>1. CASE \/ \E j \in DOMAIN journals : Continue(t, j) \/ Review(t, j)
             \/ Rebase(t) \/ Send(t) \/ Lookup(t) \/ NoReceipt(t)
             \/ ShowReview(t) \/ PrepareFork(t) \/ Finished(t) \/ Stop(t)
    <3>1. UNCHANGED <<journals, server, ghosts>>
      BY <2>1 DEF Continue, Review, Rebase, Begin, Send, Lookup, NoReceipt, ShowReview,
                  PrepareFork, Finished, Stop
    <3> QED BY <1>2, <3>1 DEF server, ghosts
  <2>2. CASE Advance(t)
    <3>1. UNCHANGED <<at, gone, log, alien>> /\ tab[t].journal \in DOMAIN journals
      BY <2>2 DEF Advance, server, ghosts, ImportInv, TypeOK, At
    <3>2. /\ DOMAIN journals' = DOMAIN journals
          /\ \A j \in DOMAIN journals : journals'[j].steps = journals[j].steps
          /\ journals # <<>> /\ journals' # <<>>
      <4>1. PICK j, x : /\ j = tab[t].journal /\ journals' = [journals EXCEPT ![j] = x]
                        /\ x.steps = journals[j].steps
        <5>1. PICK j : j = tab[t].journal
          OBVIOUS
        <5>2. PICK x : x = [journals[j] EXCEPT !.accepted = NextOf(t), !.revision = tab[t].reply]
          OBVIOUS
        <5>3. journals' = [journals EXCEPT ![j] = x]
          BY <2>2, <5>1, <5>2 DEF Advance
        <5>4. journals[j] \in JournalType
          BY <3>1, <5>1 DEF ImportInv, TypeOK
        <5>5. x.steps = journals[j].steps
          BY <5>2, <5>4 DEF JournalType
        <5> QED BY <5>1, <5>3, <5>5
      <4> QED BY <3>1, <4>1
    <3> QED BY <1>0, <3>1, <3>2, FitQuiet DEF BlankInv
  <2>3. CASE Fork(t)
    <3>1. journals' # <<>>
      BY <2>3 DEF Fork, ImportInv, TypeOK
    <3> QED BY <2>3, <3>1, ForkFit DEF BlankInv
  <2> QED BY <1>3, <2>1, <2>2, <2>3 DEF TabStep
<1>4. ASSUME NEW m \in wire, Accept(m)
      PROVE  FitInv' /\ BlankInv'
  <2>1. journals' # <<>>
    BY <1>4 DEF Accept, ImportInv, TypeOK
  <2> QED BY <1>4, <2>1, AcceptFit DEF BlankInv
<1>5. ASSUME NEW m \in wire, Replay(m) \/ RefuseRequest(m)
      PROVE  FitInv' /\ BlankInv'
  BY <1>2, <1>5 DEF Replay, RefuseRequest, server, ghosts
<1>6. ASSUME Others
      PROVE  FitInv' /\ BlankInv'
  <2>1. journals' # <<>>
    BY <1>6 DEF Others, OtherEdit, OtherDelete, OtherElsewhere, OtherWrite
  <2> QED BY <1>6, <2>1, OthersFit DEF BlankInv
<1>7. ASSUME UNCHANGED vars
      PROVE  FitInv' /\ BlankInv'
  BY <1>2, <1>7 DEF vars, server, ghosts
<1> QED BY <1>1, <1>3, <1>4, <1>5, <1>6, <1>7 DEF Next

LEMMA FitPlan ==
  ASSUME ImportInv, FitInv
  PROVE  PlanFits
<1> SUFFICES ASSUME Alone, NEW j \in DOMAIN journals, Done(j) = journals[j].accepted,
                    Suffix(j) # <<>>
             PROVE  Fits(Suffix(j)[1])
  <2>1. (\A w \in Range(log) : w # Other) => Alone
    BY DEF Range, Alone
  <2> QED BY <2>1 DEF PlanFits
<1>1. j = 1 /\ gone = {} /\ Follow(Steps(1), Len(log), at) /\ TypeOK
  <2>1. journals # <<>>
    OBVIOUS
  <2> QED BY <2>1 DEF FitInv, ImportInv
<1>2. /\ DOMAIN log = 1 .. Len(log) /\ Len(log) \in Nat
      /\ \A h \in DOMAIN log : log[h].journal = 1
  BY <1>1, LogParts, AloneOurs
<1>3. Done(1) = Len(log)
  <2>1. {h \in DOMAIN log : log[h].journal = 1} = 1 .. Len(log)
    BY <1>2
  <2>2. Cardinality(1 .. Len(log)) = Len(log)
    BY <1>2, FS_Interval
  <2> QED BY <2>1, <2>2 DEF Done
<1>4. Suffix(1) = SubSeq(Steps(1), Len(log) + 1, Len(Steps(1))) /\ Steps(1) \in Seq(StepType)
  BY <1>1, <1>3, JournalParts DEF Suffix, Steps
<1> HIDE DEF StepType
<1>5. Len(log) < Len(Steps(1)) /\ Suffix(1)[1] = Steps(1)[Len(log) + 1]
  <2>1. Suffix(1) # <<>>
    BY <1>1
  <2>2. PICK q \in Seq(StepType) : q = Steps(1)
    BY <1>4
  <2>3. PICK n \in Nat : n = Len(log)
    BY <1>2
  <2>4. n < Len(q)
    BY <1>4, <2>1, <2>2, <2>3
  <2>5. SubSeq(q, n + 1, Len(q))[1] = q[n + 1]
    BY <2>4
  <2> QED BY <1>4, <2>2, <2>3, <2>4, <2>5
<1>6. Finds(Steps(1)[Len(log) + 1], at)
  BY <1>1, <1>4, <1>5, TraceParts
<1> QED BY <1>1, <1>5, <1>6, FindsFits

\* As long as nobody else writes in the destination, it takes every step of the plan
\* in turn, where no note of a legacy folder has an icon of its own.
THEOREM PlanAlwaysFits == ASSUME NoLegacyIcons PROVE Spec => []PlanFits
<1>1. Init => ImportInv /\ FitInv /\ BlankInv
  BY InitInv, InitFit
<1>2. (ImportInv /\ FitInv /\ BlankInv) /\ [Next]_vars => (ImportInv /\ FitInv /\ BlankInv)'
  BY NextInv, NextFit
<1>3. ImportInv /\ FitInv /\ BlankInv => PlanFits
  BY FitPlan
<1> QED BY <1>1, <1>2, <1>3, PTL DEF Spec

-----------------------------------------------------------------------------
(* Waiting: no step expects more than what the step before it on the same
   row leaves, the first no more than what there is. *)

\* The rows that a step goes by; a folder step expects version 0 of an entity that
\* is not there.
FolderOps == {"NEW_FOLDER", "FOLDER_ICON"}
Touches(s) == {e.row : e \in Range(Expects(s))}
OfFolder(s, row) == s.op \in FolderOps /\ row = Row(s.id, "ENTITY")

\* No step between k and i goes by the row; step i is the first that goes by it.
Between(q, k, i, row) == \A l \in k + 1 .. i - 1 : row \notin Touches(q[l])

\* Step i is the first that goes by the row of e.
First(q, i, e) == e \in Range(Expects(q[i])) /\ Between(q, 0, i, e.row)

\* The versions of a plan do not depend on the destination but for those of orders.
Plain(s) ==
  /\ s.op = "CREATE" => s.v = 0
  /\ s.op \in {"NEW_FOLDER", "MOVE_IN"} => s.ov = 0
  /\ s.op = "FOLDER_ICON" => s.v = s.ov

\* A step expects no more than what the step before it on the same row leaves.
Bounded(s, e, f) == IF Written(s) = e.row THEN f.v <= e.v + 1 ELSE e.v > 0 => f.v <= e.v

\* All steps of a list that go by one row, one after the other, are linked.
Linked(q) ==
  \A i, k \in 1 .. Len(q) : \A e \in Range(Expects(q[k])), f \in Range(Expects(q[i])) :
    k < i /\ e.row = f.row /\ Between(q, k, i, e.row) /\ ~ OfFolder(q[k], e.row) =>
      Bounded(q[k], e, f)

\* And the first one no more than what there is, less where it is somebody else's.
Decided(s) == s.op = "SAVE" /\ s.seen = s.v

\* What is there of a row is at least what is expected, and more where somebody else
\* wrote it last, unless the person decided about it.
Held(s, e) ==
  /\ at[e.row] > 0 => e.v <= at[e.row]
  /\ e.row \in alien => e.v < at[e.row] \/ Decided(s)

\* The first steps of all rows.
Behind(q) ==
  \A i \in 1 .. Len(q) : \A e \in Range(Expects(q[i])) : First(q, i, e) => Held(q[i], e)

\* A folder has no entity, and no other step is about it.
FoldersApart(q) ==
  \A i \in 1 .. Len(q) : q[i].op \in FolderOps =>
    /\ at[Row(q[i].id, "ENTITY")] = 0
    /\ \A k \in 1 .. Len(q) : q[k].id = q[i].id => q[k].op \in FolderOps

\* None of a list of steps can find by chance what it was not planned for.
Waiting(q) == (\A i \in 1 .. Len(q) : Plain(q[i])) /\ Linked(q) /\ Behind(q) /\ FoldersApart(q)

-----------------------------------------------------------------------------

\* The expected versions of a step: of its entity, and of its organization.
EntityOf(s) ==
  [row |-> Row(s.id, "ENTITY"), v |-> s.v,
   next |-> IF s.op \in {"CREATE", "SAVE"} THEN s.v + 1 ELSE s.v]
OrgOf(s) == [row |-> Row(s.id, "ORG"), v |-> s.ov, next |-> s.ov + 1]
EntryType == [row : Rows, v : Nat, next : Nat]

\* They are all that Expects has, and on rows that differ.
LEMMA ExpectsAre ==
  ASSUME NEW s \in StepType
  PROVE  /\ Expects(s) = IF s.op \in {"CREATE", "SAVE"} THEN <<EntityOf(s)>>
                         ELSE <<EntityOf(s), OrgOf(s)>>
         /\ Expects(s) \in Seq(EntryType)
         /\ Range(Expects(s)) = IF s.op \in {"CREATE", "SAVE"} THEN {EntityOf(s)}
                                ELSE {EntityOf(s), OrgOf(s)}
         /\ EntityOf(s) \in EntryType /\ OrgOf(s) \in EntryType
<1>1. Expects(s) = IF s.op \in {"CREATE", "SAVE"} THEN <<EntityOf(s)>>
                   ELSE <<EntityOf(s), OrgOf(s)>>
  BY DEF Expects, EntityOf, OrgOf
<1>2. EntityOf(s) \in EntryType /\ OrgOf(s) \in EntryType
  <2>1. s.v \in Nat /\ s.ov \in Nat /\ s.v + 1 \in Nat /\ s.ov + 1 \in Nat
    BY DEF StepType
  <2> QED BY <2>1, StepRows DEF EntityOf, OrgOf, EntryType
<1> HIDE DEF EntryType
<1>3. /\ <<EntityOf(s)>> \in Seq(EntryType) /\ <<EntityOf(s), OrgOf(s)>> \in Seq(EntryType)
      /\ Range(<<EntityOf(s)>>) = {EntityOf(s)}
      /\ Range(<<EntityOf(s), OrgOf(s)>>) = {EntityOf(s), OrgOf(s)}
  BY <1>2 DEF Range
<1> QED BY <1>1, <1>2, <1>3

LEMMA Entries ==
  ASSUME NEW s \in StepType
  PROVE  /\ \A e \in Range(Expects(s)) :
              /\ e = EntityOf(s) \/ (s.op \notin {"CREATE", "SAVE"} /\ e = OrgOf(s))
              /\ e.row \in Rows /\ e.v \in Nat /\ e.next \in Nat /\ e.row[1] = s.id
              /\ e.row \in Touches(s)
         /\ Touches(s) \subseteq Rows /\ Written(s) \in Touches(s)
         /\ \A row \in Touches(s) : \E e \in Range(Expects(s)) : e.row = row
         /\ EntityOf(s) \in Range(Expects(s)) /\ EntityOf(s).row = Row(s.id, "ENTITY")
         /\ EntityOf(s).v = s.v /\ EntityOf(s).row[1] = s.id
         /\ OrgOf(s).row = Row(s.id, "ORG") /\ OrgOf(s).v = s.ov /\ OrgOf(s).row[1] = s.id
         /\ OrgOf(s).row # EntityOf(s).row
<1>1. /\ Range(Expects(s)) = IF s.op \in {"CREATE", "SAVE"} THEN {EntityOf(s)}
                             ELSE {EntityOf(s), OrgOf(s)}
      /\ EntityOf(s) \in EntryType /\ OrgOf(s) \in EntryType
  BY ExpectsAre
<1>2. /\ EntityOf(s).row = Row(s.id, "ENTITY") /\ OrgOf(s).row = Row(s.id, "ORG")
      /\ EntityOf(s).v = s.v /\ OrgOf(s).v = s.ov
      /\ EntityOf(s).row[1] = s.id /\ OrgOf(s).row[1] = s.id
      /\ EntityOf(s).row # OrgOf(s).row
  BY DEF EntityOf, OrgOf, Row
<1>3. \A e \in Range(Expects(s)) :
         /\ e = EntityOf(s) \/ (s.op \notin {"CREATE", "SAVE"} /\ e = OrgOf(s))
         /\ e.row \in Rows /\ e.v \in Nat /\ e.next \in Nat /\ e.row[1] = s.id
         /\ e.row \in Touches(s)
  BY <1>1, <1>2 DEF EntryType, Touches
<1>4. Written(s) \in Touches(s)
  BY <1>1, <1>2 DEF Written, Touches
<1> QED BY <1>1, <1>2, <1>3, <1>4 DEF Touches

LEMMA EntriesApart ==
  ASSUME NEW s \in StepType, NEW e \in Range(Expects(s)), NEW f \in Range(Expects(s)), e.row = f.row
  PROVE  e = f
BY Entries

\* What a step finds are the versions that it expects, but for the entity of a folder.
LEMMA FindsEntries ==
  ASSUME NEW s \in StepType, NEW a, Plain(s), Finds(s, a), NEW e \in Range(Expects(s)),
         ~ OfFolder(s, e.row)
  PROVE  a[e.row] = e.v
<1>1. /\ e.row = Row(s.id, "ENTITY") /\ e.v = s.v
      \/ /\ e.row = Row(s.id, "ORG") /\ e.v = s.ov /\ s.op \notin {"CREATE", "SAVE"}
  BY Entries
<1>2. s.op \in {"CREATE", "SAVE", "ARCHIVE", "MOVE_TEXT", "MOVE_IN", "NOTE_ICON", "NEW_FOLDER",
                "FOLDER_ICON"}
  BY DEF StepType
<1>3. s.op \in FolderOps => e.row # Row(s.id, "ENTITY")
  BY DEF OfFolder
<1> HIDE DEF StepType
<1>4. CASE s.op = "CREATE"
  BY <1>1, <1>4 DEF Finds, Plain
<1>5. CASE s.op = "SAVE"
  BY <1>1, <1>5 DEF Finds
<1>6. CASE s.op = "NEW_FOLDER"
  BY <1>1, <1>3, <1>6 DEF Finds, Plain, FolderOps
<1>7. CASE s.op = "FOLDER_ICON"
  BY <1>1, <1>3, <1>7 DEF Finds, Plain, FolderOps
<1>8. CASE s.op \in {"ARCHIVE", "MOVE_TEXT", "MOVE_IN", "NOTE_ICON"}
  BY <1>1, <1>8 DEF Finds
<1> QED BY <1>2, <1>4, <1>5, <1>6, <1>7, <1>8

\* Steps leave the rows that they do not go by as they are.
Leave(q, h, row) == \A l \in 1 .. Len(q) : row \notin Touches(q[l]) => h[l][row] = h[l - 1][row]

\* So a row is the same until a step goes by it.
LEMMA UntouchedSame ==
  ASSUME NEW q \in Seq(StepType), NEW h, NEW row, Leave(q, h, row),
         NEW k \in 0 .. Len(q), NEW i \in 1 .. Len(q), k < i, Between(q, k, i, row)
  PROVE  h[i - 1][row] = h[k][row]
<1> DEFINE N == {m \in Nat : k + m <= i - 1 => h[k + m][row] = h[k][row]}
<1> HIDE DEF StepType
<1>0. Len(q) \in Nat /\ k \in Nat /\ i \in Nat /\ i <= Len(q)
  OBVIOUS
<1>1. 0 \in N
  BY <1>0
<1>2. ASSUME NEW m \in Nat, m \in N PROVE m + 1 \in N
  <2> SUFFICES ASSUME k + (m + 1) <= i - 1 PROVE h[k + (m + 1)][row] = h[k][row]
    OBVIOUS
  <2>1. PICK l \in 1 .. Len(q) : l = k + (m + 1) /\ l - 1 = k + m /\ l \in k + 1 .. i - 1
    BY <1>0
  <2>2. h[l][row] = h[l - 1][row]
    BY <2>1 DEF Between, Leave
  <2>3. h[k + m][row] = h[k][row]
    BY <1>0, <1>2
  <2> QED BY <2>1, <2>2, <2>3
<1>3. Nat \subseteq N
  <2> HIDE DEF N
  <2> QED BY <1>1, <1>2, NatSet
<1>4. PICK m \in Nat : k + m = i - 1
  <2>1. i - 1 - k \in Nat /\ k + (i - 1 - k) = i - 1
    BY <1>0
  <2> QED BY <2>1
<1>5. h[k + m][row] = h[k][row]
  BY <1>0, <1>3, <1>4
<1> QED BY <1>4, <1>5

-----------------------------------------------------------------------------
(* What is waiting waits on when its first step is taken and when somebody
   else writes. *)

\* A plan that runs from what is there waits for nothing else.
LEMMA TraceWaiting ==
  ASSUME TypeOK, NEW q \in Seq(StepType), \A i \in 1 .. Len(q) : Plain(q[i]), FoldersApart(q),
         NEW g, Trace(q, g), g[0] = at, alien = {}
  PROVE  Waiting(q)
<1> HIDE DEF StepType
<1>0. at \in Versions
  BY DEF TypeOK, Versions, Rows
<1>1. \A i \in 1 .. Len(q) :
        /\ q[i] \in StepType /\ g[i - 1] \in Versions /\ Finds(q[i], g[i - 1])
        /\ g[i] = Leaves(q[i], g[i - 1])
  <2> SUFFICES ASSUME NEW i \in 1 .. Len(q)
               PROVE  /\ q[i] \in StepType /\ g[i - 1] \in Versions /\ Finds(q[i], g[i - 1])
                      /\ g[i] = Leaves(q[i], g[i - 1])
    OBVIOUS
  <2>1. i - 1 \in 0 .. Len(q)
    OBVIOUS
  <2> QED BY <2>1 DEF Trace
<1>2. ASSUME NEW l \in 1 .. Len(q), NEW row \in Rows, row \notin Touches(q[l])
      PROVE  g[l][row] = g[l - 1][row]
  <2>1. row # Written(q[l])
    BY <1>1, <1>2, Entries
  <2> QED BY <1>1, <2>1, LeavesIs
<1>20. \A row \in Rows : Leave(q, g, row)
  BY <1>2 DEF Leave
<1>3. Linked(q)
  <2> SUFFICES ASSUME NEW i \in 1 .. Len(q), NEW k \in 1 .. Len(q),
                      NEW e \in Range(Expects(q[k])), NEW f \in Range(Expects(q[i])),
                      k < i, e.row = f.row, Between(q, k, i, e.row), ~ OfFolder(q[k], e.row)
               PROVE  Bounded(q[k], e, f)
    BY DEF Linked
  <2>1. /\ e.row \in Rows /\ e.v \in Nat /\ e.row[1] = q[k].id
        /\ f.v \in Nat /\ f.row[1] = q[i].id
    BY <1>1, Entries
  <2>2. g[k - 1][e.row] = e.v
    BY <1>1, FindsEntries
  <2>3. g[k][e.row] = IF e.row = Written(q[k]) THEN e.v + 1 ELSE e.v
    BY <1>1, <2>1, <2>2, LeavesIs
  <2>4. g[i - 1][e.row] = g[k][e.row]
    <3>1. k \in 0 .. Len(q)
      OBVIOUS
    <3>2. Leave(q, g, e.row)
      BY <1>20, <2>1
    <3> QED BY <3>1, <3>2, UntouchedSame
  <2>5. ~ OfFolder(q[i], f.row)
    <3> SUFFICES ASSUME q[i].op \in FolderOps, f.row = Row(q[i].id, "ENTITY") PROVE FALSE
      BY DEF OfFolder
    <3>1. q[k].id = q[i].id
      BY <2>1
    <3>2. q[k].op \in FolderOps
      BY <3>1 DEF FoldersApart
    <3> QED BY <3>1, <3>2 DEF OfFolder
  <2>6. g[i - 1][f.row] = f.v
    BY <1>1, <2>5, FindsEntries
  <2> QED BY <2>1, <2>3, <2>4, <2>6 DEF Bounded
<1>4. Behind(q)
  <2> SUFFICES ASSUME NEW i \in 1 .. Len(q), NEW e \in Range(Expects(q[i])), First(q, i, e)
               PROVE  Held(q[i], e)
    BY DEF Behind
  <2>1. e.row \in Rows /\ e.v \in Nat
    BY <1>1, Entries
  <2>2. CASE OfFolder(q[i], e.row)
    <3>1. at[e.row] = 0
      BY <2>2 DEF OfFolder, FoldersApart
    <3> QED BY <3>1 DEF Held
  <2>3. CASE ~ OfFolder(q[i], e.row)
    <3>1. g[i - 1][e.row] = e.v
      BY <1>1, <2>3, FindsEntries
    <3>2. g[i - 1][e.row] = g[0][e.row]
      <4>1. 0 \in 0 .. Len(q) /\ 0 < i
        OBVIOUS
      <4>2. Leave(q, g, e.row)
        BY <1>20, <2>1
      <4>3. Between(q, 0, i, e.row)
        BY DEF First
      <4> QED BY <4>1, <4>2, <4>3, UntouchedSame
    <3> QED BY <2>1, <3>1, <3>2 DEF Held
  <2> QED BY <2>2, <2>3
<1> QED BY <1>3, <1>4 DEF Waiting

\* A step that fits finds what it expects.
LEMMA FitsFinds ==
  ASSUME NEW s, Fits(s)
  PROVE  Finds(s, at)
BY DEF Finds, Fits, Present, ActiveFolder

\* The first step is taken: what is left waits on.
LEMMA TakenWaiting ==
  ASSUME TypeOK, NEW q \in Seq(StepType), Waiting(q), q # <<>>, NEW s \in StepType, s = q[1],
         Fits(s), \A row \in alien : at[row] > 0,
         at' = [at EXCEPT ![Written(s)] = @ + 1], alien' = alien \ {Written(s)},
         NEW r \in Seq(StepType), Len(r) + 1 = Len(q), \A i \in 1 .. Len(r) : r[i] = q[i + 1]
  PROVE  Waiting(r)'
<1>0. s.op \in FolderOps => Written(s) = Row(s.id, "ORG")
  BY DEF FolderOps, Written
<1> HIDE DEF StepType
<1>1. /\ at \in Versions /\ Len(r) \in Nat /\ 1 \in 1 .. Len(q)
      /\ \A i \in 1 .. Len(r) : i + 1 \in 1 .. Len(q) /\ r[i] = q[i + 1] /\ r[i] \in StepType
  BY DEF TypeOK, Versions, Rows
<1>2. Written(s) \in Rows /\ at' = Leaves(s, at)
  BY StepRows DEF Leaves
<1>3. \A row \in Rows : at'[row] = IF row = Written(s) THEN at[row] + 1 ELSE at[row]
  <2>1. \A row \in Rows : Leaves(s, at)[row] = IF row = Written(s) THEN at[row] + 1 ELSE at[row]
    BY <1>1, LeavesIs
  <2> QED BY ONLY <1>2, <2>1
<1>4. \A i \in 1 .. Len(r) : Plain(r[i])
  BY <1>1 DEF Waiting
<1>5. \A i, k \in 1 .. Len(r) : \A row : Between(r, k, i, row) => Between(q, k + 1, i + 1, row)
  <2> SUFFICES ASSUME NEW i \in 1 .. Len(r), NEW k \in 1 .. Len(r), NEW row,
                      Between(r, k, i, row), NEW l \in (k + 1) + 1 .. (i + 1) - 1
               PROVE  row \notin Touches(q[l])
    BY DEF Between
  <2>1. PICK m \in k + 1 .. i - 1 : l = m + 1 /\ m \in 1 .. Len(r)
    BY <1>1
  <2> QED BY <1>1, <2>1 DEF Between
<1>6. Linked(r)
  <2> SUFFICES ASSUME NEW i \in 1 .. Len(r), NEW k \in 1 .. Len(r),
                      NEW e \in Range(Expects(r[k])), NEW f \in Range(Expects(r[i])),
                      k < i, e.row = f.row, Between(r, k, i, e.row), ~ OfFolder(r[k], e.row)
               PROVE  Bounded(r[k], e, f)
    BY DEF Linked
  <2>1. PICK i1 \in 1 .. Len(q), k1 \in 1 .. Len(q) : i1 = i + 1 /\ k1 = k + 1 /\ k1 < i1
    BY <1>1
  <2>2. Between(q, k1, i1, e.row) /\ r[i] = q[i1] /\ r[k] = q[k1]
    BY <1>1, <1>5, <2>1
  <2> QED BY <2>1, <2>2 DEF Waiting, Linked
<1>7. FoldersApart(r)'
  <2> SUFFICES ASSUME NEW i \in 1 .. Len(r), r[i].op \in FolderOps
               PROVE  /\ at'[Row(r[i].id, "ENTITY")] = 0
                      /\ \A k \in 1 .. Len(r) : r[k].id = r[i].id => r[k].op \in FolderOps
    BY DEF FoldersApart
  <2>1. /\ at[Row(r[i].id, "ENTITY")] = 0
        /\ \A k \in 1 .. Len(q) : q[k].id = r[i].id => q[k].op \in FolderOps
    BY <1>1 DEF Waiting, FoldersApart
  <2>2. Row(r[i].id, "ENTITY") \in Rows
    BY <1>1, StepRows
  <2>3. Row(r[i].id, "ENTITY") # Written(s)
    <3> SUFFICES ASSUME Row(r[i].id, "ENTITY") = Written(s) PROVE FALSE
      OBVIOUS
    <3>1. s.id = r[i].id /\ Written(s) = Row(s.id, "ENTITY")
      BY DEF Written, Row
    <3>2. s.op \in FolderOps
      BY <1>1, <2>1, <3>1
    <3> QED BY <1>0, <3>1, <3>2 DEF Row
  <2> QED BY <1>1, <1>3, <2>1, <2>2, <2>3
<1>8. Behind(r)'
  <2> SUFFICES ASSUME NEW i \in 1 .. Len(r), NEW e \in Range(Expects(r[i])), First(r, i, e)
               PROVE  /\ at'[e.row] > 0 => e.v <= at'[e.row]
                      /\ e.row \in alien' => e.v < at'[e.row] \/ Decided(r[i])
    BY DEF Behind, Held
  <2>0. e.row \in Rows /\ e.v \in Nat /\ r[i] \in StepType
    BY <1>1, Entries
  <2>1. PICK i1 \in 1 .. Len(q) : i1 = i + 1 /\ r[i] = q[i1] /\ i1 # 1
    BY <1>1
  <2>2. Between(q, 1, i1, e.row)
    <3> SUFFICES ASSUME NEW l \in 1 + 1 .. i1 - 1 PROVE e.row \notin Touches(q[l])
      BY DEF Between
    <3>1. PICK m \in 1 .. i - 1 : l = m + 1 /\ m \in 1 .. Len(r) /\ m \in 0 + 1 .. i - 1
      BY <1>1, <2>1
    <3> QED BY <1>1, <3>1 DEF First, Between
  <2>3. CASE e.row \notin Touches(s)
    <3>1. First(q, i1, e)
      <4> SUFFICES ASSUME NEW l \in 0 + 1 .. i1 - 1 PROVE e.row \notin Touches(q[l])
        BY <2>1 DEF First, Between
      <4>1. l = 1 \/ l \in 1 + 1 .. i1 - 1
        BY <2>1
      <4> QED BY <2>2, <2>3, <4>1 DEF Between
    <3>2. Held(q[i1], e)
      BY <2>1, <3>1 DEF Waiting, Behind
    <3>3. e.row # Written(s)
      BY <2>3, Entries
    <3>4. at'[e.row] = at[e.row]
      BY <1>3, <2>0, <3>3
    <3> QED BY <2>1, <3>2, <3>4 DEF Held
  <2>4. CASE e.row \in Touches(s)
    <3>1. PICK d \in Range(Expects(s)) : d.row = e.row
      BY <2>4, Entries
    <3>2. d.v \in Nat /\ at[e.row] \in Nat
      BY <1>1, <2>0, Entries DEF Versions
    <3>3. CASE OfFolder(s, d.row)
      <4>1. at[e.row] = 0
        BY <1>1, <3>1, <3>3 DEF OfFolder, Waiting, FoldersApart
      <4>2. e.row # Written(s)
        BY <1>0, <3>1, <3>3, StepRows DEF OfFolder
      <4>3. at'[e.row] = 0 /\ e.row \notin alien
        BY <1>3, <2>0, <4>1, <4>2
      <4> QED BY <4>3
    <3>4. CASE ~ OfFolder(s, d.row)
      <4>1. at[e.row] = d.v
        <5>1. Plain(s) /\ Finds(s, at)
          BY <1>1, FitsFinds DEF Waiting
        <5> QED BY <3>1, <3>4, <5>1, FindsEntries
      <4>2. Bounded(s, d, e)
        <5>1. 1 < i1
          BY <2>1
        <5>2. \E k \in 1 .. Len(q) : k = 1 /\ q[k] = s
          BY <1>1
        <5> QED BY <2>1, <2>2, <3>1, <3>4, <5>1, <5>2 DEF Waiting, Linked
      <4>3. CASE e.row = Written(s)
        <5>1. at'[e.row] = d.v + 1 /\ e.row \notin alien'
          BY <1>3, <2>0, <4>1, <4>3
        <5>2. e.v <= d.v + 1
          BY <3>1, <4>2, <4>3 DEF Bounded
        <5> QED BY <5>1, <5>2
      <4>4. CASE e.row # Written(s)
        <5>1. at'[e.row] = d.v
          BY <1>3, <2>0, <4>1, <4>4
        <5>2. d.v > 0 => e.v <= d.v
          BY <3>1, <4>2, <4>4 DEF Bounded
        <5>3. e.row \notin alien
          <6> SUFFICES ASSUME e.row \in alien PROVE FALSE
            OBVIOUS
          <6>1. First(q, 1, d)
            BY DEF First, Between
          <6>2. Held(s, d)
            BY <1>1, <6>1 DEF Waiting, Behind
          <6>3. Decided(s)
            BY <3>1, <3>2, <4>1, <6>2 DEF Held
          <6>4. e.row = Row(s.id, "ENTITY")
            BY <3>1, <6>3, Entries DEF Decided
          <6> QED BY <4>4, <6>3, <6>4 DEF Decided, Written
        <5> QED BY <5>1, <5>2, <5>3
      <4> QED BY <4>3, <4>4
    <3> QED BY <3>3, <3>4
  <2> QED BY <2>3, <2>4
<1>9. Linked(r)'
  BY <1>6 DEF Linked
<1> QED BY <1>4, <1>7, <1>8, <1>9 DEF Waiting

\* Somebody else writes a row that is there: the steps that go by it are behind.
LEMMA OtherWaiting ==
  ASSUME TypeOK, NEW q \in Seq(StepType), Waiting(q), NEW row \in Rows, at[row] > 0,
         at' = [at EXCEPT ![row] = @ + 1], alien' = alien \cup {row}
  PROVE  Waiting(q)'
<1> HIDE DEF StepType
<1>0. \A i \in 1 .. Len(q) : q[i] \in StepType
  OBVIOUS
<1>1. /\ at \in Versions
      /\ \A x \in Rows : at[x] \in Nat /\ at'[x] = IF x = row THEN at[x] + 1 ELSE at[x]
  BY DEF TypeOK, Versions, Rows
<1>2. Behind(q)'
  <2> SUFFICES ASSUME NEW i \in 1 .. Len(q), NEW e \in Range(Expects(q[i])), First(q, i, e)
               PROVE  /\ at'[e.row] > 0 => e.v <= at'[e.row]
                      /\ e.row \in alien' => e.v < at'[e.row] \/ Decided(q[i])
    BY DEF Behind, Held
  <2>0. e.row \in Rows /\ e.v \in Nat
    BY <1>0, Entries
  <2>1. Held(q[i], e)
    BY DEF Waiting, Behind
  <2>2. CASE e.row = row
    <3>1. PICK n \in Nat : n = at[row]
      BY <1>1
    <3>2. e.v <= n /\ at'[e.row] = n + 1
      BY <1>1, <2>0, <2>1, <2>2, <3>1 DEF Held
    <3> QED BY <2>0, <3>1, <3>2
  <2>3. CASE e.row # row
    <3>1. at'[e.row] = at[e.row]
      BY <1>1, <2>0, <2>3
    <3> QED BY <2>1, <2>3, <3>1 DEF Held
  <2> QED BY <2>2, <2>3
<1>3. FoldersApart(q)'
  <2> SUFFICES ASSUME NEW i \in 1 .. Len(q), q[i].op \in FolderOps
               PROVE  /\ at'[Row(q[i].id, "ENTITY")] = 0
                      /\ \A k \in 1 .. Len(q) : q[k].id = q[i].id => q[k].op \in FolderOps
    BY DEF FoldersApart
  <2>1. /\ at[Row(q[i].id, "ENTITY")] = 0 /\ Row(q[i].id, "ENTITY") \in Rows
        /\ \A k \in 1 .. Len(q) : q[k].id = q[i].id => q[k].op \in FolderOps
    BY <1>0, StepRows DEF Waiting, FoldersApart
  <2> QED BY <1>1, <2>1
<1>4. Linked(q)' /\ \A i \in 1 .. Len(q) : Plain(q[i])
  BY DEF Waiting, Linked
<1> QED BY <1>2, <1>3, <1>4 DEF Waiting

\* Nothing is written: what is waiting waits on.
LEMMA SameWaiting ==
  ASSUME NEW q, Waiting(q), UNCHANGED <<at, alien>>
  PROVE  Waiting(q)'
BY DEF Waiting, Behind, Held, FoldersApart

-----------------------------------------------------------------------------
(* Clean, the review of what is left, as one look after another. *)

\* What Clean does with one expected version after the other.
Look(r, e) ==
  [ok |-> r.ok /\ r.at[e.row] = e.v /\ e.row \notin r.gone,
   at |-> [r.at EXCEPT ![e.row] = e.next], gone |-> r.gone \ {e.row}]

\* The fold of Clean begins with the destination and looks at each expected version.
Begins == [ok |-> TRUE, at |-> at, gone |-> {Row(id, "ENTITY") : id \in gone}]
Looks(es, f) ==
  /\ f[0] = Begins
  /\ \A i \in 1 .. Len(es) : f[i] = Look(f[i - 1], es[i])

\* The largest of a set of places.
LEMMA MaxIs ==
  ASSUME NEW n \in Nat, NEW s \in SUBSET (1 .. n), s # {}
  PROVE  Max(s) \in s /\ \A y \in s : Max(s) >= y
<1> DEFINE N == {m \in Nat : \A t \in SUBSET (1 .. m) : t # {} => \E x \in t : \A y \in t : x >= y}
<1>1. 0 \in N
  <2>1. \A t \in SUBSET (1 .. 0) : t = {}
    OBVIOUS
  <2> QED BY <2>1
<1>2. ASSUME NEW m \in Nat, m \in N PROVE m + 1 \in N
  <2> SUFFICES ASSUME NEW t \in SUBSET (1 .. m + 1), t # {}
               PROVE  \E x \in t : \A y \in t : x >= y
    OBVIOUS
  <2>1. CASE m + 1 \in t
    BY <2>1
  <2>2. CASE m + 1 \notin t
    <3>1. t \in SUBSET (1 .. m)
      BY <2>2
    <3> QED BY <1>2, <3>1
  <2> QED BY <2>1, <2>2
<1>3. Nat \subseteq N
  <2> HIDE DEF N
  <2> QED BY <1>1, <1>2, NatSet
<1>4. \E x \in s : \A y \in s : x >= y
  BY <1>3
<1> QED BY <1>4 DEF Max

\* The function that the fold of the community modules is.
IterOf(f, es, base, places) ==
  f = [s \in SUBSET places |-> IF s = {} THEN base ELSE Look(f[s \ {Max(s)}], es[Max(s)])]

\* It exists: by induction over the finite sets of places.
LEMMA IterExists ==
  ASSUME NEW es, NEW base, NEW n \in Nat
  PROVE  \E f : IterOf(f, es, base, 1 .. n)
<1> USE DEF IterOf
<1> DEFINE G(m) == \E f : f = [s \in SUBSET (1 .. m) |->
                       IF s = {} THEN base ELSE Look(f[s \ {Max(s)}], es[Max(s)])]
           N == {m \in Nat : G(m)}
<1>1. 0 \in N
  <2> DEFINE f == [s \in SUBSET (1 .. 0) |-> base]
  <2>1. f = [s \in SUBSET (1 .. 0) |->
               IF s = {} THEN base ELSE Look(f[s \ {Max(s)}], es[Max(s)])]
    <3>1. \A s \in SUBSET (1 .. 0) : s = {}
      OBVIOUS
    <3> QED BY <3>1
  <2> HIDE DEF f
  <2> QED BY <2>1
<1>2. ASSUME NEW m \in Nat, m \in N PROVE m + 1 \in N
  <2> SUFFICES G(m + 1)
    <3> HIDE DEF G
    <3> QED OBVIOUS
  <2>1. PICK f : f = [s \in SUBSET (1 .. m) |->
                       IF s = {} THEN base ELSE Look(f[s \ {Max(s)}], es[Max(s)])]
    BY <1>2
  <2> DEFINE g == [s \in SUBSET (1 .. m + 1) |->
                     IF m + 1 \in s THEN Look(f[s \ {m + 1}], es[m + 1]) ELSE f[s]]
  <2>2. ASSUME NEW s \in SUBSET (1 .. m + 1)
        PROVE  g[s] = IF s = {} THEN base ELSE Look(g[s \ {Max(s)}], es[Max(s)])
    <3>1. CASE m + 1 \in s
      <4>1. s # {} /\ Max(s) = m + 1
        <5>0. m + 1 \in Nat
          OBVIOUS
        <5>1. Max(s) \in s /\ Max(s) >= m + 1
          BY <3>1, <5>0, MaxIs
        <5>2. Max(s) \in 1 .. m + 1
          BY <5>1
        <5> QED BY <3>1, <5>1, <5>2
      <4>2. s \ {m + 1} \in SUBSET (1 .. m + 1) /\ m + 1 \notin s \ {m + 1}
        OBVIOUS
      <4>3. g[s \ {m + 1}] = f[s \ {m + 1}] /\ g[s] = Look(f[s \ {m + 1}], es[m + 1])
        BY <3>1, <4>2
      <4> HIDE DEF g
      <4> QED BY <4>1, <4>3
    <3>2. CASE m + 1 \notin s /\ s # {}
      <4>1. s \in SUBSET (1 .. m) /\ Max(s) \in s
        BY <3>2, MaxIs
      <4>2. s \ {Max(s)} \in SUBSET (1 .. m + 1) /\ m + 1 \notin s \ {Max(s)}
        BY <3>2
      <4>3. g[s \ {Max(s)}] = f[s \ {Max(s)}] /\ g[s] = f[s]
        BY <3>2, <4>2
      <4>4. f[s] = Look(f[s \ {Max(s)}], es[Max(s)])
        BY <2>1, <3>2, <4>1
      <4> HIDE DEF g
      <4> QED BY <3>2, <4>3, <4>4
    <3>3. CASE s = {}
      <4>1. g[s] = f[s] /\ s \in SUBSET (1 .. m)
        BY <3>3
      <4>2. f[s] = base
        BY <2>1, <3>3, <4>1
      <4> HIDE DEF g
      <4> QED BY <3>3, <4>1, <4>2
    <3> QED BY <3>1, <3>2, <3>3
  <2>3. g = [s \in SUBSET (1 .. m + 1) |-> g[s]]
    OBVIOUS
  <2> HIDE DEF g
  <2>4. g = [s \in SUBSET (1 .. m + 1) |->
               IF s = {} THEN base ELSE Look(g[s \ {Max(s)}], es[Max(s)])]
    BY <2>2, <2>3
  <2> QED BY <2>4
<1>3. Nat \subseteq N
  <2> HIDE DEF N
  <2> QED BY <1>1, <1>2, NatSet
<1>4. n \in N
  <2> HIDE DEF N
  <2> QED BY <1>3
<1> QED BY <1>4

\* What Clean finds is what the last look finds.
LEMMA CleanLooks ==
  ASSUME NEW q, Clean(q), NEW es \in Seq(EntryType), es = EachOf(q, Expects)
  PROVE  \E f : Looks(es, f) /\ f[Len(es)].ok
<1> DEFINE n == Len(es)
           Is(f) == IterOf(f, es, Begins, DOMAIN es)
           c == CHOOSE f : Is(f)
<1>1. c[DOMAIN es].ok
  BY DEF Clean, FoldLeft, MapThenFoldSet, Look, Begins, IterOf
<1> HIDE DEF EntryType
<1>2. DOMAIN es = 1 .. n /\ n \in Nat
  OBVIOUS
<1>3. Is(c)
  <2>1. \E f : IterOf(f, es, Begins, 1 .. n)
    <3> HIDE DEF n
    <3> QED BY <1>2, IterExists
  <2>2. \E f : Is(f)
    BY <1>2, <2>1
  <2> HIDE DEF Is
  <2> QED BY <2>2
<1> HIDE DEF c
<1> DEFINE f == [i \in 0 .. n |-> c[1 .. i]]
<1>4. \A s \in SUBSET (1 .. n) :
        c[s] = IF s = {} THEN Begins ELSE Look(c[s \ {Max(s)}], es[Max(s)])
  BY <1>2, <1>3 DEF IterOf
<1>5. f[0] = Begins
  <2>1. 1 .. 0 = {} /\ 1 .. 0 \in SUBSET (1 .. n) /\ 0 \in 0 .. n
    BY <1>2
  <2>2. c[1 .. 0] = Begins
    BY <1>4, <2>1
  <2> HIDE DEF n
  <2> QED BY <2>1, <2>2
<1>6. ASSUME NEW i \in 1 .. n PROVE f[i] = Look(f[i - 1], es[i])
  <2>1. 1 .. i \in SUBSET (1 .. n) /\ 1 .. i # {} /\ i \in 1 .. i /\ i \in 0 .. n /\ i - 1 \in 0 .. n
    <3> HIDE DEF n
    <3>1. i \in 1 .. i /\ i \in 0 .. n /\ i - 1 \in 0 .. n
      BY <1>2
    <3>2. \A x \in 1 .. i : x \in 1 .. n
      BY <1>2
    <3> QED BY <3>1, <3>2
  <2>2. Max(1 .. i) = i
    <3>1. Max(1 .. i) \in 1 .. i /\ \A y \in 1 .. i : Max(1 .. i) >= y
      BY <1>2, <2>1, MaxIs
    <3> QED BY <2>1, <3>1
  <2>3. (1 .. i) \ {i} = 1 .. (i - 1)
    BY <1>2
  <2>4. c[1 .. i] = Look(c[1 .. (i - 1)], es[i])
    BY <1>4, <2>1, <2>2, <2>3
  <2>5. f[i] = c[1 .. i] /\ f[i - 1] = c[1 .. (i - 1)]
    <3> HIDE DEF n
    <3> QED BY <2>1
  <2>6. c[1 .. i] = Look(c[1 .. (i - 1)], es[i])
    BY <2>4
  <2> HIDE DEF f
  <2>7. f[i] = Look(f[i - 1], es[i])
    BY <2>5, <2>6
  <2> QED BY <2>7
<1>7. f[n] = c[DOMAIN es]
  BY <1>2
<1> HIDE DEF f
<1> QED BY <1>1, <1>5, <1>6, <1>7 DEF Looks

-----------------------------------------------------------------------------
(* What a clean review has seen of each step. *)

\* The expected versions of a step, as a function.
ExpectsOf == [s \in StepType |-> Expects(s)]

\* What Clean has seen of a step when it has found nothing wrong.
Seen(s, a, b) ==
  /\ \A e \in Range(Expects(s)) : a[e.row] = e.v /\ b[e.row] = e.next
  /\ \A row \in Rows \ Touches(s) : b[row] = a[row]

\* And of a list of steps.
Reviewed(q, h) ==
  /\ h[0] = at /\ \A i \in 0 .. Len(q) : h[i] \in Versions
  /\ \A i \in 1 .. Len(q) : Seen(q[i], h[i - 1], h[i])

\* A look that finds nothing wrong, after looks that found nothing wrong.
LEMMA LookOk ==
  ASSUME NEW e, NEW r, NEW t, t = Look(r, e), t.ok
  PROVE  r.ok
<1>1. t.ok = (r.ok /\ r.at[e.row] = e.v /\ e.row \notin r.gone)
  BY DEF Look
<1> QED BY <1>1

LEMMA LookIs ==
  ASSUME NEW e \in EntryType, NEW r, NEW t, t = Look(r, e), r.at \in Versions, t.ok
  PROVE  /\ r.ok /\ r.at[e.row] = e.v /\ t.at \in Versions /\ t.at[e.row] = e.next
         /\ \A row \in Rows : row # e.row => t.at[row] = r.at[row]
<1>1. /\ t.ok = (r.ok /\ r.at[e.row] = e.v /\ e.row \notin r.gone)
      /\ t.at = [r.at EXCEPT ![e.row] = e.next]
  BY DEF Look
<1>2. r.ok /\ r.at[e.row] = e.v
  BY <1>1
<1>3. e.row \in Rows /\ e.next \in Nat
  BY DEF EntryType
<1> QED BY <1>1, <1>2, <1>3 DEF Versions

\* The places of the two expected versions of one step.
LEMMA TwoMore ==
  ASSUME NEW n \in Nat, NEW k, k = n + 2
  PROVE  \E m \in Nat : m = n + 1 /\ k = m + 1 /\ k - 1 = m /\ m - 1 = n /\ k - n = 2 /\ m - n = 1
                       /\ m \in n + 1 .. k /\ k \in n + 1 .. k
<1>1. PICK m \in Nat : m = n + 1
  OBVIOUS
<1> QED BY <1>1

\* The looks of one step, those of a list, and those of Clean.
LEMMA StepLooks ==
  ASSUME NEW s \in StepType, NEW f, NEW n \in Nat, NEW k \in Nat, k = n + Len(Expects(s)),
         \A i \in n + 1 .. k : f[i] = Look(f[i - 1], Expects(s)[i - n]),
         f[k].ok
  PROVE  f[n].ok /\ (f[n].at \in Versions => f[k].at \in Versions /\ Seen(s, f[n].at, f[k].at))
<1> DEFINE e == EntityOf(s)
           d == OrgOf(s)
<1>0. /\ Expects(s) = IF s.op \in {"CREATE", "SAVE"} THEN <<e>> ELSE <<e, d>>
      /\ Range(Expects(s)) = IF s.op \in {"CREATE", "SAVE"} THEN {e} ELSE {e, d}
      /\ e \in EntryType /\ d \in EntryType /\ d.row # e.row
  BY ExpectsAre, Entries
<1>00. Touches(s) = {x.row : x \in Range(Expects(s))}
  BY DEF Touches
<1> HIDE DEF e, d, EntryType
<1>1. CASE s.op \in {"CREATE", "SAVE"}
  <2>1. k = n + 1 /\ Expects(s)[1] = e
    BY <1>0, <1>1
  <2>2. f[k] = Look(f[n], e)
    BY <2>1
  <2>3. f[n].ok
    BY <2>2, LookOk
  <2>4. ASSUME f[n].at \in Versions
        PROVE  f[k].at \in Versions /\ Seen(s, f[n].at, f[k].at)
    <3>1. /\ f[n].at[e.row] = e.v /\ f[k].at \in Versions /\ f[k].at[e.row] = e.next
          /\ \A row \in Rows : row # e.row => f[k].at[row] = f[n].at[row]
      BY <1>0, <2>2, <2>4, LookIs
    <3> QED BY <1>0, <1>00, <1>1, <3>1 DEF Seen
  <2> QED BY <2>3, <2>4
<1>2. CASE s.op \notin {"CREATE", "SAVE"}
  <2>1. k = n + 2 /\ Expects(s)[1] = e /\ Expects(s)[2] = d
    BY <1>0, <1>2
  <2>2. PICK m \in Nat : m = n + 1 /\ k = m + 1 /\ k - 1 = m /\ m - 1 = n /\ k - n = 2 /\ m - n = 1
                         /\ m \in n + 1 .. k /\ k \in n + 1 .. k
    BY <2>1, TwoMore
  <2>3. f[m] = Look(f[n], e) /\ f[k] = Look(f[m], d)
    BY <2>1, <2>2
  <2>4. f[m].ok /\ f[n].ok
    <3>1. f[m].ok
      BY <2>3, LookOk
    <3> QED BY <2>3, <3>1, LookOk
  <2>5. ASSUME f[n].at \in Versions
        PROVE  f[k].at \in Versions /\ Seen(s, f[n].at, f[k].at)
    <3>1. /\ f[n].at[e.row] = e.v /\ f[m].at \in Versions /\ f[m].at[e.row] = e.next
          /\ \A row \in Rows : row # e.row => f[m].at[row] = f[n].at[row]
      BY <1>0, <2>3, <2>4, <2>5, LookIs
    <3>2. /\ f[m].at[d.row] = d.v /\ f[k].at \in Versions /\ f[k].at[d.row] = d.next
          /\ \A row \in Rows : row # d.row => f[k].at[row] = f[m].at[row]
      BY <1>0, <2>3, <3>1, LookIs
    <3>3. e.row \in Rows /\ d.row \in Rows
      BY <1>0 DEF EntryType
    <3> QED BY <1>0, <1>00, <1>2, <3>1, <3>2, <3>3 DEF Seen
  <2> QED BY <2>4, <2>5
<1> QED BY <1>1, <1>2

LEMMA LooksReviewed ==
  ASSUME at \in Versions, NEW q \in Seq(StepType), NEW f, Looks(Each(ExpectsOf, q), f),
         f[Len(Each(ExpectsOf, q))].ok
  PROVE  \E h : Reviewed(q, h)
<1> DEFINE Shows(p, g) == \E h : Reviewed(p, h) /\ h[Len(p)] = g[Len(Each(ExpectsOf, p))].at
           Good(p) == \A g : Looks(Each(ExpectsOf, p), g) /\ g[Len(Each(ExpectsOf, p))].ok => Shows(p, g)
           T == {p \in Seq(StepType) : Good(p)}
<1>0. /\ \A s \in StepType : Expects(s) \in Seq(EntryType)
      /\ ExpectsOf \in [StepType -> Seq(EntryType)]
      /\ \A s \in StepType : ExpectsOf[s] = Expects(s)
  <2>1. \A s \in StepType : Expects(s) \in Seq(EntryType)
    BY ExpectsAre
  <2> HIDE DEF StepType, EntryType
  <2> QED BY <2>1 DEF ExpectsOf
<1> HIDE DEF StepType, EntryType
<1>1. <<>> \in T
  <2>1. Each(ExpectsOf, <<>>) = <<>>
    <3>1. [i \in DOMAIN <<>> |-> ExpectsOf[<<>>[i]]] = <<>>
      OBVIOUS
    <3> QED BY <3>1, FlattenNone DEF Each
  <2> SUFFICES ASSUME NEW g, Looks(<<>>, g) PROVE Shows(<<>>, g)
    BY <2>1
  <2>2. g[0].at = at
    BY DEF Looks, Begins
  <2>3. PICK h : h = [i \in 0 .. 0 |-> at]
    OBVIOUS
  <2>4. h[0] = at /\ Reviewed(<<>>, h)
    BY <2>3 DEF Reviewed
  <2> QED BY <2>1, <2>2, <2>4
<1>2. ASSUME NEW p \in Seq(StepType), NEW s \in StepType, p \in T
      PROVE  Append(p, s) \in T
  <2> DEFINE es == Each(ExpectsOf, p)
             ds == Expects(s)
             m == Len(p)
  <2>1. Append(p, s) \in Seq(StepType) /\ m \in Nat /\ Len(Append(p, s)) = m + 1
        /\ Append(p, s)[m + 1] = s /\ \A i \in 1 .. m : Append(p, s)[i] = p[i]
    OBVIOUS
  <2>2. Each(ExpectsOf, Append(p, s)) = es \o ds
    BY <1>0, EachMore
  <2>3. es \in Seq(EntryType) /\ ds \in Seq(EntryType)
    BY <1>0, EachIsType
  <2>4. Good(p)
    BY <1>2
  <2> HIDE DEF Good, es, ds, m
  <2> SUFFICES Good(Append(p, s))
    BY <2>1
  <2> SUFFICES ASSUME NEW g, Looks(es \o ds, g), g[Len(es \o ds)].ok PROVE Shows(Append(p, s), g)
    BY <2>2 DEF Good
  <2>5. PICK n \in Nat, k \in Nat : n = Len(es) /\ k = n + Len(ds) /\ k = Len(es \o ds)
    BY <2>3
  <2>6. /\ \A i \in 1 .. n : (es \o ds)[i] = es[i] /\ i \in 1 .. k
        /\ \A i \in n + 1 .. k : (es \o ds)[i] = ds[i - n] /\ i \in 1 .. k
    BY <2>3, <2>5
  <2>7. Looks(es, g)
    BY <2>5, <2>6 DEF Looks
  <2>8. \A i \in n + 1 .. k : g[i] = Look(g[i - 1], ds[i - n])
    BY <2>5, <2>6 DEF Looks
  <2>9. g[n].ok /\ (g[n].at \in Versions => g[k].at \in Versions /\ Seen(s, g[n].at, g[k].at))
    BY <2>5, <2>8, StepLooks DEF ds
  <2>10. Shows(p, g)
    BY <2>4, <2>5, <2>7, <2>9 DEF Good, es
  <2>11. PICK h : Reviewed(p, h) /\ h[m] = g[n].at
    BY <2>5, <2>10 DEF es, m
  <2>12. PICK b : b = [i \in 0 .. m + 1 |-> IF i = m + 1 THEN g[k].at ELSE h[i]]
    OBVIOUS
  <2>13. b[m + 1] = g[k].at /\ \A i \in 0 .. m : b[i] = h[i]
    BY <2>1, <2>12
  <2>14. h[m] \in Versions /\ h[0] = at
    BY <2>1, <2>11 DEF Reviewed, m
  <2>15. g[k].at \in Versions /\ Seen(s, h[m], g[k].at)
    BY <2>9, <2>11, <2>14
  <2>16. Reviewed(Append(p, s), b)
    <3>1. b[0] = at
      BY <2>1, <2>13, <2>14
    <3>2. ASSUME NEW i \in 0 .. m + 1 PROVE b[i] \in Versions
      <4>1. CASE i = m + 1
        BY <2>13, <2>15, <4>1
      <4>2. CASE i # m + 1
        <5>1. i \in 0 .. m
          BY <2>1, <4>2
        <5> QED BY <2>11, <2>13, <5>1 DEF Reviewed, m
      <4> QED BY <4>1, <4>2
    <3>3. ASSUME NEW i \in 1 .. m + 1 PROVE Seen(Append(p, s)[i], b[i - 1], b[i])
      <4>1. CASE i = m + 1
        <5>1. i - 1 = m /\ m \in 0 .. m
          BY <2>1, <4>1
        <5>2. b[i - 1] = h[m] /\ b[i] = g[k].at
          BY <2>13, <4>1, <5>1
        <5> QED BY <2>1, <2>15, <4>1, <5>2
      <4>2. CASE i # m + 1
        <5>1. i \in 1 .. m /\ i \in 0 .. m /\ i - 1 \in 0 .. m
          BY <2>1, <4>2
        <5>2. Seen(p[i], h[i - 1], h[i])
          BY <2>11, <5>1 DEF Reviewed, m
        <5> QED BY <2>1, <2>13, <5>1, <5>2
      <4> QED BY <4>1, <4>2
    <3> QED BY <2>1, <3>1, <3>2, <3>3 DEF Reviewed
  <2> QED BY <2>1, <2>2, <2>5, <2>13, <2>16
<1>3. Seq(StepType) \subseteq T
  <2> HIDE DEF T
  <2> QED BY <1>1, <1>2, ListSet
<1>4. Good(q)
  BY <1>3
<1> QED BY <1>4

LEMMA CleanReviewed ==
  ASSUME TypeOK, NEW q \in Seq(StepType), Clean(q)
  PROVE  \E h : Reviewed(q, h)
<1>0. /\ ExpectsOf \in [StepType -> Seq(EntryType)]
      /\ \A s \in StepType : ExpectsOf[s] = Expects(s)
  <2>1. \A s \in StepType : Expects(s) \in Seq(EntryType)
    BY ExpectsAre
  <2> HIDE DEF StepType, EntryType
  <2> QED BY <2>1 DEF ExpectsOf
<1>00. at \in Versions
  BY DEF TypeOK, Versions, Rows
<1> HIDE DEF StepType, EntryType
<1>1. [i \in DOMAIN q |-> Expects(q[i])] = [i \in DOMAIN q |-> ExpectsOf[q[i]]]
  BY <1>0
<1>2. EachOf(q, Expects) = Each(ExpectsOf, q)
  BY <1>1 DEF EachOf, Each
<1>3. Each(ExpectsOf, q) \in Seq(EntryType)
  BY <1>0, EachIsType
<1>4. \E f : Looks(Each(ExpectsOf, q), f) /\ f[Len(Each(ExpectsOf, q))].ok
  BY <1>2, <1>3, CleanLooks
<1> QED BY <1>00, <1>4, LooksReviewed

-----------------------------------------------------------------------------
(* What has been reviewed and decided waits for nothing it has not seen. *)

\* The rows that a review goes by, one step after the other.
LEMMA ReviewedSame ==
  ASSUME NEW q \in Seq(StepType), NEW h, Reviewed(q, h)
  PROVE  /\ \A row \in Rows : Leave(q, h, row)
         /\ \A i \in 1 .. Len(q) : \A e \in Range(Expects(q[i])) : First(q, i, e) => e.v = at[e.row]
         /\ \A i, k \in 1 .. Len(q) : \A e \in Range(Expects(q[k])), f \in Range(Expects(q[i])) :
              k < i /\ e.row = f.row /\ Between(q, k, i, e.row) => f.v = e.next
<1> HIDE DEF StepType
<1>0. \A i \in 1 .. Len(q) : q[i] \in StepType
  OBVIOUS
<1>1. \A i \in 1 .. Len(q) : Seen(q[i], h[i - 1], h[i])
  BY DEF Reviewed
<1>2. \A row \in Rows : Leave(q, h, row)
  BY <1>1 DEF Seen, Leave
<1>3. ASSUME NEW i \in 1 .. Len(q), NEW e \in Range(Expects(q[i])), First(q, i, e)
      PROVE  e.v = at[e.row]
  <2>1. e.row \in Rows
    BY <1>0, Entries
  <2>2. 0 \in 0 .. Len(q) /\ 0 < i
    OBVIOUS
  <2>3. Leave(q, h, e.row) /\ Between(q, 0, i, e.row)
    BY <1>2, <1>3, <2>1 DEF First
  <2>4. h[i - 1][e.row] = h[0][e.row]
    BY <2>2, <2>3, UntouchedSame
  <2>5. h[i - 1][e.row] = e.v /\ h[0] = at
    BY <1>1 DEF Seen, Reviewed
  <2> QED BY <2>4, <2>5
<1>4. ASSUME NEW i \in 1 .. Len(q), NEW k \in 1 .. Len(q), NEW e \in Range(Expects(q[k])),
             NEW f \in Range(Expects(q[i])), k < i, e.row = f.row, Between(q, k, i, e.row)
      PROVE  f.v = e.next
  <2>1. e.row \in Rows
    BY <1>0, Entries
  <2>2. k \in 0 .. Len(q)
    OBVIOUS
  <2>3. Leave(q, h, e.row)
    BY <1>2, <2>1
  <2>4. h[i - 1][e.row] = h[k][e.row]
    BY <1>4, <2>2, <2>3, UntouchedSame
  <2>5. h[i - 1][f.row] = f.v /\ h[k][e.row] = e.next
    BY <1>1 DEF Seen
  <2> QED BY <1>4, <2>4, <2>5
<1> QED BY <1>2, <1>3, <1>4

\* What the person decides changes the version of a save, or the archive after it.
LEMMA ResolvedIs ==
  ASSUME NEW p \in Seq(StepType), NEW chosen \in SUBSET Candidates(p), NEW r, r = Resolved(p, chosen)
  PROVE  /\ DOMAIN r = 1 .. Len(p)
         /\ \A i \in 1 .. Len(p) :
              LET now == at[Row(p[i].id, "ENTITY")] IN
              /\ r[i].op = p[i].op /\ r[i].id = p[i].id /\ r[i].ov = p[i].ov
              /\ \/ i \in chosen /\ r[i].op = "SAVE" /\ r[i].v = now /\ r[i].seen = now
                 \/ r[i] = p[i]
                 \/ r[i].op = "ARCHIVE" /\ r[i].v = now + 1
<1>0. \A i \in 1 .. Len(p) : p[i] = [op |-> p[i].op, id |-> p[i].id, v |-> p[i].v, ov |-> p[i].ov,
                              under |-> p[i].under, into |-> p[i].into, seen |-> p[i].seen]
  <2> SUFFICES ASSUME NEW i \in 1 .. Len(p)
               PROVE p[i] = [op |-> p[i].op, id |-> p[i].id, v |-> p[i].v, ov |-> p[i].ov,
                              under |-> p[i].under, into |-> p[i].into, seen |-> p[i].seen]
    OBVIOUS
  <2>1. p[i] \in StepType
    OBVIOUS
  <2> QED BY <2>1 DEF StepType
<1> HIDE DEF StepType
<1> DEFINE g(i) == IF i \in chosen
                   THEN [p[i] EXCEPT !.v = at[Row(p[i].id, "ENTITY")],
                                     !.seen = at[Row(p[i].id, "ENTITY")]]
                   ELSE IF p[i].op = "ARCHIVE"
                           /\ \E k \in chosen : p[k].id = p[i].id /\ p[k].v + 1 = p[i].v
                   THEN [p[i] EXCEPT !.v = at[Row(p[i].id, "ENTITY")] + 1]
                   ELSE p[i]
<1>1. r = [i \in DOMAIN p |-> g(i)]
  BY DEF Resolved
<1>10. DOMAIN p = 1 .. Len(p)
  OBVIOUS
<1>11. DOMAIN r = 1 .. Len(p) /\ \A i \in 1 .. Len(p) : r[i] = g(i)
  <2> HIDE DEF g
  <2> QED BY <1>1, <1>10
<1> SUFFICES ASSUME NEW i \in 1 .. Len(p)
             PROVE  LET now == at[Row(p[i].id, "ENTITY")] IN
                    /\ r[i].op = p[i].op /\ r[i].id = p[i].id /\ r[i].ov = p[i].ov
                    /\ \/ i \in chosen /\ r[i].op = "SAVE" /\ r[i].v = now /\ r[i].seen = now
                       \/ r[i] = p[i]
                       \/ r[i].op = "ARCHIVE" /\ r[i].v = now + 1
  BY <1>11
<1> DEFINE s == p[i]
           now == at[Row(s.id, "ENTITY")]
<1>2. /\ r[i] = IF i \in chosen THEN [s EXCEPT !.v = now, !.seen = now]
                ELSE IF s.op = "ARCHIVE" /\ \E k \in chosen : p[k].id = s.id /\ p[k].v + 1 = s.v
                THEN [s EXCEPT !.v = now + 1]
                ELSE s
  BY <1>11
<1> HIDE DEF g
<1>3. s = [op |-> s.op, id |-> s.id, v |-> s.v, ov |-> s.ov,
           under |-> s.under, into |-> s.into, seen |-> s.seen]
  BY <1>0
<1> HIDE DEF s
<1>4. CASE i \in chosen
  <2>1. s.op = "SAVE"
    BY <1>4 DEF Candidates, s
  <2>2. r[i] = [s EXCEPT !.v = now, !.seen = now]
    BY <1>2, <1>4
  <2>3. r[i].op = s.op /\ r[i].id = s.id /\ r[i].ov = s.ov /\ r[i].v = now /\ r[i].seen = now
    BY <1>3, <2>2
  <2> QED BY <1>4, <2>1, <2>3 DEF s
<1>5. CASE i \notin chosen /\ r[i] = [s EXCEPT !.v = now + 1] /\ s.op = "ARCHIVE"
  <2>1. r[i].op = s.op /\ r[i].id = s.id /\ r[i].ov = s.ov /\ r[i].v = now + 1
    BY <1>3, <1>5
  <2> QED BY <1>5, <2>1 DEF s
<1>6. CASE r[i] = s
  BY <1>6 DEF s
<1> QED BY <1>2, <1>4, <1>5, <1>6

\* What the person has reviewed and decided waits on.
LEMMA ResolvedWaiting ==
  ASSUME TypeOK, NEW p \in Seq(StepType), Waiting(p), NEW chosen \in SUBSET Candidates(p),
         NEW r \in Seq(StepType), r = Resolved(p, chosen), Clean(r)
  PROVE  Waiting(r)
<1>0. /\ Len(r) = Len(p)
      /\ \A i \in 1 .. Len(p) :
           LET now == at[Row(p[i].id, "ENTITY")] IN
           /\ r[i].op = p[i].op /\ r[i].id = p[i].id /\ r[i].ov = p[i].ov
           /\ \/ i \in chosen /\ r[i].op = "SAVE" /\ r[i].v = now /\ r[i].seen = now
              \/ r[i] = p[i]
              \/ r[i].op = "ARCHIVE" /\ r[i].v = now + 1
  <2> HIDE DEF StepType
  <2>1. DOMAIN r = 1 .. Len(r) /\ Len(r) \in Nat /\ Len(p) \in Nat
    OBVIOUS
  <2>2. DOMAIN r = 1 .. Len(p)
    BY ResolvedIs
  <2>3. Len(r) = Len(p)
    BY <2>1, <2>2
  <2> QED BY <2>3, ResolvedIs
<1>00. \A i \in 1 .. Len(p) : r[i] \in StepType /\ p[i] \in StepType
  <2> HIDE DEF StepType
  <2>1. \A i \in 1 .. Len(r) : r[i] \in StepType
    OBVIOUS
  <2>2. \A i \in 1 .. Len(p) : p[i] \in StepType
    OBVIOUS
  <2> QED BY <1>0, <2>1, <2>2
<1>000. \A row \in Rows : at[row] \in Nat
  BY DEF TypeOK, Rows
<1>01. PICK h : Reviewed(r, h)
  BY CleanReviewed
<1> HIDE DEF StepType
<1>1. /\ \A i \in 1 .. Len(r) : \A e \in Range(Expects(r[i])) : First(r, i, e) => e.v = at[e.row]
      /\ \A i, k \in 1 .. Len(r) : \A e \in Range(Expects(r[k])), f \in Range(Expects(r[i])) :
              k < i /\ e.row = f.row /\ Between(r, k, i, e.row) => f.v = e.next
  BY <1>01, ReviewedSame
<1>2. \A i \in 1 .. Len(p) : Touches(r[i]) = Touches(p[i])
  <2> SUFFICES ASSUME NEW i \in 1 .. Len(p) PROVE Touches(r[i]) = Touches(p[i])
    OBVIOUS
  <2>1. EntityOf(r[i]).row = EntityOf(p[i]).row /\ OrgOf(r[i]).row = OrgOf(p[i]).row
    BY <1>0 DEF EntityOf, OrgOf
  <2>2. r[i].op = p[i].op
    BY <1>0
  <2>3. /\ Range(Expects(p[i])) = IF p[i].op \in {"CREATE", "SAVE"} THEN {EntityOf(p[i])}
                                  ELSE {EntityOf(p[i]), OrgOf(p[i])}
        /\ Range(Expects(r[i])) = IF r[i].op \in {"CREATE", "SAVE"} THEN {EntityOf(r[i])}
                                  ELSE {EntityOf(r[i]), OrgOf(r[i])}
    BY <1>00, ExpectsAre
  <2> QED BY <2>1, <2>2, <2>3 DEF Touches
<1>3. ASSUME NEW i \in 1 .. Len(r) PROVE Plain(r[i])
  <2>1. Plain(p[i])
    BY <1>0 DEF Waiting
  <2>2. r[i].op = p[i].op /\ r[i].ov = p[i].ov
    BY <1>0
  <2>3. r[i].op \in {"CREATE", "FOLDER_ICON"} => r[i].v = p[i].v
    BY <1>0
  <2> QED BY <2>1, <2>2, <2>3 DEF Plain
<1>4. Linked(r)
  <2> SUFFICES ASSUME NEW i \in 1 .. Len(r), NEW k \in 1 .. Len(r),
                      NEW e \in Range(Expects(r[k])), NEW f \in Range(Expects(r[i])),
                      k < i, e.row = f.row, Between(r, k, i, e.row), ~ OfFolder(r[k], e.row)
               PROVE  Bounded(r[k], e, f)
    BY DEF Linked
  <2>1. f.v = e.next
    BY <1>1
  <2>2. r[k] \in StepType /\ Plain(r[k])
    BY <1>0, <1>00, <1>3
  <2>3. e.v \in Nat
    BY <2>2, Entries
  <2>4. \/ e = EntityOf(r[k])
        \/ r[k].op \notin {"CREATE", "SAVE"} /\ e = OrgOf(r[k])
    BY <2>2, Entries
  <2>5. CASE e = EntityOf(r[k])
    <3>1. e.row = Row(r[k].id, "ENTITY")
          /\ e.next = IF r[k].op \in {"CREATE", "SAVE"} THEN e.v + 1 ELSE e.v
      BY <2>5 DEF EntityOf
    <3>2. r[k].op \in {"CREATE", "SAVE"} => Written(r[k]) = e.row
      BY <3>1 DEF Written
    <3> QED BY <2>1, <2>3, <3>1, <3>2 DEF Bounded
  <2>6. CASE r[k].op \notin {"CREATE", "SAVE"} /\ e = OrgOf(r[k])
    <3>1. e.row = Row(r[k].id, "ORG") /\ e.next = e.v + 1 /\ e.v = r[k].ov
      BY <2>6 DEF OrgOf
    <3>2. r[k].op # "MOVE_IN" => Written(r[k]) = e.row
      BY <2>6, <3>1 DEF Written
    <3>3. r[k].op = "MOVE_IN" => e.v = 0
      BY <2>2, <3>1 DEF Plain
    <3> QED BY <2>1, <2>3, <3>1, <3>2, <3>3 DEF Bounded
  <2> QED BY <2>4, <2>5, <2>6
<1>5. FoldersApart(r)
  BY <1>0 DEF Waiting, FoldersApart
<1>6. Behind(r)
  <2> SUFFICES ASSUME NEW i \in 1 .. Len(r), NEW e \in Range(Expects(r[i])), First(r, i, e)
               PROVE  Held(r[i], e)
    BY DEF Behind
  <2>1. e.v = at[e.row]
    BY <1>1
  <2>2. e.row \in Rows /\ e.v \in Nat /\ r[i] \in StepType /\ p[i] \in StepType
    BY <1>0, <1>00, Entries
  <2> SUFFICES ASSUME e.row \in alien PROVE Decided(r[i])
    BY <2>1, <2>2 DEF Held
  <2>3. ASSUME NEW d \in Range(Expects(p[i])), d.row = e.row, d.v = e.v PROVE Decided(p[i])
    <3>1. First(p, i, d)
      <4> SUFFICES ASSUME NEW l \in 0 + 1 .. i - 1 PROVE d.row \notin Touches(p[l])
        BY <2>3 DEF First, Between
      <4>1. l \in 1 .. Len(p)
        BY <1>0
      <4>2. d.row \notin Touches(r[l])
        BY <2>3 DEF First, Between
      <4> QED BY <1>2, <4>1, <4>2
    <3>2. Held(p[i], d)
      BY <1>0, <3>1 DEF Waiting, Behind
    <3> QED BY <2>1, <2>2, <2>3, <3>2 DEF Held
  <2>4. CASE i \in chosen /\ r[i].op = "SAVE" /\ r[i].v = r[i].seen
    BY <2>4 DEF Decided
  <2>5. CASE r[i] = p[i]
    BY <2>3, <2>5
  <2>6. CASE r[i].op = "ARCHIVE" /\ r[i].v = at[Row(p[i].id, "ENTITY")] + 1
    <3>1. r[i].id = p[i].id /\ r[i].op = p[i].op /\ r[i].ov = p[i].ov
      BY <1>0
    <3>2. Row(p[i].id, "ENTITY") \in Rows
      BY <2>2, StepRows
    <3>3. e # EntityOf(r[i])
      <4> SUFFICES ASSUME e = EntityOf(r[i]) PROVE FALSE
        OBVIOUS
      <4>1. e.row = Row(p[i].id, "ENTITY") /\ e.v = r[i].v
        BY <3>1 DEF EntityOf
      <4>2. at[e.row] \in Nat /\ e.v = at[e.row] + 1
        BY <1>000, <2>2, <2>6, <4>1
      <4> QED BY <2>1, <4>2
    <3>4. e = OrgOf(r[i])
      BY <2>2, <3>3, Entries
    <3>5. OrgOf(p[i]) \in Range(Expects(p[i])) /\ OrgOf(p[i]) = e
      <4>1. p[i].op \notin {"CREATE", "SAVE"}
        BY <2>6, <3>1
      <4>2. OrgOf(p[i]) \in Range(Expects(p[i]))
        BY <2>2, <4>1, ExpectsAre
      <4> QED BY <3>1, <3>4, <4>2 DEF OrgOf
    <3>6. Decided(p[i])
      BY <2>3, <3>5
    <3> QED BY <2>6, <3>1, <3>6 DEF Decided
  <2> QED BY <1>0, <2>4, <2>5, <2>6
<1> QED BY <1>3, <1>4, <1>5, <1>6 DEF Waiting

-----------------------------------------------------------------------------
(* A plan waits for nothing when it is prepared. *)

\* Steps about entities, and about folders, with these identities.
About(ids) == {s \in StepType : Plain(s) /\ s.op \notin FolderOps /\ s.id \in ids}
AboutFolders(ids) == {s \in StepType : Plain(s) /\ s.op \in FolderOps /\ s.id \in ids}

\* The steps of the phases are about their copy.
LEMMA StepAbout ==
  ASSUME NEW c \in CopyType, NEW ids, c.id \in ids, NEW op, NEW v \in Nat, NEW ov \in Nat,
         op \in {"CREATE", "SAVE", "ARCHIVE", "MOVE_TEXT", "MOVE_IN", "NOTE_ICON"},
         op = "CREATE" => v = 0, op = "MOVE_IN" => ov = 0
  PROVE  <<Step(op, c, v, ov)>> \in Seq(About(ids))
<1>1. Step(op, c, v, ov) \in StepType
  BY StepIsStep
<1>2. Step(op, c, v, ov).op = op /\ Step(op, c, v, ov).id = c.id
      /\ Step(op, c, v, ov).v = v /\ Step(op, c, v, ov).ov = ov
  BY DEF Step
<1>3. Plain(Step(op, c, v, ov))
  BY <1>2 DEF Plain
<1>4. op \notin FolderOps
  BY DEF FolderOps
<1> HIDE DEF StepType, Plain, FolderOps, CopyType
<1>5. Step(op, c, v, ov) \in About(ids)
  BY <1>1, <1>2, <1>3, <1>4 DEF About
<1> HIDE DEF About
<1> QED BY <1>5

LEMMA CopyAbout ==
  ASSUME TypeOK, NEW c \in CopyType, NEW ids, c.id \in ids
  PROVE  /\ CreateSteps(c) \in Seq(About(ids)) /\ FinalSteps(c) \in Seq(About(ids))
         /\ OrderSteps(c) \in Seq(About(ids)) /\ MembershipSteps(c) \in Seq(About(ids))
         /\ FolderSteps(c) \in Seq(AboutFolders(ids))
<1>1. at[Row(c.id, "ENTITY")] \in Nat
  BY DEF TypeOK, Row, Parts, CopyType
<1> DEFINE A == About(ids)
           B == AboutFolders(ids)
<1>2. <<>> \in Seq(A) /\ <<>> \in Seq(B)
  OBVIOUS
<1>3. /\ <<Step("CREATE", c, 0, 0)>> \in Seq(A) /\ <<Step("SAVE", c, 1, 0)>> \in Seq(A)
      /\ <<Step("SAVE", c, at[Row(c.id, "ENTITY")], 0)>> \in Seq(A)
  BY <1>1, StepAbout
<1>4. /\ <<Step("ARCHIVE", c, 2, 0)>> \in Seq(A) /\ <<Step("MOVE_IN", c, 1, 0)>> \in Seq(A)
      /\ <<Step("MOVE_TEXT", c, 1, 0)>> \in Seq(A)
      /\ \A v, ov \in Nat : <<Step("NOTE_ICON", c, v, ov)>> \in Seq(A)
  BY StepAbout
<1>5. <<Step("NEW_FOLDER", c, 0, 0)>> \in Seq(B) /\ <<Step("FOLDER_ICON", c, 1, 1)>> \in Seq(B)
  <2>1. Step("NEW_FOLDER", c, 0, 0) \in StepType /\ Step("FOLDER_ICON", c, 1, 1) \in StepType
    BY StepIsStep
  <2>2. Step("NEW_FOLDER", c, 0, 0) \in B /\ Step("FOLDER_ICON", c, 1, 1) \in B
    <3> HIDE DEF StepType, CopyType
    <3> QED BY <2>1 DEF AboutFolders, Plain, FolderOps, Step
  <2> HIDE DEF B, StepType, CopyType
  <2> QED BY <2>2
<1> HIDE DEF A, B, StepType, CopyType
<1>6. CreateSteps(c) \in Seq(A)
  BY <1>2, <1>3, ConcatProperties DEF CreateSteps
<1>7. FinalSteps(c) \in Seq(A) /\ OrderSteps(c) \in Seq(A)
  BY <1>2, <1>3 DEF FinalSteps, OrderSteps
<1>8. FolderSteps(c) \in Seq(B)
  BY <1>2, <1>5, ConcatProperties DEF FolderSteps
<1>9. MembershipSteps(c) \in Seq(A)
  <2> DEFINE move == IF c.into # NoId THEN <<Step("MOVE_IN", c, 1, 0)>>
                     ELSE IF c.text THEN <<Step("MOVE_TEXT", c, 1, 0)>> ELSE <<>>
             icon == IF c.icon
                     THEN <<Step("NOTE_ICON", c, IF c.into # NoId \/ c.text THEN 2 ELSE 1,
                                 IF c.into = NoId /\ c.text THEN 1 ELSE 0)>>
                     ELSE <<>>
  <2>1. move \in Seq(A) /\ icon \in Seq(A)
    BY <1>2, <1>4
  <2>2. MembershipSteps(c) =
          CASE c.kind = "WORK" /\ c.archived -> <<Step("ARCHIVE", c, 2, 0)>>
            [] c.kind = "NOTE" -> move \o icon
            [] OTHER -> <<>>
    BY DEF MembershipSteps
  <2> HIDE DEF move, icon
  <2>3. move \o icon \in Seq(A)
    BY <2>1, ConcatProperties
  <2> QED BY <1>2, <1>4, <2>2, <2>3
<1> QED BY <1>6, <1>7, <1>8, <1>9 DEF A, B

\* So are all the lists of a phase.
LEMMA EachKeeps ==
  ASSUME NEW S, NEW T, NEW F, NEW q \in Seq(S), \A c \in Range(q) : F[c] \in Seq(T)
  PROVE  Each(F, q) \in Seq(T)
<1> DEFINE f == [i \in DOMAIN q |-> F[q[i]]]
<1>1. \A i \in 1 .. Len(q) : f[i] \in Seq(T)
  BY RangeIs
<1>2. DOMAIN f = DOMAIN q /\ f = [i \in DOMAIN q |-> f[i]]
  OBVIOUS
<1> HIDE DEF f
<1>3. FlattenSeq(f) \in Seq(T)
  BY <1>1, <1>2, EachType
<1> QED BY <1>3 DEF Each, f

\* The steps of a plan are about what is copied: folders apart from the rest.
LEMMA PlanParts ==
  ASSUME TypeOK, NEW copies \in Selections, Plannable(copies), at = Start
  PROVE  /\ Plan(copies) \in Seq(StepType) /\ \A i \in 1 .. Len(Plan(copies)) : Plain(Plan(copies)[i])
         /\ FoldersApart(Plan(copies))
<1> DEFINE q1 == InOrder(Entities(copies))
           q2 == Entities(copies)
           q3 == OfKind({"ORDER"}, copies)
           q4 == InOrder(Folders(copies))
           ids == {c.id : c \in OwnersOf(copies) \cup OrdersOf(copies)}
           folders == {c.id : c \in FoldersOf(copies)}
           A == About(ids)
           B == AboutFolders(folders)
<1> HIDE DEF CopyType, StepType
<1>1. /\ q1 \in Seq(CopyType) /\ Range(q1) = OwnersOf(copies)
      /\ q2 \in Seq(CopyType) /\ Range(q2) = OwnersOf(copies)
      /\ q3 \in Seq(CopyType) /\ Range(q3) = OrdersOf(copies)
      /\ q4 \in Seq(CopyType) /\ Range(q4) = FoldersOf(copies)
  BY PlanLists
<1>2. /\ OwnersOf(copies) \subseteq CopyType /\ OrdersOf(copies) \subseteq CopyType
      /\ FoldersOf(copies) \subseteq CopyType
  BY KindsApart
<1>3. \A c \in CopyType : /\ CreateOf[c] = CreateSteps(c) /\ FinalOf[c] = FinalSteps(c)
                          /\ OrderOf[c] = OrderSteps(c) /\ FolderOf[c] = FolderSteps(c)
                          /\ MembershipOf[c] = MembershipSteps(c)
  BY DEF CreateOf, FinalOf, OrderOf, FolderOf, MembershipOf
<1>4. /\ \A c \in OwnersOf(copies) : CreateOf[c] \in Seq(A) /\ FinalOf[c] \in Seq(A)
                                     /\ MembershipOf[c] \in Seq(A)
      /\ \A c \in OrdersOf(copies) : OrderOf[c] \in Seq(A)
      /\ \A c \in FoldersOf(copies) : FolderOf[c] \in Seq(B)
  <2>1. ASSUME NEW c \in OwnersOf(copies)
        PROVE  CreateOf[c] \in Seq(A) /\ FinalOf[c] \in Seq(A) /\ MembershipOf[c] \in Seq(A)
    <3>1. c \in CopyType /\ c.id \in ids
      BY <1>2
    <3> HIDE DEF ids
    <3> QED BY <1>3, <3>1, CopyAbout
  <2>2. ASSUME NEW c \in OrdersOf(copies) PROVE OrderOf[c] \in Seq(A)
    <3>1. c \in CopyType /\ c.id \in ids
      BY <1>2
    <3> HIDE DEF ids
    <3> QED BY <1>3, <3>1, CopyAbout
  <2>3. ASSUME NEW c \in FoldersOf(copies) PROVE FolderOf[c] \in Seq(B)
    <3>1. c \in CopyType /\ c.id \in folders
      BY <1>2
    <3> HIDE DEF folders
    <3> QED BY <1>3, <3>1, CopyAbout
  <2> QED BY <2>1, <2>2, <2>3
<1> DEFINE s1 == EachOf(q1, CreateSteps)
           s2 == EachOf(q2, FinalSteps)
           s3 == EachOf(q3, OrderSteps)
           s4 == EachOf(q4, FolderSteps)
           s5 == EachOf(q2, MembershipSteps)
           C == A \cup B
<1>5. Plan(copies) = s1 \o s2 \o s3 \o s4 \o s5
  BY DEF Plan
<1>6. /\ s1 = Each(CreateOf, q1) /\ s2 = Each(FinalOf, q2) /\ s3 = Each(OrderOf, q3)
      /\ s4 = Each(FolderOf, q4) /\ s5 = Each(MembershipOf, q2)
  BY <1>1, EachOfIs
<1> HIDE DEF s1, s2, s3, s4, s5, q1, q2, q3, q4, A, B
<1>7. Each(CreateOf, q1) \in Seq(A) /\ Each(FinalOf, q2) \in Seq(A)
  BY <1>1, <1>4, EachKeeps
<1>8. Each(OrderOf, q3) \in Seq(A) /\ Each(MembershipOf, q2) \in Seq(A)
  BY <1>1, <1>4, EachKeeps
<1>9. Each(FolderOf, q4) \in Seq(B)
  BY <1>1, <1>4, EachKeeps
<1>10. Seq(A) \subseteq Seq(C) /\ Seq(B) \subseteq Seq(C)
  OBVIOUS
<1> HIDE DEF C
<1>11. s1 \o s2 \o s3 \o s4 \o s5 \in Seq(C)
  <2>1. s1 \in Seq(C) /\ s2 \in Seq(C) /\ s3 \in Seq(C) /\ s4 \in Seq(C) /\ s5 \in Seq(C)
    BY <1>6, <1>7, <1>8, <1>9, <1>10
  <2> QED BY <2>1
<1>12. \A i \in 1 .. Len(Plan(copies)) : Plan(copies)[i] \in C
  BY <1>5, <1>11
<1>13. \A s \in C : s \in StepType /\ Plain(s) /\ (s.op \in FolderOps <=> s \in B)
  BY DEF C, A, B, About, AboutFolders
<1>14. Plan(copies) \in Seq(StepType)
  <2>1. C \subseteq StepType
    BY <1>13
  <2> QED BY <1>5, <1>11, <2>1
<1>15. \A s \in B : s.id \in folders
  BY DEF B, AboutFolders
<1>16. \A s \in C : s \notin B => s.id \in ids
  BY DEF C, A, About
<1>17. ids \cap folders = {} /\ folders \subseteq Ids /\ folders \cap Orders = {}
  BY KindsApart
<1>18. FoldersApart(Plan(copies))
  <2> SUFFICES ASSUME NEW i \in 1 .. Len(Plan(copies)), Plan(copies)[i].op \in FolderOps
               PROVE  /\ at[Row(Plan(copies)[i].id, "ENTITY")] = 0
                      /\ \A k \in 1 .. Len(Plan(copies)) :
                           Plan(copies)[k].id = Plan(copies)[i].id => Plan(copies)[k].op \in FolderOps
    BY DEF FoldersApart
  <2>1. Plan(copies)[i].id \in folders
    BY <1>12, <1>13, <1>15
  <2> HIDE DEF ids, folders
  <2>2. at[Row(Plan(copies)[i].id, "ENTITY")] = 0
    BY <1>17, <2>1, StartIs
  <2>3. \A k \in 1 .. Len(Plan(copies)) :
          Plan(copies)[k].id = Plan(copies)[i].id => Plan(copies)[k].op \in FolderOps
    BY <1>12, <1>13, <1>16, <1>17, <2>1
  <2> QED BY <2>2, <2>3
<1> QED BY <1>12, <1>13, <1>14, <1>18

\* The plan runs, so it waits for nothing else.
LEMMA PlanWaiting ==
  ASSUME TypeOK, NEW copies \in Selections, Plannable(copies), at = Start, alien = {},
         \A c \in Range(copies) : ~ (c.kind = "NOTE" /\ c.into = NoId /\ c.text /\ c.icon)
  PROVE  Waiting(Plan(copies))
<1>1. PICK b : Runs(Plan(copies), Start, b)
  BY PlanRuns
<1>2. PICK g : Trace(Plan(copies), g) /\ g[0] = at
  BY <1>1 DEF Runs
<1>3. /\ Plan(copies) \in Seq(StepType) /\ \A i \in 1 .. Len(Plan(copies)) : Plain(Plan(copies)[i])
      /\ FoldersApart(Plan(copies))
  BY PlanParts
<1> QED BY <1>2, <1>3, TraceWaiting

-----------------------------------------------------------------------------
(* The invariant: what is left of the last journal is waiting, and what a
   tab is about to fork (DecisionInv).  It is prepared and forked. *)

\* What is left of the last journal waits for nothing that it has not reviewed, and
\* neither does what a tab is about to fork.
Rest(j, a) == SubSeq(Steps(j), a + 1, Len(Steps(j)))

\* A journal that nobody continues, with a steps taken and no more.
Open(j, a) == a <= Len(Steps(j)) /\ ~ Successor(j) /\ IsTaken(j, a) /\ TakenOnly(j, a)
RestOK(j, a) == Open(j, a) => Waiting(Rest(j, a))

\* A fork that is prepared is of steps that are waiting, if it still can be stored.
WaitOK(w) ==
  w.pc = "fork" /\ ~ Successor(w.journal) /\ w.steps # <<>> /\ w.reply > w.revision =>
    Waiting(w.steps)
DecisionInv ==
  /\ \A row \in alien : at[row] > 0
  /\ \A j \in DOMAIN journals, a \in Nat : RestOK(j, a)
  /\ \A t \in Tabs : WaitOK(tab[t])

\* The rest of a journal, step by step.
LEMMA RestParts ==
  ASSUME TypeOK, NEW j \in DOMAIN journals, NEW a \in Nat, a <= Len(Steps(j))
  PROVE  /\ Rest(j, a) \in Seq(StepType) /\ Len(Rest(j, a)) = Len(Steps(j)) - a
         /\ Len(Steps(j)) \in Nat /\ Steps(j) \in Seq(StepType)
         /\ \A i \in 1 .. Len(Rest(j, a)) : Rest(j, a)[i] = Steps(j)[a + i]
<1> HIDE DEF StepType
<1>1. PICK q, n : q = Steps(j) /\ n = Len(q)
  OBVIOUS
<1>2. q \in Seq(StepType) /\ n \in Nat /\ a <= n
  BY <1>1, JournalParts DEF Steps
<1>3. PICK r : r = SubSeq(q, a + 1, n)
  OBVIOUS
<1>4. r \in Seq(StepType) /\ Len(r) = n - a /\ \A i \in 1 .. Len(r) : r[i] = q[a + i]
  BY <1>1, <1>2, <1>3
<1>5. Rest(j, a) = r
  BY <1>1, <1>3 DEF Rest
<1> QED BY <1>1, <1>2, <1>4, <1>5

\* All of a list.
LEMMA WholeList == ASSUME NEW S, NEW q \in Seq(S) PROVE SubSeq(q, 0 + 1, Len(q)) = q
<1>1. PICK r : r = SubSeq(q, 0 + 1, Len(q))
  OBVIOUS
<1>2. r \in Seq(S) /\ Len(r) = Len(q) /\ \A i \in 1 .. Len(q) : r[i] = q[i]
  BY <1>1
<1>3. r = q
  BY <1>2
<1> QED BY <1>1, <1>3

\* What writes nothing, adds no journal and starts no fork keeps the invariant.
LEMMA DecisionQuiet ==
  ASSUME ImportInv, DecisionInv, UNCHANGED <<at, alien, log>>, DOMAIN journals' = DOMAIN journals,
         \A j \in DOMAIN journals : /\ journals'[j].steps = journals[j].steps
                                    /\ journals'[j].initial = journals[j].initial
                                    /\ journals'[j].parent = journals[j].parent,
         \A t \in Tabs : tab'[t].pc = "fork" =>
           tab'[t] = tab[t] \/ (tab'[t].steps # <<>> => Waiting(tab'[t].steps))
  PROVE  DecisionInv'
<1>1. \A j : Successor(j)' <=> Successor(j)
  BY DEF Successor
<1>2. ASSUME NEW j \in DOMAIN journals, NEW a \in Nat
      PROVE  RestOK(j, a)'
  <2>1. Steps(j)' = Steps(j) /\ Initial(j)' = Initial(j)
    BY DEF Steps, Initial
  <2>2. Open(j, a)' <=> Open(j, a)
    BY <1>1, <2>1 DEF Open, IsTaken, TakenOnly, HeadAfter
  <2>3. Rest(j, a)' = Rest(j, a)
    BY <2>1 DEF Rest
  <2>4. PICK q : q = Rest(j, a)
    OBVIOUS
  <2>5. ASSUME Open(j, a) PROVE Waiting(q)'
    <3>1. Waiting(q)
      BY <2>4, <2>5 DEF DecisionInv, RestOK
    <3> QED BY <3>1, SameWaiting
  <2> QED BY <2>2, <2>3, <2>4, <2>5 DEF RestOK
<1>3. ASSUME NEW t \in Tabs PROVE WaitOK(tab[t])'
  <2>1. PICK x : x = tab'[t]
    OBVIOUS
  <2>2. ASSUME x.pc = "fork", ~ Successor(x.journal), x.steps # <<>>, x.reply > x.revision
        PROVE  Waiting(x.steps)'
    <3>1. Waiting(x.steps)
      <4>1. CASE x = tab[t]
        <5>1. WaitOK(x)
          BY <4>1 DEF DecisionInv
        <5> QED BY <2>2, <5>1 DEF WaitOK
      <4>2. CASE x # tab[t]
        BY <2>1, <2>2, <4>2
      <4> QED BY <4>1, <4>2
    <3> QED BY <3>1, SameWaiting
  <2>3. WaitOK(x)'
    BY <1>1, <2>2 DEF WaitOK
  <2> QED BY <2>1, <2>3 DEF WaitOK
<1> QED BY <1>2, <1>3 DEF DecisionInv

\* A new journal is a plan that waits for nothing else ...
LEMMA PrepareDecision ==
  ASSUME NoLegacyIcons, ImportInv, BlankInv, NEW copies \in Selections, Prepare(copies)
  PROVE  DecisionInv'
<1>1. /\ journals = <<>> /\ Plannable(copies) /\ at = Start /\ alien = {} /\ log = <<>>
      /\ UNCHANGED <<at, alien, log, tab>> /\ TypeOK
  BY DEF Prepare, BlankInv, server, ghosts, ImportInv, JournalsOK
<1>2. DOMAIN journals' = {1} /\ journals'[1].steps = Plan(copies)
  BY DEF Prepare
<1>3. \A c \in Range(copies) : ~ (c.kind = "NOTE" /\ c.into = NoId /\ c.text /\ c.icon)
  BY DEF NoLegacyIcons
<1>4. PICK q : q = Plan(copies)
  OBVIOUS
<1>5. q \in Seq(StepType) /\ Waiting(q)
  BY <1>1, <1>3, <1>4, PlanParts, PlanWaiting
<1>6. ASSUME NEW a \in Nat PROVE RestOK(1, a)'
  <2> SUFFICES ASSUME Open(1, a)' PROVE Waiting(Rest(1, a))'
    BY DEF RestOK
  <2>1. DOMAIN log' = {}
    BY <1>1
  <2>2. a = 0
    BY <2>1 DEF Open, IsTaken
  <2>3. Steps(1)' = q
    BY <1>2, <1>4 DEF Steps
  <2>4. Rest(1, a)' = SubSeq(q, 0 + 1, Len(q))
    BY <2>2, <2>3 DEF Rest
  <2>5. Rest(1, a)' = q
    <3> HIDE DEF StepType
    <3> QED BY <1>5, <2>4, WholeList
  <2>6. Waiting(q)'
    BY <1>1, <1>5, SameWaiting
  <2> QED BY <2>5, <2>6
<1>7. \A t \in Tabs : tab'[t].pc = "idle"
  BY <1>1 DEF TypeOK, At
<1>8. \A t \in Tabs : WaitOK(tab[t])'
  BY <1>7 DEF WaitOK
<1> QED BY <1>1, <1>2, <1>6, <1>8 DEF DecisionInv

\* ... and a fork is what was reviewed.
LEMMA ForkDecision ==
  ASSUME ImportInv, DecisionInv, NEW t \in Tabs, Fork(t)
  PROVE  DecisionInv'
<1>1. PICK v : v = tab[t]
  OBVIOUS
<1>2. PICK n : n = Len(journals) + 1
  OBVIOUS
<1> DEFINE x == [steps |-> v.steps, accepted |-> 0, initial |-> v.reply,
                 revision |-> v.reply, parent |-> v.journal]
<1>3. /\ TypeOK /\ v.pc = "fork" /\ ~ Successor(v.journal) /\ v.steps # <<>> /\ v.reply > v.revision
      /\ v.journal \in DOMAIN journals /\ v.steps \in Seq(StepType) /\ v.reply \in Nat
  <2>1. v.pc = "fork" /\ ~ Successor(v.journal) /\ v.steps # <<>> /\ v.reply > v.revision
    BY <1>1 DEF Fork, At, Forkable
  <2>2. v.steps \in Seq(StepType) /\ v.reply \in Nat /\ TypeOK
    BY <1>1, WorkParts DEF ImportInv
  <2> QED BY <1>1, <2>1, <2>2, WorkParts2
<1>4. /\ journals' = Append(journals, x) /\ tab' = [tab EXCEPT ![t] = NoWork]
      /\ UNCHANGED <<at, alien, log>>
  BY <1>1 DEF Fork, server, ghosts
<1>5. x.steps = v.steps /\ x.initial = v.reply /\ x.parent = v.journal
  OBVIOUS
<1> HIDE DEF x
<1>6. /\ DOMAIN journals' = DOMAIN journals \cup {n} /\ n \notin DOMAIN journals /\ n \in Nat
      /\ \A k \in DOMAIN journals : journals'[k] = journals[k] /\ k \in Nat /\ k < n
      /\ journals'[n] = x
  <2>1. journals \in Seq(JournalType) /\ Len(journals) \in Nat /\ DOMAIN journals = 1 .. Len(journals)
    BY <1>3 DEF TypeOK
  <2> QED BY <1>2, <1>4, <2>1
<1>7. \A k \in DOMAIN journals : Successor(k)'
  <2> SUFFICES ASSUME NEW k \in DOMAIN journals PROVE \E i \in DOMAIN journals' : journals'[i].parent = k
    BY DEF Successor
  <2>1. CASE Successor(k)
    BY <1>6, <2>1 DEF Successor
  <2>2. CASE ~ Successor(k)
    <3>1. k = v.journal
      BY <1>3, <2>2, LastJournal
    <3> QED BY <1>5, <1>6, <3>1
  <2> QED BY <2>1, <2>2
<1>8. ASSUME NEW k \in DOMAIN journals', NEW a \in Nat PROVE RestOK(k, a)'
  <2> SUFFICES ASSUME Open(k, a)' PROVE Waiting(Rest(k, a))'
    BY DEF RestOK
  <2>1. k = n
    BY <1>6, <1>7 DEF Open
  <2>2. a = 0
    <3> SUFFICES ASSUME a # 0 PROVE FALSE
      OBVIOUS
    <3>1. PICK h \in DOMAIN log : log[h].journal = n
      BY <1>4, <2>1 DEF Open, IsTaken
    <3>2. log[h] # Other
      <4>1. n # 0
        <5>1. v.journal \in Nat /\ v.journal < n
          BY <1>3, <1>6
        <5> QED BY <1>6, <5>1
      <4> QED BY <3>1, <4>1 DEF Other
    <3>3. log[h].journal \in DOMAIN journals
      BY <3>2 DEF ImportInv, LogOK, WriteOK
    <3> QED BY <1>6, <3>1, <3>3
  <2>3. Steps(n)' = v.steps
    BY <1>5, <1>6 DEF Steps
  <2>4. Rest(k, a)' = SubSeq(v.steps, 0 + 1, Len(v.steps))
    BY <2>1, <2>2, <2>3 DEF Rest
  <2>5. PICK q \in Seq(StepType) : q = v.steps
    BY <1>3
  <2>6. Rest(k, a)' = q
    <3> HIDE DEF StepType
    <3> QED BY <2>4, <2>5, WholeList
  <2>7. Waiting(q)
    <3>1. WaitOK(v)
      BY <1>1 DEF DecisionInv
    <3> QED BY <1>3, <2>5, <3>1 DEF WaitOK
  <2>8. Waiting(q)'
    BY <1>4, <2>7, SameWaiting
  <2> QED BY <2>6, <2>8
<1>9. ASSUME NEW u \in Tabs PROVE WaitOK(tab[u])'
  <2>1. tab'[u] = IF u = t THEN NoWork ELSE tab[u]
    BY <1>3, <1>4 DEF TypeOK
  <2>2. CASE u = t
    BY <2>1, <2>2, NoWorkType DEF WaitOK
  <2>3. CASE u # t
    <3>1. PICK y : y = tab[u]
      OBVIOUS
    <3>2. y.pc = "fork" => y.journal \in DOMAIN journals
      BY <3>1, WorkParts2
    <3>3. WaitOK(y)'
      BY <1>7, <3>2 DEF WaitOK
    <3> QED BY <2>1, <2>3, <3>1, <3>3
  <2> QED BY <2>2, <2>3
<1> QED BY <1>4, <1>8, <1>9 DEF DecisionInv

-----------------------------------------------------------------------------
(* It is reviewed, and the destination takes its first step. *)

\* Prepared decisions: what is left is reviewed at the present head.
LEMMA PrepareForkDecision ==
  ASSUME ImportInv, DecisionInv, NEW t \in Tabs, PrepareFork(t)
  PROVE  DecisionInv'
<1>1. PICK chosen \in SUBSET Candidates(Pending(t)) :
        /\ Clean(Resolved(Pending(t), chosen))
        /\ tab' = [tab EXCEPT ![t] = [tab[t] EXCEPT !.pc = "fork",
                    !.steps = Resolved(Pending(t), chosen), !.reply = head]]
  BY DEF PrepareFork
<1>2. PICK v, j, a : v = tab[t] /\ j = v.journal /\ a = v.accepted
  OBVIOUS
<1>3. /\ TypeOK /\ v \in WorkType /\ v.pc = "inspect" /\ v.why = "rebase" /\ v.shown.head = head
      /\ j \in DOMAIN journals /\ a \in Nat /\ WorkOK(v)
  <2>1. v.pc = "inspect" /\ v.why = "rebase" /\ v.shown.head = head
    BY <1>2 DEF PrepareFork, At, AsReviewed
  <2>2. TypeOK
    BY DEF ImportInv
  <2> QED BY <1>2, <2>1, <2>2, WorkParts, WorkParts2
<1>4. /\ a <= Accepted(j) /\ Reached(j, a, v.revision) /\ (a = Len(Steps(j)) \/ TakenOnly(j, a))
  BY <1>2, <1>3 DEF WorkOK
<1>5. a <= Len(Steps(j)) /\ Len(Steps(j)) \in Nat
  <2>1. Accepted(j) <= Len(Steps(j)) /\ Accepted(j) \in Nat /\ Len(Steps(j)) \in Nat
    BY <1>3, JournalParts DEF TypeOK, Accepted, Steps
  <2> QED BY <1>3, <1>4, <2>1
<1>6. PICK p : p = Pending(t)
  OBVIOUS
<1>7. p = Rest(j, a) /\ p \in Seq(StepType) /\ Len(p) = Len(Steps(j)) - a
  <2>1. p = Rest(j, a)
    BY <1>2, <1>6 DEF Pending, NextOf, Rest, Steps
  <2> QED BY <1>3, <1>5, <2>1, RestParts
<1>8. PICK r : r = Resolved(p, chosen)
  OBVIOUS
<1>9. r \in Seq(StepType) /\ Len(r) = Len(p)
  BY <1>3, <1>7, <1>8, ResolvedType
<1>10. PICK x : x = [tab[t] EXCEPT !.pc = "fork", !.steps = r, !.reply = head]
  OBVIOUS
<1>11. /\ x.pc = "fork" /\ x.steps = r /\ x.reply = head /\ x.journal = j /\ x.revision = v.revision
  BY <1>2, <1>3, <1>10 DEF WorkType
<1>12. tab' = [tab EXCEPT ![t] = x]
  BY <1>1, <1>6, <1>8, <1>10
<1>13. UNCHANGED <<journals, at, alien, log>>
  BY DEF PrepareFork, server, ghosts
<1>14. ASSUME r # <<>>, ~ Successor(j) PROVE Waiting(r)
  <2>1. a # Len(Steps(j))
    <3>1. Len(r) # 0
      <4> HIDE DEF StepType
      <4> QED BY <1>9, <1>14
    <3> QED BY <1>3, <1>5, <1>7, <1>9, <3>1
  <2>2. Open(j, a)
    BY <1>4, <1>5, <1>14, <2>1 DEF Open, Reached
  <2>3. Waiting(p)
    BY <1>3, <1>7, <2>2 DEF DecisionInv, RestOK
  <2> QED BY <1>1, <1>3, <1>6, <1>7, <1>8, <1>9, <2>3, ResolvedWaiting
<1>15. \A u \in Tabs : tab'[u] = IF u = t THEN x ELSE tab[u]
  BY <1>3, <1>12 DEF TypeOK
<1>16. \A k : Successor(k)' <=> Successor(k)
  BY <1>13 DEF Successor
<1>17. ASSUME NEW k \in DOMAIN journals, NEW b \in Nat
       PROVE  RestOK(k, b)'
  <2>1. Open(k, b)' <=> Open(k, b)
    BY <1>13, <1>16 DEF Open, IsTaken, TakenOnly, HeadAfter, Steps, Initial
  <2>2. Rest(k, b)' = Rest(k, b)
    BY <1>13 DEF Rest, Steps
  <2>3. PICK q : q = Rest(k, b)
    OBVIOUS
  <2>4. ASSUME Open(k, b) PROVE Waiting(q)'
    <3>1. Waiting(q)
      BY <2>3, <2>4 DEF DecisionInv, RestOK
    <3> QED BY <1>13, <3>1, SameWaiting
  <2> QED BY <2>1, <2>2, <2>3, <2>4 DEF RestOK
<1>18. ASSUME NEW u \in Tabs PROVE WaitOK(tab[u])'
  <2>1. PICK y : y = tab'[u]
    OBVIOUS
  <2>2. ASSUME y.pc = "fork", ~ Successor(y.journal), y.steps # <<>>, y.reply > y.revision
        PROVE  Waiting(y.steps)'
    <3>1. Waiting(y.steps)
      <4>1. CASE u = t
        <5>1. y = x
          BY <1>15, <2>1, <4>1
        <5> QED BY <1>11, <1>14, <2>2, <5>1
      <4>2. CASE u # t
        <5>1. WaitOK(y)
          BY <1>15, <2>1, <4>2 DEF DecisionInv
        <5> QED BY <2>2, <5>1 DEF WaitOK
      <4> QED BY <4>1, <4>2
    <3> QED BY <1>13, <3>1, SameWaiting
  <2>3. WaitOK(y)'
    BY <1>16, <2>2 DEF WaitOK
  <2> QED BY <2>1, <2>3 DEF WaitOK
<1> QED BY <1>13, <1>17, <1>18 DEF DecisionInv

\* What the destination accepts is the first of what is left, by what has been reviewed.
LEMMA AcceptOpen ==
  ASSUME ImportInv, NEW m \in wire, Accept(m), NEW j, NEW a, j = m.journal, a = m.step - 1
  PROVE  /\ j \in DOMAIN journals /\ a \in Nat /\ Open(j, a) /\ Steps(j)[m.step] \in StepType
         /\ a + 1 = m.step /\ a + 1 <= Len(Steps(j)) /\ Rest(j, a) # <<>>
         /\ Rest(j, a)[1] = Steps(j)[m.step] /\ Fits(Steps(j)[m.step])
         /\ Initial(j) \in Nat /\ head = HeadAfter(j, a) /\ head \in Nat /\ head = Len(log)
<1>1. /\ TypeOK /\ m.guard = head /\ Fits(Steps(j)[m.step]) /\ j \in DOMAIN journals
      /\ m.step \in DOMAIN Steps(j) /\ head = Len(log) /\ head \in Nat
  BY DEF ImportInv, LogOK, TypeOK, Accept, Acceptable, Steps
<1>2. /\ Steps(j) \in Seq(StepType) /\ Len(Steps(j)) \in Nat
      /\ DOMAIN Steps(j) = 1 .. Len(Steps(j)) /\ Initial(j) \in Nat
  BY <1>1, JournalParts DEF Steps, Initial
<1> HIDE DEF StepType
<1>3. a \in Nat /\ a + 1 = m.step /\ a + 1 <= Len(Steps(j)) /\ a <= Len(Steps(j))
  BY <1>1, <1>2
<1>4. Reached(j, a, head)
  BY <1>1 DEF ImportInv, WireOK
<1>5. ~ Successor(j)
  <2> SUFFICES ASSUME NEW k \in DOMAIN journals, journals[k].parent = j PROVE FALSE
    BY DEF Successor
  <2>1. ~ (j < k)
    BY <1>1, <1>3, <1>4, ReachedHeadLast
  <2>2. journals[k].parent = k - 1 /\ k \in Nat
    BY <1>1, JournalParts DEF ImportInv, JournalsOK
  <2> QED BY <2>1, <2>2
<1>6. head = HeadAfter(j, a) /\ IsTaken(j, a)
  BY <1>4 DEF Reached
<1>7. TakenOnly(j, a)
  BY <1>1, <1>6, LogParts DEF TakenOnly
<1>8. Rest(j, a) \in Seq(StepType) /\ Len(Rest(j, a)) = Len(Steps(j)) - a
      /\ \A i \in 1 .. Len(Rest(j, a)) : Rest(j, a)[i] = Steps(j)[a + i]
  BY <1>1, <1>3, RestParts
<1>9. 1 \in 1 .. Len(Rest(j, a)) /\ Rest(j, a) # <<>>
  <2>1. Len(Rest(j, a)) \in Nat /\ Len(Rest(j, a)) # 0
    BY <1>2, <1>3, <1>8
  <2> QED BY <1>8, <2>1
<1>10. Rest(j, a)[1] = Steps(j)[m.step]
  BY <1>3, <1>8, <1>9
<1> QED BY <1>1, <1>2, <1>3, <1>5, <1>6, <1>7, <1>9, <1>10 DEF Open

\* So nothing undecided is overwritten, and what is left waits on.
LEMMA AcceptDecided ==
  ASSUME ImportInv, DecisionInv, NEW m \in wire, Accept(m)
  PROVE  LET s == journals[m.journal].steps[m.step] IN
         \A e \in Range(Expects(s)) : e.row \in alien => s.op = "SAVE" /\ s.seen = s.v
<1>1. PICK j, a, s : j = m.journal /\ a = m.step - 1 /\ s = Steps(j)[m.step]
  OBVIOUS
<1>2. /\ j \in DOMAIN journals /\ a \in Nat /\ Open(j, a) /\ s \in StepType /\ Rest(j, a) # <<>>
      /\ Rest(j, a)[1] = s /\ Fits(s) /\ a <= Len(Steps(j))
  BY <1>1, AcceptOpen DEF Open
<1>3. PICK q : q = Rest(j, a)
  OBVIOUS
<1>4. q \in Seq(StepType) /\ q # <<>> /\ q[1] = s /\ Waiting(q) /\ TypeOK
  BY <1>2, <1>3, RestParts DEF DecisionInv, RestOK, ImportInv
<1> HIDE DEF StepType
<1>5. 1 \in 1 .. Len(q)
  BY <1>4
<1> SUFFICES ASSUME NEW e \in Range(Expects(s)), e.row \in alien PROVE Decided(s)
  BY <1>1 DEF Steps, Decided
<1>6. First(q, 1, e)
  BY <1>4 DEF First, Between
<1>7. Held(s, e)
  BY <1>4, <1>5, <1>6 DEF Waiting, Behind
<1>8. Plain(s) /\ Finds(s, at)
  BY <1>2, <1>4, <1>5, FitsFinds DEF Waiting
<1>9. ~ OfFolder(s, e.row)
  <2> SUFFICES ASSUME OfFolder(s, e.row) PROVE FALSE
    OBVIOUS
  <2>1. at[e.row] = 0
    BY <1>4, <1>5 DEF OfFolder, Waiting, FoldersApart
  <2>2. at[e.row] > 0
    BY DEF DecisionInv
  <2> QED BY <2>1, <2>2
<1>10. at[e.row] = e.v
  BY <1>2, <1>8, <1>9, FindsEntries
<1>11. e.v \in Nat
  BY <1>2, Entries
<1> QED BY <1>7, <1>10, <1>11 DEF Held

LEMMA AcceptDecision ==
  ASSUME ImportInv, DecisionInv, NEW m \in wire, Accept(m)
  PROVE  DecisionInv'
<1>1. PICK j, a, b, s : j = m.journal /\ a = m.step - 1 /\ b = m.step /\ s = Steps(j)[m.step]
  OBVIOUS
<1>2. /\ j \in DOMAIN journals /\ a \in Nat /\ Open(j, a) /\ s \in StepType /\ Rest(j, a) # <<>>
      /\ Rest(j, a)[1] = s /\ Fits(s) /\ a <= Len(Steps(j)) /\ b = a + 1 /\ b <= Len(Steps(j))
      /\ Initial(j) \in Nat /\ head = HeadAfter(j, a) /\ head \in Nat /\ head = Len(log)
  BY <1>1, AcceptOpen DEF Open
<1> DEFINE w == [journal |-> m.journal, step |-> m.step]
<1>3. /\ TypeOK /\ log' = Append(log, w) /\ UNCHANGED journals
      /\ at' = [at EXCEPT ![Written(s)] = @ + 1] /\ alien' = alien \ {Written(s)}
      /\ Answered(m, head + 1) /\ m.tab \in Tabs
  BY <1>1 DEF Accept, Steps, ImportInv, TypeOK
<1>4. w \in [journal : Nat, step : Nat] /\ w.journal = j
  BY <1>1 DEF ImportInv, TypeOK
<1> HIDE DEF w
<1>5. /\ DOMAIN log = 1 .. head /\ DOMAIN log' = 1 .. head + 1 /\ log'[head + 1].journal = j
  BY <1>2, <1>3, <1>4, LogParts, LogGrows
<1>6. PICK q, r : q = Rest(j, a) /\ r = Rest(j, b)
  OBVIOUS
<1>7. /\ q \in Seq(StepType) /\ q # <<>> /\ q[1] = s /\ Waiting(q)
      /\ r \in Seq(StepType) /\ Len(r) + 1 = Len(q) /\ \A i \in 1 .. Len(r) : r[i] = q[i + 1]
  <2>0. q # <<>> /\ q[1] = s
    BY <1>2, <1>6
  <2>1. /\ q \in Seq(StepType) /\ Len(q) = Len(Steps(j)) - a /\ Len(Steps(j)) \in Nat
        /\ \A i \in 1 .. Len(q) : q[i] = Steps(j)[a + i]
    BY <1>2, <1>3, <1>6, RestParts
  <2>2. /\ r \in Seq(StepType) /\ Len(r) = Len(Steps(j)) - b
        /\ \A i \in 1 .. Len(r) : r[i] = Steps(j)[b + i]
    BY <1>2, <1>3, <1>6, RestParts
  <2>3. Waiting(q)
    BY <1>2, <1>6 DEF DecisionInv, RestOK
  <2>4. Len(r) + 1 = Len(q)
    BY <1>2, <2>1, <2>2
  <2>5. \A i \in 1 .. Len(r) : i + 1 \in 1 .. Len(q) /\ a + (i + 1) = b + i
    BY <1>2, <2>1, <2>2
  <2> HIDE DEF StepType
  <2> QED BY <2>0, <2>1, <2>2, <2>3, <2>4, <2>5
<1>8. Waiting(r)'
  <2>1. \A row \in alien : at[row] > 0
    BY DEF DecisionInv
  <2> QED BY <1>2, <1>3, <1>7, <2>1, TakenWaiting
<1>9. ASSUME NEW k \in DOMAIN journals, ~ Successor(k)' PROVE k = j /\ ~ Successor(k)
  <2>1. ~ Successor(k)
    BY <1>3, <1>9 DEF Successor
  <2>2. ~ Successor(j)
    BY <1>2 DEF Open
  <2>3. j = Len(journals) /\ k = Len(journals)
    BY <1>2, <2>1, <2>2, LastJournal
  <2> QED BY <2>1, <2>3
<1>10. ASSUME NEW k \in DOMAIN journals, NEW c \in Nat
       PROVE  RestOK(k, c)'
  <2> SUFFICES ASSUME Open(k, c)' PROVE Waiting(Rest(k, c))'
    BY DEF RestOK
  <2>1. k = j /\ Initial(j)' = Initial(j)
    BY <1>3, <1>9 DEF Open, Initial
  <2>2. HeadAfter(j, c)' = Initial(j) + c
    BY <2>1 DEF HeadAfter
  <2>3. head + 1 <= Initial(j) + c
    <3>1. head + 1 \in DOMAIN log'
      BY <1>2, <1>5
    <3> QED BY <1>5, <2>1, <2>2, <3>1 DEF Open, TakenOnly
  <2>4. head = Initial(j) + a
    BY <1>2 DEF HeadAfter
  <2>5. c # 0
    BY <1>2, <2>3, <2>4
  <2>6. Initial(j) + c \in 1 .. head + 1
    BY <1>5, <2>1, <2>2, <2>5 DEF Open, IsTaken
  <2>7. c = b
    BY <1>2, <2>3, <2>4, <2>6
  <2>8. Rest(k, c)' = r
    BY <1>3, <1>6, <2>1, <2>7 DEF Rest, Steps
  <2> QED BY <1>8, <2>8
<1>11. ASSUME NEW u \in Tabs PROVE WaitOK(tab[u])'
  <2>1. PICK x : x = tab'[u]
    OBVIOUS
  <2>2. ASSUME x.pc = "fork", ~ Successor(x.journal)', x.steps # <<>>, x.reply > x.revision
        PROVE  FALSE
    <3>1. x = tab[u]
      <4>1. Waits(m) /\ u = m.tab => x.pc # "fork"
        <5> SUFFICES ASSUME Waits(m), u = m.tab PROVE x.pc = "answered"
          OBVIOUS
        <5>1. tab' = [tab EXCEPT ![u] = [tab[u] EXCEPT !.pc = "answered", !.reply = head + 1]]
          <6>1. Answered(m, head + 1) /\ head + 1 # 0
            BY <1>2, <1>3
          <6> QED BY ONLY <6>1, Waits(m), u = m.tab DEF Answered
        <5>2. tab'[u] = [tab[u] EXCEPT !.pc = "answered", !.reply = head + 1] /\ tab[u] \in WorkType
          BY <1>3, <5>1 DEF TypeOK
        <5> QED BY <2>1, <5>2 DEF WorkType
      <4>2. ~ Waits(m) \/ u # m.tab => tab'[u] = tab[u]
        BY <1>3 DEF Answered, TypeOK
      <4> QED BY <2>1, <2>2, <4>1, <4>2
    <3>2. x \in WorkType /\ x.journal \in DOMAIN journals /\ WorkOK(x)
      BY <1>3, <2>2, <3>1, WorkParts, WorkParts2
    <3>3. x.reply \in Nat /\ x.revision \in Nat /\ x.accepted \in Nat
      BY <3>2 DEF WorkType
    <3>4. x.journal = j
      BY <1>9, <2>2, <3>2
    <3>5. x.reply <= head /\ Reached(j, x.accepted, x.revision)
      BY <2>2, <3>2, <3>4 DEF WorkOK
    <3>6. WorkOK(x)'
      <4>1. ImportInv'
        BY AcceptInv
      <4> QED BY <2>1, <4>1 DEF ImportInv, TabOK
    <3>7. TakenOnly(j, x.accepted)'
      BY <2>2, <3>4, <3>6 DEF WorkOK
    <3>8. head + 1 \in DOMAIN log'
      BY <1>2, <1>5
    <3>9. HeadAfter(j, x.accepted)' = HeadAfter(j, x.accepted)
      BY <1>3 DEF HeadAfter, Initial
    <3>10. head + 1 <= HeadAfter(j, x.accepted)
      BY <1>5, <3>7, <3>8, <3>9 DEF TakenOnly
    <3>11. x.revision = HeadAfter(j, x.accepted)
      BY <3>5 DEF Reached
    <3> QED BY <1>2, <2>2, <3>3, <3>5, <3>10, <3>11
  <2>3. WaitOK(x)'
    BY <2>2 DEF WaitOK
  <2> QED BY <2>1, <2>3 DEF WaitOK
<1>12. \A row \in alien' : at'[row] > 0
  <2> SUFFICES ASSUME NEW row \in alien, row # Written(s) PROVE at'[row] > 0
    BY <1>3
  <2>1. at[row] > 0
    BY DEF DecisionInv
  <2>2. at'[row] = at[row]
    BY <1>3 DEF TypeOK
  <2> QED BY <2>1, <2>2
<1> QED BY <1>3, <1>10, <1>11, <1>12 DEF DecisionInv

-----------------------------------------------------------------------------
(* Somebody else writes; all the steps together. *)

\* What a write of somebody else does to the rows.
Elsewhere(row) ==
  row \in Rows /\ at[row] > 0 /\ at' = [at EXCEPT ![row] = @ + 1] /\ alien' = alien \cup {row}

\* A write of somebody else makes the steps that go by its row fall behind.
LEMMA OtherDecision ==
  ASSUME ImportInv, DecisionInv, OtherWrite, UNCHANGED <<at, alien>> \/ \E row : Elsewhere(row)
  PROVE  DecisionInv'
<1>1. /\ TypeOK /\ log' = Append(log, Other) /\ UNCHANGED <<journals, tab>>
      /\ Other \in [journal : Nat, step : Nat] /\ Other.journal = 0
  BY DEF ImportInv, OtherWrite, Other
<1>2. ASSUME NEW q \in Seq(StepType), Waiting(q)
      PROVE  Waiting(q)'
  <2>1. CASE UNCHANGED <<at, alien>>
    BY <1>2, <2>1, SameWaiting
  <2>2. CASE \E row : Elsewhere(row)
    <3>1. PICK row : Elsewhere(row)
      BY <2>2
    <3>2. /\ row \in Rows /\ at[row] > 0 /\ at' = [at EXCEPT ![row] = @ + 1]
          /\ alien' = alien \cup {row}
      BY <3>1 DEF Elsewhere
    <3> QED BY <1>1, <1>2, <3>2, OtherWaiting
  <2> QED BY <2>1, <2>2
<1>3. \A row \in alien' : at'[row] > 0
  <2>1. CASE UNCHANGED <<at, alien>>
    BY <2>1 DEF DecisionInv
  <2>2. CASE \E row : Elsewhere(row)
    <3>1. PICK row : Elsewhere(row)
      BY <2>2
    <3>2. \A x \in Rows : at[x] \in Nat
      BY <1>1 DEF TypeOK, Rows
    <3>3. ASSUME NEW x \in alien \cup {row} PROVE at'[x] > 0
      <4>1. x \in Rows /\ at[x] > 0
        BY <1>1, <3>1 DEF Elsewhere, DecisionInv, TypeOK, Rows
      <4>2. at'[x] = IF x = row THEN at[row] + 1 ELSE at[x]
        BY <1>1, <3>1, <4>1 DEF Elsewhere, TypeOK, Rows
      <4> QED BY <3>1, <3>2, <4>1, <4>2 DEF Elsewhere
    <3> QED BY <3>1, <3>3 DEF Elsewhere
  <2> QED BY <2>1, <2>2
<1>4. /\ DOMAIN log = 1 .. Len(log) /\ DOMAIN log' = 1 .. Len(log) + 1 /\ Len(log) \in Nat
      /\ \A h \in DOMAIN log : log'[h] = log[h] /\ h \in DOMAIN log'
      /\ \A h \in DOMAIN log' : h \notin DOMAIN log => log'[h] = Other
  BY <1>1, LogParts, LogGrows
<1>5. ASSUME NEW k \in DOMAIN journals, NEW b \in Nat
      PROVE  RestOK(k, b)'
  <2> SUFFICES ASSUME Open(k, b)' PROVE Waiting(Rest(k, b))'
    BY DEF RestOK
  <2>1. /\ HeadAfter(k, b)' = HeadAfter(k, b) /\ Steps(k)' = Steps(k) /\ k # 0
        /\ Rest(k, b)' = Rest(k, b)
    BY <1>1, JournalParts DEF HeadAfter, Initial, Steps, Rest
  <2>2. b <= Len(Steps(k)) /\ ~ Successor(k)
    BY <1>1, <2>1 DEF Open, Successor
  <2>3. IsTaken(k, b)
    BY <1>1, <1>4, <2>1 DEF Open, IsTaken
  <2>4. TakenOnly(k, b)
    BY <1>4, <2>1 DEF Open, TakenOnly
  <2>5. PICK q : q = Rest(k, b)
    OBVIOUS
  <2>6. q \in Seq(StepType) /\ Waiting(q)
    BY <1>1, <2>2, <2>3, <2>4, <2>5, RestParts DEF Open, DecisionInv, RestOK
  <2>7. Waiting(q)'
    BY <1>2, <2>6
  <2> QED BY <2>1, <2>5, <2>7
<1>6. ASSUME NEW t \in Tabs PROVE WaitOK(tab[t])'
  <2>1. PICK x : x = tab[t]
    OBVIOUS
  <2>2. x.steps \in Seq(StepType) /\ WaitOK(x)
    BY <1>1, <2>1, WorkParts DEF DecisionInv
  <2>3. Waiting(x.steps) => Waiting(x.steps)'
    BY <1>2, <2>2
  <2>4. Successor(x.journal)' <=> Successor(x.journal)
    BY <1>1 DEF Successor
  <2>5. WaitOK(x)'
    BY <2>2, <2>3, <2>4 DEF WaitOK
  <2> QED BY <1>1, <2>1, <2>5
<1> QED BY <1>1, <1>3, <1>5, <1>6 DEF DecisionInv

LEMMA OthersDecision ==
  ASSUME ImportInv, DecisionInv, Others
  PROVE  DecisionInv'
<1>1. ASSUME NEW row \in Ids \X Parts, OtherEdit(row)
      PROVE  DecisionInv'
  <2>1. Elsewhere(row) /\ OtherWrite
    BY <1>1 DEF OtherEdit, Elsewhere, Rows
  <2> QED BY <2>1, OtherDecision
<1>2. ASSUME NEW id \in Ids, OtherDelete(id)
      PROVE  DecisionInv'
  <2>1. Row(id, "ENTITY") \in Rows
    BY RowParts DEF Parts
  <2>2. Elsewhere(Row(id, "ENTITY")) /\ OtherWrite
    BY <1>2, <2>1 DEF OtherDelete, Elsewhere, Present
  <2> QED BY <2>2, OtherDecision
<1>3. ASSUME OtherElsewhere
      PROVE  DecisionInv'
  <2>1. UNCHANGED <<at, alien>> /\ OtherWrite
    BY <1>3 DEF OtherElsewhere
  <2> QED BY <2>1, OtherDecision
<1> QED BY <1>1, <1>2, <1>3 DEF Others

\* Steps that store nothing, and start no fork.
LEMMA QuietDecision ==
  ASSUME ImportInv, DecisionInv, UNCHANGED <<at, alien, log, journals>>,
         \A t \in Tabs : tab'[t].pc = "fork" => tab'[t] = tab[t]
  PROVE  DecisionInv'
<1>1. \A t \in Tabs : tab'[t].pc = "fork" =>
           tab'[t] = tab[t] \/ (tab'[t].steps # <<>> => Waiting(tab'[t].steps))
  OBVIOUS
<1> QED BY <1>1, DecisionQuiet

\* The steps of a tab, and all the steps.
LEMMA TabDecision ==
  ASSUME ImportInv, DecisionInv, NEW t \in Tabs, TabStep(t)
  PROVE  DecisionInv'
<1>1. TypeOK /\ tab[t] \in WorkType /\ tab \in [Tabs -> WorkType]
  BY DEF ImportInv, TypeOK
<1>2. ASSUME NEW w, w.pc # "fork", tab' = [tab EXCEPT ![t] = w],
             UNCHANGED <<journals, server, ghosts>>
      PROVE  DecisionInv'
  <2>1. \A u \in Tabs : tab'[u] = IF u = t THEN w ELSE tab[u]
    BY <1>1, <1>2
  <2>2. \A u \in Tabs : tab'[u].pc = "fork" => tab'[u] = tab[u]
    BY <1>2, <2>1
  <2> QED BY <1>2, <2>2, QuietDecision DEF server, ghosts
<1>3. ASSUME NEW j \in DOMAIN journals, Continue(t, j) \/ Review(t, j)
      PROVE  DecisionInv'
  <2>1. PICK why, review : Begin(t, j, why, review)
    BY <1>3 DEF Continue, Review
  <2>2. PICK w : w = [NoWork EXCEPT !.pc = "loop", !.why = why, !.journal = j, !.shown = review,
                      !.accepted = journals[j].accepted, !.revision = journals[j].revision]
    OBVIOUS
  <2>3. w.pc = "loop"
    BY <2>2 DEF NoWork
  <2> QED BY <1>2, <2>1, <2>2, <2>3 DEF Begin
<1>4. CASE Rebase(t)
  <2>1. PICK w : w = [NoWork EXCEPT !.pc = "loop", !.why = "rebase", !.journal = tab[t].journal,
                      !.shown = tab[t].shown, !.accepted = journals[tab[t].journal].accepted,
                      !.revision = journals[tab[t].journal].revision]
    OBVIOUS
  <2>2. w.pc = "loop"
    BY <2>1 DEF NoWork
  <2> QED BY <1>2, <1>4, <2>1, <2>2 DEF Rebase, Begin
<1>5. CASE Send(t) \/ NoReceipt(t)
  <2>1. PICK pc : pc \in {"wait", "inspect"} /\ Goto(t, pc) /\ UNCHANGED <<journals, server, ghosts>>
    BY <1>5 DEF Send, NoReceipt
  <2>2. PICK w : w = [tab[t] EXCEPT !.pc = pc]
    OBVIOUS
  <2>3. w.pc = pc /\ tab' = [tab EXCEPT ![t] = w]
    BY <1>1, <2>1, <2>2 DEF Goto, WorkType
  <2> QED BY <1>2, <2>1, <2>3
<1>6. CASE Lookup(t)
  <2>1. PICK r : tab' = [tab EXCEPT ![t] = [tab[t] EXCEPT !.pc = "answered", !.reply = r.head]]
    BY <1>6 DEF Lookup
  <2>2. PICK w : w = [tab[t] EXCEPT !.pc = "answered", !.reply = r.head]
    OBVIOUS
  <2>3. w.pc = "answered"
    BY <1>1, <2>2 DEF WorkType
  <2> QED BY <1>2, <1>6, <2>1, <2>2, <2>3 DEF Lookup
<1>7. CASE ShowReview(t)
  <2>1. PICK w : w = [NoWork EXCEPT !.pc = "shown", !.journal = tab[t].journal,
                        !.shown = [accepted |-> tab[t].accepted, head |-> head]]
    OBVIOUS
  <2>2. w.pc = "shown"
    BY <2>1 DEF NoWork
  <2> QED BY <1>2, <1>7, <2>1, <2>2 DEF ShowReview
<1>8. CASE Finished(t) \/ Stop(t)
  <2>1. tab' = [tab EXCEPT ![t] = NoWork] /\ UNCHANGED <<journals, server, ghosts>>
    BY <1>8 DEF Finished, Stop
  <2>2. NoWork.pc # "fork"
    BY NoWorkType
  <2> QED BY <1>2, <2>1, <2>2
<1>9. CASE Advance(t)
  <2>1. PICK j, x, w : /\ j = tab[t].journal
                       /\ x = [journals[j] EXCEPT !.accepted = NextOf(t), !.revision = tab[t].reply]
                       /\ w = [tab[t] EXCEPT !.pc = "loop", !.accepted = NextOf(t),
                                             !.revision = tab[t].reply, !.reply = 0]
    OBVIOUS
  <2>2. /\ journals' = [journals EXCEPT ![j] = x] /\ tab' = [tab EXCEPT ![t] = w]
        /\ UNCHANGED <<at, alien, log>>
    BY <1>9, <2>1 DEF Advance, server, ghosts
  <2>3. j \in DOMAIN journals
    BY <1>9, <2>1, WorkParts2 DEF Advance, At
  <2>4. journals[j] \in JournalType
    BY <1>1, <2>3, JournalParts
  <2>5. /\ x.steps = journals[j].steps /\ x.initial = journals[j].initial
        /\ x.parent = journals[j].parent
    BY <2>1, <2>4 DEF JournalType
  <2>6. w.pc = "loop"
    BY <1>1, <2>1 DEF WorkType
  <2>7. \A u \in Tabs : tab'[u].pc = "fork" => tab'[u] = tab[u]
    BY <1>1, <2>2, <2>6
  <2>8. /\ DOMAIN journals' = DOMAIN journals
        /\ \A k \in DOMAIN journals : journals'[k] = IF k = j THEN x ELSE journals[k]
    BY <2>2, <2>3
  <2>9. \A k \in DOMAIN journals : /\ journals'[k].steps = journals[k].steps
                                   /\ journals'[k].initial = journals[k].initial
                                   /\ journals'[k].parent = journals[k].parent
    BY <2>5, <2>8
  <2> QED BY <2>2, <2>7, <2>8, <2>9, DecisionQuiet
<1> QED BY <1>3, <1>4, <1>5, <1>6, <1>7, <1>8, <1>9, PrepareForkDecision, ForkDecision DEF TabStep

LEMMA NextDecision ==
  ASSUME NoLegacyIcons, ImportInv, BlankInv, DecisionInv, [Next]_vars
  PROVE  DecisionInv'
<1>1. ASSUME NEW m \in wire, Replay(m) \/ RefuseRequest(m)
      PROVE  DecisionInv'
  <2>1. PICK reply : Answered(m, reply)
    BY <1>1 DEF Replay, RefuseRequest
  <2>2. UNCHANGED <<at, alien, log, journals>>
    BY <1>1 DEF Replay, RefuseRequest, server, ghosts
  <2>3. \A u \in Tabs : tab'[u].pc = "fork" => tab'[u] = tab[u]
    <3>1. tab \in [Tabs -> WorkType] /\ m.tab \in Tabs
      BY DEF ImportInv, TypeOK
    <3>2. CASE ~ Waits(m)
      BY <2>1, <3>1, <3>2 DEF Answered
    <3>3. CASE Waits(m) /\ reply = 0
      <4>1. tab' = [tab EXCEPT ![m.tab] = NoWork]
        BY <2>1, <3>3 DEF Answered
      <4> QED BY <3>1, <4>1, NoWorkType
    <3>4. CASE Waits(m) /\ reply # 0
      <4>1. PICK w : w = [tab[m.tab] EXCEPT !.pc = "answered", !.reply = reply]
        OBVIOUS
      <4>2. tab' = [tab EXCEPT ![m.tab] = w]
        BY <2>1, <3>4, <4>1 DEF Answered
      <4>3. w.pc = "answered"
        BY <3>1, <4>1 DEF WorkType
      <4> QED BY <3>1, <4>2, <4>3
    <3> QED BY <3>2, <3>3, <3>4
  <2> QED BY <2>2, <2>3, QuietDecision
<1>2. ASSUME UNCHANGED vars PROVE DecisionInv'
  BY <1>2, QuietDecision DEF vars, server, ghosts
<1> QED BY <1>1, <1>2, PrepareDecision, TabDecision, AcceptDecision, OthersDecision DEF Next

\* At the start there is nothing that could wait.
LEMMA InitDecision ==
  ASSUME Init
  PROVE  DecisionInv
<1>1. journals = <<>> /\ alien = {} /\ tab = [t \in Tabs |-> NoWork]
  BY DEF Init
<1>2. \A t \in Tabs : tab[t].pc = "idle"
  BY <1>1, NoWorkType
<1> QED BY <1>1, <1>2 DEF DecisionInv, WaitOK

\* Whatever is sent again, recovered, reviewed or forked, and whoever else writes: a step
\* overwrites what somebody else wrote only where the person has decided about just that
\* version.
THEOREM OverwritesDecided == ASSUME NoLegacyIcons PROVE Spec => DecidedOverwrites
<1>1. Init => ImportInv /\ FitInv /\ BlankInv /\ DecisionInv
  BY InitInv, InitFit, InitDecision
<1>2. (ImportInv /\ FitInv /\ BlankInv /\ DecisionInv) /\ [Next]_vars =>
        (ImportInv /\ FitInv /\ BlankInv /\ DecisionInv)'
  BY NextInv, NextFit, NextDecision
<1> DEFINE A == \A m \in wire : Accept(m) =>
                  LET s == journals[m.journal].steps[m.step] IN
                  \A e \in Range(Expects(s)) : e.row \in alien => s.op = "SAVE" /\ s.seen = s.v
<1>3. ImportInv /\ DecisionInv => A
  BY AcceptDecided
<1>4. ImportInv /\ DecisionInv => [A]_vars
  BY <1>3
<1>5. DecidedOverwrites <=> [][A]_vars
  BY DEF DecidedOverwrites
<1> HIDE DEF A
<1> QED BY <1>1, <1>2, <1>4, <1>5, PTL DEF Spec

=============================================================================
