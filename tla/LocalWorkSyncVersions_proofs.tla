-------------------- MODULE LocalWorkSyncVersions_proofs --------------------
(***************************************************************************)
(* The versions of LocalWorkSync, for any rows, edits, tabs and bounds: an *)
(* edit is applied at most once and only over the row its author had       *)
(* edited, the cursor and the bases never pass what the installation has   *)
(* taken over, the newest edit is shown, and all of it keeps EditLedger.   *)
(*                                                                         *)
(* The argument.  A command that was ever sent is the first of the pending *)
(* commands of each of its rows (LeadsItsRows), because a plan holds every *)
(* earlier one or has its rows blocked (TurnsOK).  So what it was built on *)
(* is a row the server held, or one the server has left behind (Safe), and *)
(* a command that is replaced or in conflict starts from a version that    *)
(* the server has left for good (Outdated).                                *)
(***************************************************************************)
EXTENDS LocalWorkSync_proofs

Order(c) == command[c].order
BuiltOn(c, e) == command[c].base[e]

-----------------------------------------------------------------------------
(* The invariant. *)

\* The change log is the history of the canonical rows.
LogOK ==
  /\ \A k \in DOMAIN changes :
       /\ 0 < changes[k].ver /\ changes[k].ver <= server[changes[k].e].ver
       /\ \A j \in DOMAIN changes :
            j < k /\ changes[j].e = changes[k].e => changes[j].ver < changes[k].ver
  /\ \A e \in Entities : server[e].ver > 0 => Held(e, server[e])
  /\ \A e \in Existing : server[e].ver > 0

\* A command is applied exactly with its receipt, after it was sent, on all of
\* its rows and on nothing else.
AppliedOK ==
  /\ Applied = receipts /\ receipts \subseteq sent
  /\ \A k \in DOMAIN changes : changes[k].by # Remote =>
       /\ changes[k].e \in Rows(changes[k].by)
       /\ changes[k].ver = BuiltOn(changes[k].by, changes[k].e).ver + 1
  /\ \A c \in receipts : \A e \in Rows(c) :
       \E k \in DOMAIN changes : changes[k].e = e /\ changes[k].by = c

\* The server held what c was built on, or has left it behind.
Safe(c, e) ==
  \/ BuiltOn(c, e).ver = 0
  \/ Held(e, BuiltOn(c, e))
  \/ server[e].ver > BuiltOn(c, e).ver

\* The server refuses c for good.
Outdated(c) == \E e \in Rows(c) : server[e].ver > BuiltOn(c, e).ver

SentOK ==
  /\ \A c \in sent : Order(c) > 0 /\ outbox[c] # "PENDING" /\ \A e \in Rows(c) : Safe(c, e)
  /\ \A c \in Commands : outbox[c] \in {"SENDING", "CONFLICT"} => c \in sent

\* A command that was sent waits for no other one on its rows.
Leads(c) == \A e \in Rows(c) : \A d \in Pending(e) \ {c} : Order(c) < Order(d)
LeadsItsRows == \A c \in sent \cap Queued : Leads(c)

\* What was replaced, or is offered for review, can never be applied.
SupersededOK ==
  \A c, d \in Commands :
    c[1] = d[1] /\ c[2] < d[2] /\ Order(d) > 0 =>
      Order(c) > 0 /\ c \notin receipts /\ Outdated(c)
ConflictOK ==
  \A c \in Commands : outbox[c] = "CONFLICT" => c \notin receipts /\ Outdated(c)

\* Once g is applied, what c was built on is safe.
Settles(g, c, e) ==
  \/ BuiltOn(c, e) = [ver |-> BuiltOn(g, e).ver + 1, by |-> g]
  \/ BuiltOn(g, e).ver >= BuiltOn(c, e).ver
\* What c was built on is safe, or becomes safe with a command before c.
Guarded(c, e) ==
  \/ Safe(c, e)
  \/ \E g \in Pending(e) \ {c} : Order(g) < Order(c) /\ Settles(g, c, e)
GuardOK == \A c \in Queued : \A e \in Rows(c) : Guarded(c, e)

BasesOK ==
  /\ binding.cursor <= Len(changes)
  /\ \A k \in 1 .. binding.cursor : base[changes[k].e].ver >= changes[k].ver
  /\ \A e \in Entities : base[e].ver > 0 => Held(e, base[e])

\* A page holds all the log between its two cursors, and rows the server held.
PageOK(t) ==
  /\ scope[t].cursor <= page[t].upTo /\ page[t].upTo <= Len(changes)
  /\ \A k \in (scope[t].cursor + 1) .. page[t].upTo : changes[k].e \in page[t].rows
  /\ \A k \in 1 .. page[t].upTo : page[t].values[changes[k].e].ver >= changes[k].ver
  /\ \A e \in Entities : page[t].values[e].ver > 0 => Held(e, page[t].values[e])
PagesOK(t) ==
  /\ scope[t].cursor <= Len(changes) /\ scope[t].version <= binding.version
  /\ pc[t] \in {"page", "project"} => PageOK(t)

RowsOK ==
  \A e \in Entities :
    IF Pending(e) = {} THEN row[e] = base[e]
    ELSE Latest(e, row[e].by) /\ row[e].ver = BuiltOn(row[e].by, e).ver + 1

\* What a tab knows of other pending commands is still so when it is used.
OthersOK(t) ==
  /\ pc[t] = "project" /\ binding = scope[t] => \A e \in others[t] : Pending(e) # {}
  /\ \A c \in Queued : pc[t] = "acknowledge" /\ First(c, Planned(t)) =>
       \A e \in others[t] \cap Rows(c) : Pending(e) \ {c} # {}

\* A planned command that was never sent waits behind all earlier ones of its
\* rows: they are planned too, or the row is blocked.
TurnOK(t, c) ==
  \A e \in Rows(c) : \A d \in Pending(e) : Order(d) < Order(c) =>
    \/ e \in blocked[t]
    \/ \E g \in Planned(t) : e \in Rows(g) /\ Order(g) < Order(c)
TurnsOK(t) ==
  \A c \in Commands :
    /\ plan[t][c] = "READY" =>
         /\ phase[t] \in {"plan", "replan", "send"}
         /\ outbox[c] = "PENDING" => TurnOK(t, c)
    /\ plan[t][c] = "RECEIPT_REQUIRED" => c \in sent

\* Where a tab is in its cycle, and what it knows of its next planned command.
CycleOK(t) ==
  /\ phase[t] \in {"plan", "replan"} => pc[t] = "rebase"
  /\ pc[t] = "recover" => phase[t] = "recover"
  /\ pc[t] \in {"send", "await", "refused"} => phase[t] = "send"
  /\ pc[t] \in {"receipt", "acknowledge"} => phase[t] \in {"recover", "send"}
  /\ \A c \in Commands : First(c, Planned(t)) =>
       /\ pc[t] \in {"await", "refused"} => c \in sent
       /\ pc[t] = "refused" => c \in receipts \/ Outdated(c)

ServerOK == LogOK /\ AppliedOK /\ NoLostUpdate
CommandsOK == SentOK /\ LeadsItsRows /\ SupersededOK /\ ConflictOK /\ GuardOK
ReplicaOK == BasesOK /\ RowsOK
TabOK(t) == PagesOK(t) /\ OthersOK(t) /\ TurnsOK(t) /\ CycleOK(t)

VersionsInv ==
  NeverDroppedInv /\ ServerOK /\ CommandsOK /\ ReplicaOK /\ \A t \in Tabs : TabOK(t)

-----------------------------------------------------------------------------
(* What every step does to the others: the log and the set of sent commands *)
(* grow, a command never changes, and a place in the queue is left, passed  *)
(* on or taken at the end.                                                  *)

Grown ==
  /\ DOMAIN changes \subseteq DOMAIN changes' /\ Len(changes) <= Len(changes')
  /\ \A k \in DOMAIN changes : changes'[k] = changes[k]
  /\ \A e \in Entities : server[e].ver <= server'[e].ver
  /\ receipts \subseteq receipts' /\ sent \subseteq sent'
CommandsKept == \A c \in Commands : Order(c) > 0 => command'[c] = command[c]

\* A queued command comes late, or takes over the place of the one it replaces.
QueueMoves ==
  /\ \A c \in Commands : Order(c) > 0 =>
       /\ c \in Queued' => c \in Queued
       /\ outbox'[c] = "PENDING" => outbox[c] = "PENDING"
  /\ \A e \in Entities : \A d \in Pending(e)' :
       \/ d \in Pending(e)
       \/ Order(d)' > revision
       \/ \E g \in Pending(e) \ Pending(e)' : Order(g) = Order(d)'

\* A row is given up by a commit of the replica only, and never the rest of what
\* waits behind a command that was sent.
RowsMove ==
  /\ binding' = binding \/ binding.version < binding'.version
  /\ \A e \in Entities :
       Pending(e) # {} /\ Pending(e)' = {} => binding.version < binding'.version
  /\ \A c \in sent \cap Queued \cap Queued' : \A e \in Rows(c) :
       Pending(e) \ {c} # {} => Pending(e)' \ {c} # {}

Moves == Grown /\ CommandsKept /\ QueueMoves /\ RowsMove

LEMMA OrdersNat == ASSUME TypeOK PROVE \A c \in Commands : Order(c) \in Nat
BY DEF TypeOK, LocalOK, Order

LEMMA RowsEntities == \A c \in Commands : Rows(c) \subseteq Entities
BY TargetsType

LEMMA VersionNat ==
  ASSUME TypeOK
  PROVE  /\ \A c \in Commands, e \in Entities :
              BuiltOn(c, e) \in Versions /\ BuiltOn(c, e).ver \in Nat
         /\ \A e \in Entities : server[e].ver \in Nat /\ base[e].ver \in Nat
                               /\ row[e].ver \in Nat
         /\ \A k \in DOMAIN changes : changes[k].e \in Entities /\ changes[k].ver \in Nat
                                     /\ changes[k].by \in Authors
         /\ Len(changes) \in Nat /\ DOMAIN changes = 1 .. Len(changes)
<1>1. \A c \in Commands, e \in Entities :
        BuiltOn(c, e) \in Versions /\ BuiltOn(c, e).ver \in Nat
  BY DEF TypeOK, LocalOK, BuiltOn, Versions
<1>2. \A e \in Entities : server[e].ver \in Nat /\ base[e].ver \in Nat /\ row[e].ver \in Nat
  BY DEF TypeOK, LocalOK, RemoteOK, Versions
<1>3. Len(changes) \in Nat /\ DOMAIN changes = 1 .. Len(changes)
  BY LenProperties DEF TypeOK, RemoteOK
<1>4. \A k \in DOMAIN changes :
        changes[k].e \in Entities /\ changes[k].ver \in Nat /\ changes[k].by \in Authors
  <2>1. changes \in [1 .. Len(changes) -> [e : Entities, ver : Nat, by : Authors]]
    BY LenProperties DEF TypeOK, RemoteOK
  <2> QED BY <1>3, <2>1
<1> QED BY <1>1, <1>2, <1>3, <1>4

LEMMA PendingIn ==
  /\ \A e \in Entities : \A c \in Pending(e) : c \in Queued /\ c \in Commands /\ e \in Rows(c)
  /\ \A c \in Queued : c \in Commands /\ \A e \in Rows(c) : c \in Pending(e)
BY DEF Pending, Queued

\* What the server held it has held ever since.
LEMMA HeldKept ==
  ASSUME Grown, NEW e \in Entities, NEW x, Held(e, x)
  PROVE  Held(e, x)'
BY DEF Grown, Held

LEMMA SafeKept ==
  ASSUME TypeOK, TypeOK', Grown, CommandsKept, NEW c \in Commands, NEW e \in Rows(c),
         Order(c) > 0, Safe(c, e)
  PROVE  Safe(c, e)'
<1> DEFINE x == BuiltOn(c, e)
<1>1. e \in Entities
  BY RowsEntities
<1>2. BuiltOn(c, e)' = x /\ x.ver \in Nat
  BY <1>1, VersionNat DEF CommandsKept, BuiltOn
<1>3. server[e].ver \in Nat /\ server'[e].ver \in Nat /\ server[e].ver <= server'[e].ver
  BY <1>1, VersionNat DEF Grown, TypeOK, RemoteOK, Versions
<1>4. Held(e, x) => Held(e, x)'
  BY <1>1, <1>2 DEF Held, Grown, BuiltOn
<1> QED BY <1>2, <1>3, <1>4 DEF Safe, Held

LEMMA OutdatedKept ==
  ASSUME TypeOK, TypeOK', Grown, CommandsKept, NEW c \in Commands, Order(c) > 0, Outdated(c)
  PROVE  Outdated(c)'
<1>1. PICK e \in Rows(c) : server[e].ver > BuiltOn(c, e).ver
  BY DEF Outdated
<1>2. e \in Entities /\ BuiltOn(c, e)' = BuiltOn(c, e) /\ BuiltOn(c, e).ver \in Nat
  BY RowsEntities, VersionNat DEF CommandsKept, BuiltOn
<1>3. server[e].ver \in Nat /\ server'[e].ver \in Nat /\ server[e].ver <= server'[e].ver
  BY <1>2, VersionNat DEF Grown, TypeOK, RemoteOK, Versions
<1> QED BY <1>1, <1>2, <1>3 DEF Outdated

\* A row the server held is not newer than the one it holds.
LEMMA HeldBelow ==
  ASSUME TypeOK, LogOK, NEW e \in Entities, NEW x, Held(e, x)
  PROVE  x.ver \in Nat /\ x.ver > 0 /\ x.ver <= server[e].ver
<1>1. server[e].ver \in Nat
  BY VersionNat
<1>2. CASE e \in Existing /\ x = [ver |-> 1, by |-> Remote]
  BY <1>1, <1>2 DEF LogOK
<1>3. CASE \E k \in DOMAIN changes :
             changes[k].e = e /\ changes[k].ver = x.ver /\ changes[k].by = x.by
  BY <1>3, VersionNat DEF LogOK
<1> QED BY <1>2, <1>3 DEF Held

-----------------------------------------------------------------------------
(* The server. *)

\* The n entries that the application of c leaves in the log, one for each row.
Writes(c, n, s) ==
  /\ \A e \in Rows(c) : \E k \in 1 .. n : s[k] = e
  /\ \A j, k \in 1 .. n : s[j] = s[k] => j = k
  /\ Len(changes') = Len(changes) + n /\ DOMAIN changes' = 1 .. (Len(changes) + n)
  /\ \A k \in 1 .. Len(changes) : changes'[k] = changes[k]
  /\ \A k \in 1 .. n :
       changes'[Len(changes) + k] = [e |-> s[k], ver |-> server[s[k]].ver + 1, by |-> c]

LEMMA ApplyLog ==
  ASSUME TypeOK, NEW c \in Commands, Apply(c)
  PROVE  \E n \in Nat : \E s \in [1 .. n -> Rows(c)] : Writes(c, n, s)
<1> DEFINE Entry == [e : Entities, ver : Nat, by : Authors]
           n == Cardinality(Rows(c))
<1>1. PICK s \in [1 .. n -> Rows(c)] :
        /\ \A e \in Rows(c) : \E k \in DOMAIN s : s[k] = e
        /\ changes' = changes \o
             [k \in DOMAIN s |-> [e |-> s[k], ver |-> server[s[k]].ver + 1, by |-> c]]
  BY DEF Apply
<1> DEFINE new == [k \in DOMAIN s |-> [e |-> s[k], ver |-> server[s[k]].ver + 1, by |-> c]]
<1>2. n \in Nat /\ IsFiniteSet(Rows(c))
  BY EntitiesAssumption, TargetsType, FS_Subset, FS_CardinalityType
<1>3. DOMAIN s = 1 .. n
  OBVIOUS
<1>4. \A k \in 1 .. n : [e |-> s[k], ver |-> server[s[k]].ver + 1, by |-> c] \in Entry
  BY RowsEntities, VersionNat DEF Authors
<1>5. new \in [1 .. n -> Entry]
      /\ \A k \in 1 .. n : new[k] = [e |-> s[k], ver |-> server[s[k]].ver + 1, by |-> c]
  BY <1>3, <1>4
<1>6. \A j, k \in 1 .. n : s[j] = s[k] => j = k
  <2>1. IsFiniteSet(1 .. n) /\ Cardinality(1 .. n) = Cardinality(Rows(c))
    BY <1>2, FS_Interval
  <2>2. s \in Surjection(1 .. n, Rows(c))
    BY <1>1, <1>3 DEF Surjection
  <2> HIDE DEF n
  <2>3. s \in Injection(1 .. n, Rows(c))
    BY <2>1, <2>2, FS_SurjSameCardinalityImpliesInj
  <2> QED BY <2>3, <1>3 DEF Injection, IsInjective
<1>7. changes' = changes \o new
  BY <1>1
<1>8. \A e \in Rows(c) : \E k \in 1 .. n : s[k] = e
  BY <1>1, <1>3
<1> HIDE DEF new, n, Entry
<1>9. new \in Seq(Entry) /\ Len(new) = n
  BY <1>2, <1>5, SeqDef, LenProperties
<1>10. changes \in Seq(Entry) /\ Len(changes) \in Nat /\ DOMAIN changes = 1 .. Len(changes)
  BY LenProperties DEF TypeOK, RemoteOK, Entry
<1>11. /\ Len(changes') = Len(changes) + n /\ DOMAIN changes' = 1 .. (Len(changes) + n)
       /\ \A k \in 1 .. (Len(changes) + n) :
            changes'[k] = IF k <= Len(changes) THEN changes[k] ELSE new[k - Len(changes)]
  <2>1. /\ changes' \in Seq(Entry) /\ Len(changes') = Len(changes) + n
        /\ \A k \in 1 .. (Len(changes) + n) :
             changes'[k] = IF k <= Len(changes) THEN changes[k] ELSE new[k - Len(changes)]
    BY <1>7, <1>9, <1>10, ConcatProperties
  <2>2. DOMAIN changes' = 1 .. Len(changes')
    BY <2>1, LenProperties
  <2> QED BY <2>1, <2>2
<1>12. /\ \A k \in 1 .. Len(changes) : changes'[k] = changes[k]
       /\ \A k \in 1 .. n : changes'[Len(changes) + k] = new[k]
  <2>1. \A k \in 1 .. Len(changes) : k \in 1 .. (Len(changes) + n) /\ k <= Len(changes)
    BY <1>2, <1>10
  <2>2. \A k \in 1 .. n : /\ Len(changes) + k \in 1 .. (Len(changes) + n)
                          /\ ~ (Len(changes) + k <= Len(changes))
                          /\ (Len(changes) + k) - Len(changes) = k
    BY <1>2, <1>10
  <2> QED BY <1>11, <2>1, <2>2
<1>13. s \in [1 .. n -> Rows(c)]
  BY <1>3
<1>14. \A k \in 1 .. n :
         changes'[Len(changes) + k] = [e |-> s[k], ver |-> server[s[k]].ver + 1, by |-> c]
  BY <1>5, <1>12
<1>15. Writes(c, n, s)
  BY <1>6, <1>8, <1>11, <1>12, <1>14 DEF Writes
<1> QED BY <1>2, <1>13, <1>15

LEMMA ApplyGrown ==
  ASSUME TypeOK, NEW c \in Commands, Apply(c), sent \subseteq sent'
  PROVE  Grown
<1>1. PICK n \in Nat :
        /\ Len(changes') = Len(changes) + n /\ DOMAIN changes' = 1 .. (Len(changes) + n)
        /\ \A k \in 1 .. Len(changes) : changes'[k] = changes[k]
  BY ApplyLog DEF Writes
<1>2. \A e \in Entities : server[e].ver <= server'[e].ver
  BY VersionNat DEF Apply
<1>3. receipts \subseteq receipts'
  BY DEF Apply, StoreReceipt
<1> QED BY <1>1, <1>2, <1>3, VersionNat DEF Grown

LEMMA SameGrown == ASSUME TypeOK, UNCHANGED <<server, changes, receipts>>, sent \subseteq sent'
                   PROVE  Grown
BY VersionNat DEF Grown

LEMMA ProcessGrown ==
  ASSUME TypeOK, NEW c \in Commands, Process(c), sent \subseteq sent'
  PROVE  Grown
BY ApplyGrown, SameGrown DEF Process

\* Only a server that still holds what c was built on takes it.
LEMMA ApplyServer ==
  ASSUME TypeOK, TypeOK', ServerOK, SentOK, NEW c \in sent, Accepts(c), Apply(c),
         UNCHANGED <<command, sent>>
  PROVE  ServerOK'
<1>1. c \in Commands /\ c \notin receipts /\ Current(c) /\ c # Remote
  <2>1. c \in Commands
    BY DEF TypeOK, RemoteOK
  <2>2. c # Remote
    BY <2>1, RemoteAssumption
  <2> QED BY <2>1, <2>2 DEF Accepts
<1>n. PICK n \in Nat : \E s \in [1 .. n -> Rows(c)] : Writes(c, n, s)
  BY <1>1, ApplyLog
<1>s. PICK s \in [1 .. n -> Rows(c)] : Writes(c, n, s)
  BY <1>n
<1>2. /\ \A e \in Rows(c) : \E k \in 1 .. n : s[k] = e
      /\ \A j, k \in 1 .. n : s[j] = s[k] => j = k
      /\ Len(changes') = Len(changes) + n /\ DOMAIN changes' = 1 .. (Len(changes) + n)
      /\ \A k \in 1 .. Len(changes) : changes'[k] = changes[k]
      /\ \A k \in 1 .. n :
           changes'[Len(changes) + k] =
             [e |-> s[k], ver |-> server[s[k]].ver + 1, by |-> c]
  BY <1>s DEF Writes
<1> DEFINE L == Len(changes)
<1>3. L \in Nat /\ DOMAIN changes = 1 .. L
  BY VersionNat
<1>4. \A k \in DOMAIN changes' :
        \/ k \in DOMAIN changes /\ changes'[k] = changes[k]
        \/ \E m \in 1 .. n : /\ k = L + m /\ s[m] \in Rows(c)
                            /\ changes'[k] = [e |-> s[m], ver |-> server[s[m]].ver + 1, by |-> c]
  <2> SUFFICES ASSUME NEW k \in DOMAIN changes'
               PROVE  \/ k \in DOMAIN changes /\ changes'[k] = changes[k]
                      \/ \E m \in 1 .. n :
                           /\ k = L + m /\ s[m] \in Rows(c)
                           /\ changes'[k] = [e |-> s[m], ver |-> server[s[m]].ver + 1, by |-> c]
    OBVIOUS
  <2>1. CASE k \in 1 .. L
    BY <1>2, <1>3, <2>1
  <2>2. CASE k \notin 1 .. L
    <3> DEFINE m == k - L
    <3>1. m \in 1 .. n /\ k = L + m
      BY <1>2, <1>3, <2>2
    <3> HIDE DEF m
    <3> QED BY <1>2, <3>1
  <2> QED BY <2>1, <2>2
<1>5. \A e \in Entities :
        server'[e] = IF e \in Rows(c) THEN [ver |-> server[e].ver + 1, by |-> c] ELSE server[e]
  BY DEF Apply
<1>6. Grown
  BY <1>1, ApplyGrown
<1>7. LogOK'
  <2>1. ASSUME NEW k \in DOMAIN changes'
        PROVE  0 < changes'[k].ver /\ changes'[k].ver <= server'[changes'[k].e].ver
    <3>1. CASE k \in DOMAIN changes /\ changes'[k] = changes[k]
      <4>1. changes[k].e \in Entities /\ changes[k].ver \in Nat
            /\ 0 < changes[k].ver /\ changes[k].ver <= server[changes[k].e].ver
        BY <3>1, VersionNat DEF ServerOK, LogOK
      <4>2. server[changes[k].e].ver \in Nat /\ server'[changes[k].e].ver \in Nat
            /\ server[changes[k].e].ver <= server'[changes[k].e].ver
        BY <1>6, <4>1, VersionNat DEF Grown, TypeOK, RemoteOK, Versions
      <4> QED BY <3>1, <4>1, <4>2
    <3>2. ASSUME NEW m \in 1 .. n, s[m] \in Rows(c),
                 changes'[k] = [e |-> s[m], ver |-> server[s[m]].ver + 1, by |-> c]
          PROVE  0 < changes'[k].ver /\ changes'[k].ver <= server'[changes'[k].e].ver
      <4>1. s[m] \in Entities /\ server[s[m]].ver \in Nat
        BY <1>1, <3>2, RowsEntities, VersionNat
      <4> DEFINE e == s[m]
      <4>e. server'[e] = [ver |-> server[e].ver + 1, by |-> c]
        <5> HIDE DEF e
        <5>1. e \in Entities /\ e \in Rows(c)
          BY <3>2, <4>1 DEF e
        <5> QED BY <1>5, <5>1
      <4>2. server'[s[m]].ver = server[s[m]].ver + 1
        BY <4>e
      <4>3. changes'[k].e = s[m] /\ changes'[k].ver = server[s[m]].ver + 1
        BY <3>2
      <4> QED BY <4>1, <4>2, <4>3
    <3> QED BY <2>1, <1>4, <3>1, <3>2
  <2>2. ASSUME NEW k \in DOMAIN changes', NEW j \in DOMAIN changes', j < k,
               changes'[j].e = changes'[k].e
        PROVE  changes'[j].ver < changes'[k].ver
    <3>1. CASE k \in DOMAIN changes /\ changes'[k] = changes[k]
      <4>1. j \in DOMAIN changes /\ changes'[j] = changes[j]
        BY <1>2, <1>3, <2>2, <3>1
      <4> QED BY <2>2, <3>1, <4>1 DEF ServerOK, LogOK
    <3>2. ASSUME NEW m \in 1 .. n, k = L + m, s[m] \in Rows(c),
                 changes'[k] = [e |-> s[m], ver |-> server[s[m]].ver + 1, by |-> c]
          PROVE  changes'[j].ver < changes'[k].ver
      <4>1. CASE j \in DOMAIN changes /\ changes'[j] = changes[j]
        <5>1. changes[j].ver <= server[s[m]].ver /\ changes[j].ver \in Nat
              /\ server[s[m]].ver \in Nat
          BY <1>1, <2>2, <3>2, <4>1, RowsEntities, VersionNat DEF ServerOK, LogOK
        <5> QED BY <3>2, <4>1, <5>1
      <4>2. ASSUME NEW i \in 1 .. n, j = L + i, changes'[j].e = s[i] PROVE FALSE
        <5>1. s[i] = s[m]
          BY <2>2, <3>2, <4>2
        <5> QED BY <1>2, <2>2, <3>2, <4>2, <5>1
      <4> QED BY <2>2, <1>4, <4>1, <4>2
    <3> QED BY <2>2, <1>4, <3>1, <3>2
  <2>3. ASSUME NEW e \in Entities, server'[e].ver > 0 PROVE Held(e, server[e])'
    <3>1. CASE e \in Rows(c)
      <4>1. PICK m \in 1 .. n : s[m] = e
        BY <1>2, <3>1
      <4>2. L + m \in DOMAIN changes'
            /\ changes'[L + m] = [e |-> e, ver |-> server[e].ver + 1, by |-> c]
        BY <1>2, <1>3, <4>1
      <4>3. server'[e] = [ver |-> server[e].ver + 1, by |-> c]
        BY <1>5, <3>1
      <4>4. \E k \in DOMAIN changes' :
              changes'[k].e = e /\ changes'[k].ver = server'[e].ver /\ changes'[k].by = server'[e].by
        BY <4>2, <4>3
      <4> QED BY <4>4 DEF Held
    <3>2. CASE e \notin Rows(c)
      <4>1. server'[e] = server[e] /\ Held(e, server[e])
        BY <1>5, <2>3, <3>2 DEF ServerOK, LogOK
      <4> QED BY <1>6, <4>1 DEF Held, Grown
    <3> QED BY <3>1, <3>2
  <2>4. ASSUME NEW e \in Existing PROVE server'[e].ver > 0
    <3>1. e \in Entities /\ server[e].ver > 0
      BY EntitiesAssumption DEF ServerOK, LogOK
    <3>2. server[e].ver \in Nat /\ server'[e].ver \in Nat /\ server[e].ver <= server'[e].ver
      BY <1>6, <3>1, VersionNat DEF Grown, TypeOK, RemoteOK, Versions
    <3> QED BY <3>1, <3>2
  <2> QED BY <2>1, <2>2, <2>3, <2>4 DEF LogOK
<1>8. receipts' = receipts \cup {c}
  BY DEF Apply, StoreReceipt
<1>9. \A e \in Rows(c) : \E k \in DOMAIN changes' : changes'[k].e = e /\ changes'[k].by = c
  <2> SUFFICES ASSUME NEW e \in Rows(c)
               PROVE  \E k \in DOMAIN changes' : changes'[k].e = e /\ changes'[k].by = c
    OBVIOUS
  <2>1. PICK m \in 1 .. n : s[m] = e
    BY <1>2
  <2>2. L + m \in DOMAIN changes'
        /\ changes'[L + m] = [e |-> e, ver |-> server[e].ver + 1, by |-> c]
    BY <1>2, <1>3, <2>1
  <2> QED BY <2>2
<1>10. Applied' = Applied \cup {c}
  <2>1. c \in Applied'
    BY <1>1, <1>9, TargetsAssumption DEF Applied, Rows, Commands
  <2>2. Applied \subseteq Applied'
    BY <1>6 DEF Applied, Grown
  <2>3. Applied' \subseteq Applied \cup {c}
    BY <1>4 DEF Applied
  <2> QED BY <2>1, <2>2, <2>3
<1>11. AppliedOK'
  <2>1. Applied' = receipts' /\ receipts' \subseteq sent'
    BY <1>8, <1>10 DEF ServerOK, AppliedOK
  <2>2. ASSUME NEW k \in DOMAIN changes', changes'[k].by # Remote
        PROVE  /\ changes'[k].e \in Rows(changes'[k].by)
               /\ changes'[k].ver = (BuiltOn(changes[k].by, changes[k].e).ver + 1)'
    <3>1. CASE k \in DOMAIN changes /\ changes'[k] = changes[k]
      BY <2>2, <3>1 DEF ServerOK, AppliedOK, BuiltOn
    <3>2. CASE \E m \in 1 .. n : s[m] \in Rows(c) /\
                changes'[k] = [e |-> s[m], ver |-> server[s[m]].ver + 1, by |-> c]
      BY <3>2, <1>1 DEF Current, BuiltOn
    <3> QED BY <2>2, <1>4, <3>1, <3>2
  <2>3. \A d \in receipts' : \A e \in Rows(d) :
          \E k \in DOMAIN changes' : changes'[k].e = e /\ changes'[k].by = d
    BY <1>6, <1>8, <1>9 DEF Grown, ServerOK, AppliedOK
  <2> QED BY <2>1, <2>2, <2>3 DEF AppliedOK
<1>12. NoLostUpdate'
  <2> SUFFICES ASSUME NEW k \in DOMAIN changes', changes'[k].by # Remote
               PROVE  /\ command'[changes'[k].by].base[changes'[k].e].ver = changes'[k].ver - 1
                      /\ changes'[k].ver > 1 =>
                           Held(changes[k].e, command[changes[k].by].base[changes[k].e])'
    BY DEF NoLostUpdate
  <2>1. CASE k \in DOMAIN changes /\ changes'[k] = changes[k]
    <3>1. /\ command[changes[k].by].base[changes[k].e].ver = changes[k].ver - 1
          /\ changes[k].ver > 1 =>
               Held(changes[k].e, command[changes[k].by].base[changes[k].e])
      BY <2>1 DEF ServerOK, NoLostUpdate
    <3> QED BY <2>1, <3>1, <1>6 DEF Held, Grown
  <2>2. ASSUME NEW m \in 1 .. n, s[m] \in Rows(c),
               changes'[k] = [e |-> s[m], ver |-> server[s[m]].ver + 1, by |-> c]
        PROVE  /\ command'[c].base[s[m]].ver = server[s[m]].ver
               /\ server[s[m]].ver > 0 => Held(s[m], command[c].base[s[m]])'
    <3>1. command[c].base[s[m]].ver = server[s[m]].ver /\ server[s[m]].ver \in Nat
      BY <1>1, <2>2, RowsEntities, VersionNat DEF Current
    <3>2. Safe(c, s[m])
      BY <2>2 DEF SentOK
    <3>3. server[s[m]].ver > 0 => Held(s[m], command[c].base[s[m]])
      BY <3>1, <3>2 DEF Safe, BuiltOn
    <3> QED BY <3>1, <3>3, <1>6 DEF Held, Grown
  <2>3. ASSUME NEW m \in 1 .. n, s[m] \in Rows(c),
               changes'[k] = [e |-> s[m], ver |-> server[s[m]].ver + 1, by |-> c]
        PROVE  /\ command'[changes'[k].by].base[changes'[k].e].ver = changes'[k].ver - 1
               /\ changes'[k].ver > 1 =>
                    Held(changes[k].e, command[changes[k].by].base[changes[k].e])'
    <3>1. changes'[k].by = c /\ changes'[k].e = s[m] /\ changes'[k].ver = server[s[m]].ver + 1
          /\ server[s[m]].ver \in Nat
      BY <1>1, <2>3, RowsEntities, VersionNat
    <3> QED BY <2>2, <2>3, <3>1
  <2> QED BY <1>4, <2>1, <2>3
<1> QED BY <1>7, <1>11, <1>12 DEF ServerOK

LEMMA ProcessServer ==
  ASSUME TypeOK, TypeOK', ServerOK, SentOK, NEW c \in sent, Process(c),
         UNCHANGED <<command, sent>>
  PROVE  ServerOK'
<1>1. CASE Accepts(c)
  BY <1>1, ApplyServer DEF Process
<1>2. CASE ~Accepts(c)
  BY <1>2 DEF Process, ServerOK, LogOK, AppliedOK, NoLostUpdate, Applied, Held, BuiltOn
<1> QED BY <1>1, <1>2

\* The entry that another device leaves.
LEMMA RemoteLog ==
  ASSUME TypeOK, NEW e \in Entities, RemoteWrite(e)
  PROVE  /\ Len(changes') = Len(changes) + 1 /\ DOMAIN changes' = 1 .. (Len(changes) + 1)
         /\ \A k \in 1 .. Len(changes) : changes'[k] = changes[k]
         /\ changes'[Len(changes) + 1] = [e |-> e, ver |-> server[e].ver + 1, by |-> Remote]
<1> DEFINE Entry == [e : Entities, ver : Nat, by : Authors]
           new == [e |-> e, ver |-> server[e].ver + 1, by |-> Remote]
<1>1. new \in Entry
  BY VersionNat DEF Authors
<1>2. changes' = Append(changes, new)
  BY DEF RemoteWrite
<1> HIDE DEF new, Entry
<1>3. changes \in Seq(Entry)
  BY DEF TypeOK, RemoteOK, Entry
<1>4. /\ changes' \in Seq(Entry) /\ Len(changes') = Len(changes) + 1
      /\ \A k \in 1 .. Len(changes) : changes'[k] = changes[k]
      /\ changes'[Len(changes) + 1] = new
  BY <1>1, <1>2, <1>3, AppendProperties
<1>5. DOMAIN changes' = 1 .. Len(changes')
  BY <1>4, LenProperties
<1> QED BY <1>4, <1>5 DEF new

LEMMA RemoteGrown ==
  ASSUME TypeOK, NEW e \in Entities, RemoteWrite(e)
  PROVE  Grown
<1>1. \A x \in Entities : server[x].ver <= server'[x].ver
  BY VersionNat DEF RemoteWrite, TypeOK, RemoteOK
<1> QED BY <1>1, RemoteLog, VersionNat DEF RemoteWrite, Grown

LEMMA RemoteServer ==
  ASSUME TypeOK, TypeOK', ServerOK, NEW e \in Entities, RemoteWrite(e)
  PROVE  ServerOK'
<1> DEFINE L == Len(changes)
<1>1. L \in Nat /\ DOMAIN changes = 1 .. L
  BY VersionNat
<1>2. UNCHANGED <<command, receipts, sent>>
  BY DEF RemoteWrite, local
<1>3. \A k \in DOMAIN changes' :
        \/ k \in DOMAIN changes /\ changes'[k] = changes[k]
        \/ k = L + 1 /\ changes'[k] = [e |-> e, ver |-> server[e].ver + 1, by |-> Remote]
  <2>1. /\ DOMAIN changes' = 1 .. (L + 1) /\ \A k \in 1 .. L : changes'[k] = changes[k]
        /\ changes'[L + 1] = [e |-> e, ver |-> server[e].ver + 1, by |-> Remote]
    BY RemoteLog
  <2>2. \A k \in 1 .. (L + 1) : k \in 1 .. L \/ k = L + 1
    BY <1>1
  <2> HIDE DEF L
  <2> QED BY <1>1, <2>1, <2>2
<1>4. Grown
  BY RemoteGrown
<1>5. server' = [server EXCEPT ![e] = [ver |-> server[e].ver + 1, by |-> Remote]]
  BY DEF RemoteWrite
<1>6. \A x \in Entities :
        server'[x] = IF x = e THEN [ver |-> server[e].ver + 1, by |-> Remote] ELSE server[x]
  BY <1>5 DEF TypeOK, RemoteOK
<1>7. LogOK'
  <2>1. ASSUME NEW k \in DOMAIN changes'
        PROVE  0 < changes'[k].ver /\ changes'[k].ver <= server'[changes'[k].e].ver
    <3>1. CASE k \in DOMAIN changes /\ changes'[k] = changes[k]
      <4>1. changes[k].e \in Entities /\ changes[k].ver \in Nat
            /\ 0 < changes[k].ver /\ changes[k].ver <= server[changes[k].e].ver
        BY <3>1, VersionNat DEF ServerOK, LogOK
      <4>2. server[changes[k].e].ver \in Nat /\ server'[changes[k].e].ver \in Nat
            /\ server[changes[k].e].ver <= server'[changes[k].e].ver
        BY <1>4, <4>1, VersionNat DEF Grown, TypeOK, RemoteOK, Versions
      <4> QED BY <3>1, <4>1, <4>2
    <3>2. CASE changes'[k] = [e |-> e, ver |-> server[e].ver + 1, by |-> Remote]
      BY <1>6, <3>2, VersionNat
    <3> QED BY <1>3, <3>1, <3>2
  <2>2. ASSUME NEW k \in DOMAIN changes', NEW j \in DOMAIN changes', j < k,
               changes'[j].e = changes'[k].e
        PROVE  changes'[j].ver < changes'[k].ver
    <3>1. j \in DOMAIN changes /\ changes'[j] = changes[j]
      <4>1. DOMAIN changes' = 1 .. (L + 1) /\ \A i \in 1 .. L : changes'[i] = changes[i]
        BY RemoteLog
      <4>2. j \in 1 .. L
        BY <1>1, <2>2, <4>1
      <4> QED BY <1>1, <4>1, <4>2
    <3>2. CASE k \in DOMAIN changes /\ changes'[k] = changes[k]
      BY <2>2, <3>1, <3>2 DEF ServerOK, LogOK
    <3>3. CASE changes'[k] = [e |-> e, ver |-> server[e].ver + 1, by |-> Remote]
      <4>1. changes[j].ver <= server[e].ver /\ changes[j].ver \in Nat /\ server[e].ver \in Nat
        BY <2>2, <3>1, <3>3, VersionNat DEF ServerOK, LogOK
      <4> QED BY <3>1, <3>3, <4>1
    <3> QED BY <1>3, <3>2, <3>3
  <2>3. ASSUME NEW x \in Entities, server'[x].ver > 0 PROVE Held(x, server[x])'
    <3>1. CASE x = e
      <4>1. L + 1 \in DOMAIN changes'
            /\ changes'[L + 1] = [e |-> e, ver |-> server[e].ver + 1, by |-> Remote]
        BY <1>1, RemoteLog
      <4>2. \E k \in DOMAIN changes' :
              changes'[k].e = e /\ changes'[k].ver = server'[e].ver /\ changes'[k].by = server'[e].by
        BY <1>6, <4>1
      <4> QED BY <3>1, <4>2 DEF Held
    <3>2. CASE x # e
      <4>1. server'[x] = server[x] /\ Held(x, server[x])
        BY <1>6, <2>3, <3>2 DEF ServerOK, LogOK
      <4> QED BY <1>4, <4>1 DEF Held, Grown
    <3> QED BY <3>1, <3>2
  <2>4. ASSUME NEW x \in Existing PROVE server'[x].ver > 0
    <3>1. x \in Entities /\ server[x].ver > 0
      BY EntitiesAssumption DEF ServerOK, LogOK
    <3>2. server[x].ver \in Nat /\ server'[x].ver \in Nat /\ server[x].ver <= server'[x].ver
      BY <1>4, <3>1, VersionNat DEF Grown, TypeOK, RemoteOK, Versions
    <3> QED BY <3>1, <3>2
  <2> QED BY <2>1, <2>2, <2>3, <2>4 DEF LogOK
<1>8. \A k \in DOMAIN changes' : changes'[k].by # Remote =>
        k \in DOMAIN changes /\ changes'[k] = changes[k]
  BY <1>3
<1>9. Applied' = Applied
  <2>1. \A c \in Commands : c # Remote
    BY RemoteAssumption
  <2> QED BY <1>4, <1>8, <2>1 DEF Applied, Grown
<1>10. AppliedOK'
  BY <1>2, <1>4, <1>8, <1>9 DEF ServerOK, AppliedOK, Grown, BuiltOn
<1>11. NoLostUpdate'
  BY <1>2, <1>4, <1>8 DEF ServerOK, NoLostUpdate, Held, Grown
<1> QED BY <1>7, <1>10, <1>11 DEF ServerOK

\* Steps of the installation leave the server alone.
LEMMA SameServer ==
  ASSUME TypeOK, TypeOK', ServerOK, SentOK, UNCHANGED <<server, changes, receipts>>,
         sent \subseteq sent', CommandsKept
  PROVE  ServerOK'
<1>1. \A k \in DOMAIN changes : changes[k].by # Remote =>
        changes[k].by \in Commands /\ command'[changes[k].by] = command[changes[k].by]
  <2> SUFFICES ASSUME NEW k \in DOMAIN changes, changes[k].by # Remote
               PROVE  changes[k].by \in Commands
                      /\ command'[changes[k].by] = command[changes[k].by]
    OBVIOUS
  <2>1. changes[k].by \in Commands
    BY VersionNat DEF Authors
  <2>2. changes[k].by \in sent
    BY <2>1 DEF ServerOK, AppliedOK, Applied
  <2> QED BY <2>1, <2>2 DEF SentOK, CommandsKept
<1>2. LogOK'
  BY DEF ServerOK, LogOK, Held
<1>3. AppliedOK'
  BY <1>1 DEF ServerOK, AppliedOK, Applied, BuiltOn
<1>4. NoLostUpdate'
  BY <1>1 DEF ServerOK, NoLostUpdate, Held
<1> QED BY <1>2, <1>3, <1>4 DEF ServerOK

-----------------------------------------------------------------------------
(* The commands. *)

\* What may be acknowledged or applied was sent, and has its order.
LEMMA SentOrder ==
  ASSUME TypeOK, AppliedOK, SentOK
  PROVE  /\ \A c \in sent : c \in Commands /\ Order(c) > 0
         /\ \A c \in receipts : c \in sent
         /\ \A c \in Commands : outbox[c] \in {"SENDING", "CONFLICT"} => c \in sent
BY DEF AppliedOK, SentOK, TypeOK, RemoteOK

\* An applied command has made safe what waited for it.
LEMMA SettledSafe ==
  ASSUME TypeOK, LogOK, AppliedOK, NEW g \in receipts, NEW e \in Rows(g),
         NEW c \in Commands, e \in Rows(c), Settles(g, c, e)
  PROVE  Safe(c, e)
<1>1. g \in Commands /\ e \in Entities /\ g # Remote
  BY RowsEntities, RemoteAssumption DEF TypeOK, RemoteOK
<1>2. PICK k \in DOMAIN changes : changes[k].e = e /\ changes[k].by = g
  BY DEF AppliedOK
<1>3. changes[k].ver = BuiltOn(g, e).ver + 1
  BY <1>1, <1>2 DEF AppliedOK
<1>4. BuiltOn(g, e).ver \in Nat /\ BuiltOn(c, e).ver \in Nat /\ server[e].ver \in Nat
      /\ BuiltOn(g, e).ver + 1 <= server[e].ver
  BY <1>1, <1>2, <1>3, VersionNat DEF LogOK
<1>5. CASE BuiltOn(c, e) = [ver |-> BuiltOn(g, e).ver + 1, by |-> g]
  BY <1>2, <1>3, <1>5 DEF Safe, Held
<1>6. CASE BuiltOn(g, e).ver >= BuiltOn(c, e).ver
  BY <1>4, <1>6 DEF Safe
<1> QED BY <1>5, <1>6 DEF Settles

\* Steps that send nothing new.
LEMMA SentKept ==
  ASSUME TypeOK, TypeOK', QueueOK, SentOK, LeadsItsRows, Moves, sent' = sent,
         \A c \in Commands :
           outbox'[c] \in {"SENDING", "CONFLICT"} => outbox[c] \in {"SENDING", "CONFLICT"}
  PROVE  SentOK' /\ LeadsItsRows'
<1>1. \A c \in sent : c \in Commands /\ Order(c) > 0 /\ Order(c)' = Order(c)
  BY DEF SentOK, Moves, CommandsKept, Order, TypeOK, RemoteOK
<1>2. ASSUME NEW c \in sent
      PROVE  Order(c)' > 0 /\ outbox'[c] # "PENDING" /\ \A e \in Rows(c) : Safe(c, e)'
  <2>1. \A e \in Rows(c) : Safe(c, e)'
    BY <1>1, SafeKept DEF SentOK, Moves
  <2> QED BY <1>1, <2>1 DEF SentOK, Moves, QueueMoves
<1>3. SentOK'
  BY <1>2 DEF SentOK
<1>4. ASSUME NEW c \in sent, c \in Queued', NEW e \in Rows(c), NEW d \in Pending(e)', d # c
      PROVE  Order(c)' < Order(d)'
  <2>1. c \in Commands /\ c \in Queued /\ c \in Pending(e)' /\ e \in Entities
    BY <1>1, <1>4, RowsEntities DEF Moves, QueueMoves, Pending
  <2>2. Order(c)' = Order(c) /\ Order(c) \in Nat /\ Order(c) <= revision /\ revision \in Nat
    BY <1>1, <2>1, OrdersNat DEF QueueOK, Order, TypeOK, LocalOK
  <2>3. d \in Commands /\ Order(d)' \in Nat
    BY <1>4, OrdersNat DEF Pending, Queued, TypeOK, LocalOK, Order
  <2>4. CASE d \in Pending(e)
    <3>1. Order(c) < Order(d)
      BY <1>4, <2>1, <2>4 DEF LeadsItsRows, Leads
    <3>2. Order(d)' = Order(d)
      BY <2>2, <2>3, <3>1, OrdersNat DEF Moves, CommandsKept, Order
    <3> QED BY <2>2, <3>1, <3>2
  <2>5. CASE Order(d)' > revision
    BY <2>2, <2>3, <2>5
  <2>6. CASE \E g \in Pending(e) \ Pending(e)' : Order(g) = Order(d)'
    BY <1>4, <2>1, <2>2, <2>6 DEF LeadsItsRows, Leads
  <2> QED BY <1>4, <2>1, <2>4, <2>5, <2>6 DEF Moves, QueueMoves
<1>5. LeadsItsRows'
  BY <1>4 DEF LeadsItsRows, Leads
<1> QED BY <1>3, <1>5

\* Nothing new is replaced, or put in conflict, or applied that was.
LEMMA SettledKept ==
  ASSUME TypeOK, TypeOK', SentOK, SupersededOK, ConflictOK, Moves,
         \A c, d \in Commands :
           c[1] = d[1] /\ c[2] < d[2] /\ Order(d)' > 0 =>
             Order(d) > 0 \/ (Order(c) > 0 /\ c \notin receipts /\ Outdated(c)),
         \A c \in Commands : outbox'[c] = "CONFLICT" =>
             outbox[c] = "CONFLICT" \/ (Order(c) > 0 /\ c \notin receipts /\ Outdated(c)),
         \A c \in Commands : Outdated(c) /\ c \notin receipts => c \notin receipts'
  PROVE  SupersededOK' /\ ConflictOK'
<1>1. \A c \in Commands : Order(c) > 0 /\ Outdated(c) /\ c \notin receipts =>
        Order(c)' > 0 /\ Outdated(c)' /\ c \notin receipts'
  <2> SUFFICES ASSUME NEW c \in Commands, Order(c) > 0, Outdated(c), c \notin receipts
               PROVE  Order(c)' > 0 /\ Outdated(c)' /\ c \notin receipts'
    OBVIOUS
  <2>1. Outdated(c)'
    BY OutdatedKept DEF Moves
  <2> QED BY <2>1 DEF Moves, CommandsKept, Order
<1>2. SupersededOK'
  BY <1>1 DEF SupersededOK
<1>3. ConflictOK'
  BY <1>1 DEF SentOK, ConflictOK
<1> QED BY <1>2, <1>3

\* Guards stay in the queue or are replaced, or what they guarded is safe without
\* them.
LEMMA GuardKept ==
  ASSUME TypeOK, TypeOK', QueueOK, GuardOK, Moves,
         \A c \in Queued' \ Queued : \A e \in Rows(c) : Guarded(c, e)',
         \A c \in Queued' \cap Queued : \A e \in Rows(c) : \A g \in Pending(e) \ {c} :
           g \notin Queued' /\ Order(g) < Order(c) /\ Settles(g, c, e) =>
             Safe(c, e) \/ Guarded(c, e)'
  PROVE  GuardOK'
<1>1. \A c \in Queued : c \in Commands /\ Order(c) > 0 /\ command'[c] = command[c]
  BY DEF QueueOK, Moves, CommandsKept, Queued, Order
<1> SUFFICES ASSUME NEW c \in Queued' \cap Queued, NEW e \in Rows(c)
             PROVE  Guarded(c, e)'
  BY DEF GuardOK, Guarded
<1>2. c \in Queued /\ c \in Commands /\ e \in Entities
  BY <1>1, RowsEntities
<1>3. CASE Safe(c, e)
  BY <1>1, <1>2, <1>3, SafeKept DEF Moves, Guarded
<1>4. ASSUME NEW g \in Pending(e) \ {c}, Order(g) < Order(c), Settles(g, c, e)
      PROVE  Guarded(c, e)'
  <2>1. g \in Queued /\ g \in Commands /\ e \in Rows(g)
    BY <1>2, <1>4, PendingIn
  <2>2. CASE g \in Queued'
    <3>1. g \in Pending(e)' \ {c}
      BY <1>4, <2>1, <2>2 DEF Pending
    <3>2. Order(g)' < Order(c)' /\ Settles(g, c, e)'
      BY <1>1, <1>2, <1>4, <2>1 DEF Order, Settles, BuiltOn
    <3> QED BY <3>1, <3>2 DEF Guarded
  <2>3. CASE g \notin Queued'
    BY <1>1, <1>2, <1>3, <1>4, <2>3
  <2> QED BY <2>2, <2>3
<1> QED BY <1>2, <1>3, <1>4 DEF GuardOK, Guarded

-----------------------------------------------------------------------------
(* Steps that leave the Outbox alone: the server, the pages, the tabs. *)

LEMMA StillMoves ==
  ASSUME TypeOK, TypeOK', Grown, UNCHANGED <<outbox, command>>,
         binding' = binding \/ binding.version < binding'.version
  PROVE  Moves
<1>1. Queued' = Queued /\ \A e \in Entities : Pending(e)' = Pending(e)
  BY DEF Queued, Pending
<1>2. CommandsKept /\ QueueMoves /\ RowsMove
  BY <1>1, RowsEntities DEF CommandsKept, QueueMoves, RowsMove, Queued
<1> QED BY <1>2 DEF Moves

\* A request that is processed leaves what is settled alone.
StillRefuses == \A c \in Commands : Outdated(c) /\ c \notin receipts => c \notin receipts'

LEMMA ProcessRefuses ==
  ASSUME TypeOK, NEW c \in Commands, Process(c)
  PROVE  StillRefuses
<1>1. ASSUME NEW d \in Commands, Outdated(d), d \notin receipts, d \in receipts'
      PROVE  FALSE
  <2>1. d = c /\ Current(c)
    BY <1>1 DEF Process, Accepts, Apply, StoreReceipt
  <2>2. PICK e \in Rows(d) : server[e].ver > BuiltOn(d, e).ver
    BY <1>1 DEF Outdated
  <2>3. server[e].ver = BuiltOn(d, e).ver /\ server[e].ver \in Nat
    BY <2>1, <2>2, RowsEntities, VersionNat DEF Current, BuiltOn
  <2> QED BY <2>2, <2>3
<1> QED BY <1>1 DEF StillRefuses

LEMMA StillCommands ==
  ASSUME TypeOK, TypeOK', QueueOK, CommandsOK, Grown, UNCHANGED <<outbox, command, sent>>,
         binding' = binding \/ binding.version < binding'.version, StillRefuses
  PROVE  CommandsOK'
<1>1. Moves /\ Queued' = Queued
  BY StillMoves DEF Queued
<1>2. SentOK' /\ LeadsItsRows'
  BY <1>1, SentKept DEF CommandsOK
<1>3. SupersededOK' /\ ConflictOK'
  <2>1. \A d \in Commands : Order(d)' = Order(d) /\ outbox'[d] = outbox[d]
    BY DEF Order
  <2>2. \A c, d \in Commands :
          c[1] = d[1] /\ c[2] < d[2] /\ Order(d)' > 0 =>
            Order(d) > 0 \/ (Order(c) > 0 /\ c \notin receipts /\ Outdated(c))
    BY <2>1
  <2>3. \A c \in Commands : outbox'[c] = "CONFLICT" =>
          outbox[c] = "CONFLICT" \/ (Order(c) > 0 /\ c \notin receipts /\ Outdated(c))
    BY <2>1
  <2>4. \A c \in Commands : Outdated(c) /\ c \notin receipts => c \notin receipts'
    BY DEF StillRefuses
  <2>5. SentOK /\ SupersededOK /\ ConflictOK /\ Moves
    BY <1>1 DEF CommandsOK
  <2> HIDE DEF Order, Outdated
  <2> QED BY ONLY TypeOK, TypeOK', <2>2, <2>3, <2>4, <2>5, SettledKept
<1>4. GuardOK'
  BY <1>1, GuardKept DEF CommandsOK, Pending
<1> QED BY <1>2, <1>3, <1>4 DEF CommandsOK

-----------------------------------------------------------------------------
(* Steps that move a command through the Outbox. *)

\* What a tab may send leads its rows, and is safe to send.
LEMMA SendableLeads ==
  ASSUME TypeOK, QueueOK, GuardOK, NEW t \in Tabs, TurnsOK(t),
         NEW c \in Commands, Sendable(t, c), plan[t][c] = "READY", outbox[c] = "PENDING"
  PROVE  Leads(c) /\ Order(c) > 0 /\ \A e \in Rows(c) : Safe(c, e)
<1>1. c \in Queued /\ Order(c) > 0 /\ First(c, Planned(t)) /\ Rows(c) \cap blocked[t] = {}
  BY DEF Queued, QueueOK, Sendable, Order
<1>2. TurnOK(t, c)
  BY DEF TurnsOK
<1>3. ASSUME NEW e \in Rows(c), NEW d \in Pending(e) \ {c}
      PROVE  Order(c) < Order(d)
  <2>1. d \in Queued /\ d \in Commands /\ e \in Entities
    BY <1>3, PendingIn, RowsEntities
  <2>2. Order(c) # Order(d) /\ Order(c) \in Nat /\ Order(d) \in Nat
    BY <1>1, <1>3, <2>1, OrdersNat DEF QueueOK, DistinctOrders, Order
  <2>3. ASSUME Order(d) < Order(c) PROVE FALSE
    <3>1. PICK g \in Planned(t) : Order(g) < Order(c)
      BY <1>1, <1>2, <1>3, <2>3 DEF TurnOK
    <3>2. g \in Commands /\ Order(g) \in Nat /\ Order(c) <= Order(g)
      BY <1>1, <3>1, OrdersNat DEF Planned, First, Order
    <3> QED BY <2>2, <3>1, <3>2
  <2> QED BY <2>2, <2>3
<1>4. ASSUME NEW e \in Rows(c) PROVE Safe(c, e)
  <2>1. ASSUME NEW g \in Pending(e) \ {c}, Order(g) < Order(c) PROVE FALSE
    <3>1. g \in Commands /\ Order(c) < Order(g)
      BY <1>3, <2>1, RowsEntities, PendingIn
    <3> QED BY <2>1, <3>1, OrdersNat
  <2> QED BY <1>1, <2>1 DEF GuardOK, Guarded
<1> QED BY <1>1, <1>3, <1>4 DEF Leads

LEMMA ClaimCommands ==
  ASSUME TypeOK, TypeOK', QueueOK, CommandsOK, NEW t \in Tabs, TurnsOK(t),
         NEW c \in Commands, Sendable(t, c), plan[t][c] = "READY", outbox[c] = "PENDING",
         Claim(c), sent' = sent \cup {c},
         UNCHANGED <<row, base, command, binding, server, changes, receipts>>
  PROVE  Moves /\ CommandsOK'
<1>1. Leads(c) /\ Order(c) > 0 /\ \A e \in Rows(c) : Safe(c, e)
  BY SendableLeads DEF CommandsOK
<1>2. \A x \in Commands : outbox'[x] = IF x = c THEN "SENDING" ELSE outbox[x]
  BY DEF Claim, TypeOK, LocalOK
<1>3. Queued' = Queued /\ \A e \in Entities : Pending(e)' = Pending(e)
  BY <1>2 DEF Queued, Pending
<1>4. Moves
  <2>1. Grown
    BY SameGrown
  <2>2. CommandsKept /\ QueueMoves /\ RowsMove
    BY <1>2, <1>3, RowsEntities DEF CommandsKept, QueueMoves, RowsMove, Queued
  <2> QED BY <2>1, <2>2 DEF Moves
<1>5. /\ \A x \in Commands : Order(x)' = Order(x) /\ Outdated(x)' = Outdated(x)
      /\ \A x \in Commands : \A e \in Rows(x) :
           Safe(x, e)' = Safe(x, e) /\ Guarded(x, e)' = Guarded(x, e)
      /\ \A x \in Commands : Leads(x)' = Leads(x)
  <2>1. \A x \in Commands : Order(x)' = Order(x) /\ Outdated(x)' = Outdated(x)
    BY DEF Order, Outdated, BuiltOn
  <2>2. \A x \in Commands, e \in Entities : Safe(x, e)' = Safe(x, e)
    BY DEF Safe, BuiltOn, Held
  <2>3. \A x \in Commands, e \in Entities : Guarded(x, e)' = Guarded(x, e)
    BY <1>3, <2>2 DEF Guarded, Order, Settles, BuiltOn
  <2>4. \A x \in Commands : Leads(x)' = Leads(x)
    BY <1>3, RowsEntities DEF Leads, Order
  <2> QED BY <2>1, <2>2, <2>3, <2>4, RowsEntities
<1>6. SentOK'
  <2>1. \A x \in sent' : x \in Commands
    BY DEF TypeOK, RemoteOK
  <2> QED BY <1>1, <1>2, <1>5, <2>1 DEF CommandsOK, SentOK
<1>7. LeadsItsRows'
  BY <1>1, <1>3, <1>5 DEF CommandsOK, LeadsItsRows, TypeOK, RemoteOK
<1>8. SupersededOK' /\ ConflictOK'
  BY <1>2, <1>5 DEF CommandsOK, SupersededOK, ConflictOK
<1>9. GuardOK'
  BY <1>3, <1>5 DEF CommandsOK, GuardOK, Queued
<1> QED BY <1>4, <1>6, <1>7, <1>8, <1>9 DEF CommandsOK

\* A refused command stays where it is, in conflict.
LEMMA RefusedCommands ==
  ASSUME TypeOK, TypeOK', QueueOK, CommandsOK, NEW c \in Commands, outbox[c] = "SENDING",
         c \notin receipts, Outdated(c), MarkConflict(c),
         UNCHANGED <<row, base, command, binding, server, changes, receipts, sent>>
  PROVE  Moves /\ CommandsOK'
<1>1. \A x \in Commands : outbox'[x] = IF x = c THEN "CONFLICT" ELSE outbox[x]
  BY DEF MarkConflict, TypeOK, LocalOK
<1>2. Queued' = Queued /\ \A e \in Entities : Pending(e)' = Pending(e)
  BY <1>1 DEF Queued, Pending
<1>3. Moves
  <2>1. Grown
    BY SameGrown
  <2>2. CommandsKept /\ QueueMoves /\ RowsMove
    BY <1>1, <1>2, RowsEntities DEF CommandsKept, QueueMoves, RowsMove, Queued
  <2> QED BY <2>1, <2>2 DEF Moves
<1>4. Order(c) > 0
  BY DEF CommandsOK, SentOK
<1>5. SentOK' /\ LeadsItsRows'
  BY <1>1, <1>3, SentKept DEF CommandsOK
<1>6. SupersededOK' /\ ConflictOK'
  <2>1. \A x, y \in Commands :
          x[1] = y[1] /\ x[2] < y[2] /\ Order(y)' > 0 =>
            Order(y) > 0 \/ (Order(x) > 0 /\ x \notin receipts /\ Outdated(x))
    BY DEF Order
  <2>2. \A x \in Commands : outbox'[x] = "CONFLICT" =>
          outbox[x] = "CONFLICT" \/ (Order(x) > 0 /\ x \notin receipts /\ Outdated(x))
    BY <1>1, <1>4
  <2>3. \A x \in Commands : Outdated(x) /\ x \notin receipts => x \notin receipts'
    OBVIOUS
  <2>4. SentOK /\ SupersededOK /\ ConflictOK /\ Moves
    BY <1>3 DEF CommandsOK
  <2> HIDE DEF Order, Outdated
  <2> QED BY ONLY TypeOK, TypeOK', <2>1, <2>2, <2>3, <2>4, SettledKept
<1>7. GuardOK'
  BY <1>2, <1>3, GuardKept, PendingIn, RowsEntities DEF CommandsOK, Queued
<1> QED BY <1>3, <1>5, <1>6, <1>7 DEF CommandsOK

\* An applied command leaves the Outbox, and what waited for it is safe.
LEMMA AcknowledgedCommands ==
  ASSUME TypeOK, TypeOK', QueueOK, ServerOK, CommandsOK, NEW c \in Queued, c \in receipts,
         outbox' = [outbox EXCEPT ![c] = "ABSENT"], binding.version < binding'.version,
         UNCHANGED <<command, server, changes, receipts, sent>>
  PROVE  Moves /\ CommandsOK'
<1>0. c \in Commands /\ c \in sent
  BY DEF Queued, ServerOK, AppliedOK
<1>1. \A x \in Commands : outbox'[x] = IF x = c THEN "ABSENT" ELSE outbox[x]
  BY DEF TypeOK, LocalOK
<1>2. Queued' = Queued \ {c} /\ \A e \in Entities : Pending(e)' = Pending(e) \ {c}
  BY <1>1 DEF Queued, Pending
<1>3. \A x \in sent \cap Queued \cap Queued' : \A e \in Rows(x) : c \notin Pending(e)
  <2> SUFFICES ASSUME NEW x \in sent \cap Queued \cap Queued', NEW e \in Rows(x),
                      c \in Pending(e)
               PROVE  FALSE
    OBVIOUS
  <2>1. x \in Commands /\ e \in Entities /\ x # c
    BY <1>2, RowsEntities DEF Queued
  <2>2. x \in Pending(e) /\ e \in Rows(c)
    BY <2>1, PendingIn
  <2>3. Order(x) < Order(c) /\ Order(c) < Order(x)
    BY <1>0, <2>1, <2>2 DEF CommandsOK, LeadsItsRows, Leads
  <2> QED BY <1>0, <2>1, <2>3, OrdersNat
<1>4. Moves
  <2>1. Grown
    BY SameGrown
  <2>2. CommandsKept /\ QueueMoves
    BY <1>1, <1>2 DEF CommandsKept, QueueMoves
  <2>3. RowsMove
    BY <1>2, <1>3, RowsEntities DEF RowsMove, Queued
  <2> QED BY <2>1, <2>2, <2>3 DEF Moves
<1>5. SentOK' /\ LeadsItsRows'
  BY <1>1, <1>4, SentKept DEF CommandsOK
<1>6. SupersededOK' /\ ConflictOK'
  <2>1. \A x, y \in Commands :
          x[1] = y[1] /\ x[2] < y[2] /\ Order(y)' > 0 =>
            Order(y) > 0 \/ (Order(x) > 0 /\ x \notin receipts /\ Outdated(x))
    BY DEF Order
  <2>2. \A x \in Commands : outbox'[x] = "CONFLICT" =>
          outbox[x] = "CONFLICT" \/ (Order(x) > 0 /\ x \notin receipts /\ Outdated(x))
    BY <1>1
  <2>3. \A x \in Commands : Outdated(x) /\ x \notin receipts => x \notin receipts'
    OBVIOUS
  <2>4. SentOK /\ SupersededOK /\ ConflictOK /\ Moves
    BY <1>4 DEF CommandsOK
  <2> HIDE DEF Order, Outdated
  <2> QED BY ONLY TypeOK, TypeOK', <2>1, <2>2, <2>3, <2>4, SettledKept
<1>7. GuardOK'
  <2>1. ASSUME NEW x \in Queued' \cap Queued, NEW e \in Rows(x), NEW g \in Pending(e) \ {x},
               g \notin Queued', Settles(g, x, e)
        PROVE  Safe(x, e)
    <3>1. x \in Commands /\ e \in Entities
      BY RowsEntities DEF Queued
    <3>2. g = c /\ e \in Rows(g)
      BY <1>2, <2>1, <3>1, PendingIn
    <3> QED BY <2>1, <3>1, <3>2, SettledSafe DEF ServerOK
  <2> QED BY <1>2, <1>4, <2>1, GuardKept DEF CommandsOK
<1> QED BY <1>4, <1>5, <1>6, <1>7 DEF CommandsOK

\* A new edit joins the Outbox behind all others.
LEMMA JoinedCommands ==
  ASSUME TypeOK, TypeOK', QueueOK, OriginOK, ServerOK, CommandsOK, ReplicaOK,
         NEW i \in Intents, CommitLocalCommand(i)
  PROVE  Moves /\ CommandsOK'
<1> DEFINE c == <<i, 0>>
<1>1. c \in Commands /\ c[1] = i /\ c[2] = 0 /\ Order(c) = 0
  BY BoundsAssumption DEF Commands, CommitLocalCommand, Order
<1>2. \A x \in Commands : x[1] = i => Order(x) = 0
  BY <1>1, OrdersNat DEF OriginOK, Order
<1>3. /\ command'[c] = [base |-> [e \in Entities |-> IF e \in Rows(c) THEN row[e] ELSE Unseen],
                        order |-> revision + 1]
      /\ \A x \in Commands \ {c} : command'[x] = command[x]
      /\ \A x \in Commands : outbox'[x] = IF x = c THEN "PENDING" ELSE outbox[x]
  BY <1>1 DEF CommitLocalCommand, TypeOK, LocalOK
<1>4. UNCHANGED <<base, binding, server, changes, receipts, sent>>
  BY DEF CommitLocalCommand, remote
<1> HIDE DEF c
<1>5. /\ Order(c)' = revision + 1 /\ \A x \in Commands \ {c} : Order(x)' = Order(x)
      /\ \A e \in Rows(c) : BuiltOn(c, e)' = row[e]
  BY <1>1, <1>3, RowsEntities DEF Order, BuiltOn
<1>6. c \notin Queued /\ c \notin sent /\ c \notin receipts
  BY <1>1, OrdersNat DEF QueueOK, CommandsOK, SentOK, ServerOK, AppliedOK, Order
<1>7. /\ Queued' = Queued \cup {c}
      /\ \A e \in Entities :
           Pending(e)' = Pending(e) \cup (IF e \in Rows(c) THEN {c} ELSE {})
  BY <1>1, <1>3 DEF Queued, Pending
<1>8. Moves
  <2>1. Grown
    BY <1>4, SameGrown
  <2>2. CommandsKept
    BY <1>1, <1>3, OrdersNat DEF CommandsKept
  <2>3. QueueMoves
    <3>1. revision \in Nat
      BY DEF TypeOK, LocalOK
    <3> QED BY <1>1, <1>3, <1>5, <1>7, <3>1 DEF QueueMoves, Queued
  <2>4. RowsMove
    BY <1>4, <1>7, RowsEntities DEF RowsMove, Queued
  <2> QED BY <2>1, <2>2, <2>3, <2>4 DEF Moves
<1>9. SentOK' /\ LeadsItsRows'
  BY <1>3, <1>4, <1>8, SentKept DEF CommandsOK
<1>10. SupersededOK' /\ ConflictOK'
  <2>1. \A x, y \in Commands :
          x[1] = y[1] /\ x[2] < y[2] /\ Order(y)' > 0 =>
            Order(y) > 0 \/ (Order(x) > 0 /\ x \notin receipts /\ Outdated(x))
    <3>1. \A x \in Commands : ~ (x[2] < 0)
      BY BoundsAssumption DEF Commands
    <3> QED BY <1>1, <1>5, <3>1
  <2>2. \A x \in Commands : outbox'[x] = "CONFLICT" =>
          outbox[x] = "CONFLICT" \/ (Order(x) > 0 /\ x \notin receipts /\ Outdated(x))
    BY <1>3
  <2>3. \A x \in Commands : Outdated(x) /\ x \notin receipts => x \notin receipts'
    BY <1>4
  <2>4. SentOK /\ SupersededOK /\ ConflictOK /\ Moves
    BY <1>8 DEF CommandsOK
  <2> HIDE DEF Order, Outdated
  <2> QED BY ONLY TypeOK, TypeOK', <2>1, <2>2, <2>3, <2>4, SettledKept
<1>11. GuardOK'
  <2>1. ASSUME NEW e \in Rows(c) PROVE Guarded(c, e)'
    <3>1. e \in Entities /\ row[e] \in Versions /\ base[e] \in Versions /\ base[e].ver \in Nat
      BY <1>1, RowsEntities, VersionNat DEF TypeOK, LocalOK
    <3>2. CASE Pending(e) = {}
      <4>1. row[e] = base[e]
        BY <3>1, <3>2 DEF ReplicaOK, RowsOK
      <4>2. base[e].ver = 0 \/ Held(e, base[e])
        BY <3>1 DEF ReplicaOK, BasesOK
      <4>3. BuiltOn(c, e)' = base[e]
        BY <1>5, <2>1, <4>1
      <4>4. Held(e, base[e]) => Held(e, BuiltOn(c, e))'
        BY <1>4, <4>3 DEF Held
      <4>5. Safe(c, e)'
        BY <4>2, <4>3, <4>4 DEF Safe
      <4> QED BY <4>5 DEF Guarded
    <3>3. CASE Pending(e) # {}
      <4>1. PICK g \in Pending(e) : g = row[e].by /\ row[e].ver = BuiltOn(g, e).ver + 1
        BY <3>1, <3>3 DEF ReplicaOK, RowsOK, Latest
      <4>2. g \in Commands /\ g \in Queued /\ e \in Rows(g) /\ g # c
        BY <1>6, <3>1, <4>1, PendingIn
      <4>3. row[e] = [ver |-> BuiltOn(g, e).ver + 1, by |-> g]
        BY <3>1, <4>1 DEF Versions
      <4>4. BuiltOn(g, e)' = BuiltOn(g, e) /\ Order(g)' = Order(g)
        BY <1>3, <4>2 DEF BuiltOn, Order
      <4>5. Order(g) <= revision /\ Order(g) \in Nat /\ revision \in Nat
        BY <4>2, OrdersNat DEF QueueOK, Order, TypeOK, LocalOK
      <4>6. Order(g)' < Order(c)'
        BY <1>5, <4>4, <4>5
      <4>7. Settles(g, c, e)'
        BY <1>5, <2>1, <4>3, <4>4 DEF Settles
      <4>8. g \in Pending(e)' \ {c}
        BY <1>7, <3>1, <4>1, <4>2
      <4> QED BY <4>6, <4>7, <4>8 DEF Guarded
    <3> QED BY <3>2, <3>3
  <2> QED BY <1>7, <1>8, <2>1, GuardKept, PendingIn, RowsEntities DEF CommandsOK, Queued
<1> QED BY <1>8, <1>9, <1>10, <1>11 DEF CommandsOK

\* What a rebase and a review have in common: a command that the server will
\* never apply, before all other edits of its only row.
Replacing(c, e) ==
  /\ c \in Queued /\ c \notin receipts
  /\ Replaceable(c, e)
  /\ \A x \in Pending(e) \ {c} : Order(c) < Order(x)
  /\ Latest(e, row[e].by)
  /\ Replace(c, e, Pending(e) \ {c})

LEMMA ReplacedQueue ==
  ASSUME TypeOK, TypeOK', QueueOK, ServerOK, CommandsOK, NEW c, NEW e \in Entities,
         Replacing(c, e), NEW d, d = <<c[1], c[2] + 1>>,
         UNCHANGED <<server, changes, receipts, sent>>
  PROVE  /\ c \in Commands /\ d \in Commands /\ d # c /\ d[1] = c[1] /\ d[2] = c[2] + 1
         /\ Order(c) > 0 /\ Order(d) = 0 /\ d \notin Queued /\ d \notin sent
         /\ Rows(c) = {e} /\ Rows(d) = {e}
         /\ Queued' = (Queued \ {c}) \cup {d}
         /\ \A x \in Entities \ {e} : Pending(x)' = Pending(x)
         /\ Pending(e)' = (Pending(e) \ {c}) \cup {d} /\ c \in Pending(e)
         /\ \A x \in Commands \ {d} : command'[x] = command[x]
         /\ Order(d)' = IF Pending(e) \ {c} = {} THEN revision + 1 ELSE Order(c)
         /\ BuiltOn(d, e)' = base[e] /\ base[e].ver > BuiltOn(c, e).ver
         /\ \A x \in Commands : outbox'[x] =
              CASE x = c -> "ABSENT" [] x = d -> "PENDING" [] OTHER -> outbox[x]
<1>1. c \in Commands /\ c \in Queued /\ Rows(c) = {e} /\ c[2] < MaxReplace
  BY DEF Replacing, Replaceable, Queued
<1>2. d \in Commands /\ d[1] = c[1] /\ d[2] = c[2] + 1 /\ d[2] > c[2] /\ d # c
  BY <1>1, BoundsAssumption DEF Commands
<1>3. Order(c) > 0 /\ Order(d) = 0
  BY <1>1, <1>2 DEF QueueOK, Order
<1>4. d \notin Queued /\ d \notin sent
  BY <1>2, <1>3, OrdersNat DEF QueueOK, CommandsOK, SentOK, Order
<1>5. Rows(d) = {e}
  BY <1>1, <1>2 DEF Rows
<1>6. \A x \in Commands : outbox'[x] =
        CASE x = c -> "ABSENT" [] x = d -> "PENDING" [] OTHER -> outbox[x]
  BY <1>1, <1>2 DEF Replacing, Replace, TypeOK, LocalOK
<1>7. Queued' = (Queued \ {c}) \cup {d}
  BY <1>1, <1>2, <1>6 DEF Queued
<1>8. /\ \A x \in Entities \ {e} : Pending(x)' = Pending(x)
      /\ Pending(e)' = (Pending(e) \ {c}) \cup {d} /\ c \in Pending(e)
  BY <1>1, <1>5, <1>7 DEF Pending
<1>9. /\ command' = [command EXCEPT ![d] =
           [base |-> [x \in Entities |-> IF x = e THEN base[e] ELSE Unseen],
            order |-> ReplacementOrder(c, Pending(e) \ {c})]]
  BY DEF Replacing, Replace
<1>10. /\ command'[d] = [base |-> [x \in Entities |-> IF x = e THEN base[e] ELSE Unseen],
                         order |-> ReplacementOrder(c, Pending(e) \ {c})]
       /\ \A x \in Commands \ {d} : command'[x] = command[x]
  BY <1>2, <1>9 DEF TypeOK, LocalOK
<1>11. Order(d)' = IF Pending(e) \ {c} = {} THEN revision + 1 ELSE Order(c)
  BY <1>10 DEF Order, ReplacementOrder
<1>12. BuiltOn(d, e)' = base[e] /\ base[e].ver > BuiltOn(c, e).ver
  BY <1>10 DEF BuiltOn, Replacing, Replaceable
<1> QED BY <1>1, <1>2, <1>3, <1>4, <1>5, <1>6, <1>7, <1>8, <1>10, <1>11, <1>12

LEMMA ReplacedMoves ==
  ASSUME TypeOK, TypeOK', QueueOK, ServerOK, CommandsOK, NEW c, NEW e \in Entities,
         Replacing(c, e), UNCHANGED <<binding, server, changes, receipts, sent>>
  PROVE  Moves
<1> DEFINE d == <<c[1], c[2] + 1>>
<1>1. /\ c \in Commands /\ d \in Commands /\ d # c
      /\ Order(c) > 0 /\ Order(d) = 0 /\ d \notin Queued
      /\ Rows(c) = {e} /\ Rows(d) = {e}
      /\ Queued' = (Queued \ {c}) \cup {d}
      /\ \A x \in Entities \ {e} : Pending(x)' = Pending(x)
      /\ Pending(e)' = (Pending(e) \ {c}) \cup {d} /\ c \in Pending(e)
      /\ \A x \in Commands \ {d} : command'[x] = command[x]
      /\ Order(d)' = IF Pending(e) \ {c} = {} THEN revision + 1 ELSE Order(c)
      /\ \A x \in Commands : outbox'[x] =
           CASE x = c -> "ABSENT" [] x = d -> "PENDING" [] OTHER -> outbox[x]
  BY ReplacedQueue
<1> HIDE DEF d
<1>2. Grown
  BY SameGrown
<1>3. CommandsKept
  BY <1>1, OrdersNat DEF CommandsKept
<1>4. QueueMoves
  <2>1. \A x \in Commands : Order(x) > 0 =>
          /\ x \in Queued' => x \in Queued
          /\ outbox'[x] = "PENDING" => outbox[x] = "PENDING"
    BY <1>1, OrdersNat
  <2>2. ASSUME NEW x \in Entities, NEW p \in Pending(x)'
        PROVE  \/ p \in Pending(x)
               \/ Order(p)' > revision
               \/ \E g \in Pending(x) \ Pending(x)' : Order(g) = Order(p)'
    <3>1. CASE x = e /\ p = d
      <4>1. revision \in Nat
        BY DEF TypeOK, LocalOK
      <4>2. Pending(e) \ {c} = {} => Order(d)' > revision
        BY <1>1, <4>1
      <4>3. c \in Pending(e) \ Pending(e)'
        BY <1>1
      <4> QED BY <1>1, <3>1, <4>2, <4>3
    <3> QED BY <1>1, <2>2, <3>1
  <2> QED BY <2>1, <2>2 DEF QueueMoves
<1>5. RowsMove
  <2>1. \A x \in Entities : Pending(x) # {} => Pending(x)' # {}
    BY <1>1
  <2>2. ASSUME NEW p \in sent \cap Queued \cap Queued', NEW x \in Rows(p), Pending(x) \ {p} # {}
        PROVE  Pending(x)' \ {p} # {}
    <3>1. x \in Entities /\ p # d
      BY <1>1, <2>2, RowsEntities DEF Queued
    <3> QED BY <1>1, <2>2, <3>1
  <2> QED BY <2>1, <2>2 DEF RowsMove
<1> QED BY <1>2, <1>3, <1>4, <1>5 DEF Moves

LEMMA ReplacedCommands ==
  ASSUME TypeOK, TypeOK', QueueOK, ServerOK, CommandsOK, ReplicaOK, NEW c, NEW e \in Entities,
         Replacing(c, e), UNCHANGED <<base, binding, server, changes, receipts, sent>>
  PROVE  CommandsOK'
<1> DEFINE d == <<c[1], c[2] + 1>>
<1>1. /\ c \in Commands /\ d \in Commands /\ d # c /\ d[1] = c[1] /\ d[2] = c[2] + 1
      /\ Order(c) > 0 /\ Order(d) = 0 /\ d \notin Queued
      /\ Rows(c) = {e} /\ Rows(d) = {e}
      /\ Queued' = (Queued \ {c}) \cup {d}
      /\ \A x \in Entities \ {e} : Pending(x)' = Pending(x)
      /\ Pending(e)' = (Pending(e) \ {c}) \cup {d} /\ c \in Pending(e)
      /\ \A x \in Commands \ {d} : command'[x] = command[x]
      /\ Order(d)' = IF Pending(e) \ {c} = {} THEN revision + 1 ELSE Order(c)
      /\ BuiltOn(d, e)' = base[e] /\ base[e].ver > BuiltOn(c, e).ver
      /\ \A x \in Commands : outbox'[x] =
           CASE x = c -> "ABSENT" [] x = d -> "PENDING" [] OTHER -> outbox[x]
  BY ReplacedQueue
<1> HIDE DEF d
<1>2. Moves
  BY ReplacedMoves
<1>3. base[e].ver \in Nat /\ base[e].ver > 0 /\ server[e].ver \in Nat
      /\ BuiltOn(c, e).ver \in Nat /\ Held(e, base[e]) /\ base[e].ver <= server[e].ver
  <2>1. base[e].ver \in Nat /\ server[e].ver \in Nat /\ BuiltOn(c, e).ver \in Nat
    BY <1>1, VersionNat
  <2>2. base[e].ver > 0
    BY <1>1, <2>1
  <2>3. Held(e, base[e])
    BY <2>2 DEF ReplicaOK, BasesOK
  <2> QED BY <2>1, <2>2, <2>3, HeldBelow DEF ServerOK
<1>4. Outdated(c) /\ c \notin receipts
  BY <1>1, <1>3 DEF Outdated, Replacing
<1>5. SentOK' /\ LeadsItsRows'
  BY <1>1, <1>2, SentKept DEF CommandsOK
<1>6. SupersededOK' /\ ConflictOK'
  <2>1. ASSUME NEW x \in Commands, NEW y \in Commands, x[1] = y[1], x[2] < y[2], Order(y)' > 0
        PROVE  Order(y) > 0 \/ (Order(x) > 0 /\ x \notin receipts /\ Outdated(x))
    <3>1. CASE y # d
      BY <1>1, <2>1, <3>1 DEF Order
    <3>2. CASE y = d
      <4>1. x[2] \in Nat /\ c[2] \in Nat /\ x = <<x[1], x[2]>> /\ c = <<c[1], c[2]>>
        BY <1>1, BoundsAssumption DEF Commands
      <4>2. x[2] < c[2] \/ x[2] = c[2]
        BY <1>1, <2>1, <3>2, <4>1
      <4>3. CASE x[2] < c[2]
        BY <1>1, <2>1, <3>2, <4>3 DEF CommandsOK, SupersededOK
      <4>4. CASE x[2] = c[2]
        <5>1. x = c
          BY <1>1, <2>1, <3>2, <4>1, <4>4
        <5> QED BY <1>1, <1>4, <5>1
      <4> QED BY <4>2, <4>3, <4>4
    <3> QED BY <3>1, <3>2
  <2>2. \A x \in Commands : outbox'[x] = "CONFLICT" =>
          outbox[x] = "CONFLICT" \/ (Order(x) > 0 /\ x \notin receipts /\ Outdated(x))
    BY <1>1
  <2>3. \A x \in Commands : Outdated(x) /\ x \notin receipts => x \notin receipts'
    OBVIOUS
  <2>4. SentOK /\ SupersededOK /\ ConflictOK /\ Moves
    BY <1>2 DEF CommandsOK
  <2>5. \A x, y \in Commands :
          x[1] = y[1] /\ x[2] < y[2] /\ Order(y)' > 0 =>
            Order(y) > 0 \/ (Order(x) > 0 /\ x \notin receipts /\ Outdated(x))
    BY <2>1
  <2> HIDE DEF Order, Outdated
  <2> QED BY ONLY TypeOK, TypeOK', <2>2, <2>3, <2>4, <2>5, SettledKept
<1>7. GuardOK'
  <2>1. ASSUME NEW x \in Queued' \ Queued, NEW f \in Rows(x) PROVE Guarded(x, f)'
    <3>1. x = d /\ f = e
      BY <1>1, <2>1
    <3>2. Held(e, BuiltOn(d, e))'
      BY <1>1, <1>3 DEF Held
    <3> QED BY <3>1, <3>2 DEF Guarded, Safe
  <2>2. ASSUME NEW x \in Queued' \cap Queued, NEW f \in Rows(x), NEW g \in Pending(f) \ {x},
               g \notin Queued', Order(g) < Order(x), Settles(g, x, f)
        PROVE  Safe(x, f) \/ Guarded(x, f)'
    <3>1. x \in Commands /\ f \in Entities /\ x # d
      BY <1>1, <2>2, RowsEntities DEF Queued
    <3>2. g = c /\ f = e /\ x # c
      BY <1>1, <2>2, <3>1, PendingIn
    <3>3. BuiltOn(x, e)' = BuiltOn(x, e) /\ Order(x)' = Order(x) /\ BuiltOn(x, e).ver \in Nat
      BY <1>1, <3>1, VersionNat DEF BuiltOn, Order
    <3>4. x \in Pending(e) \ {c}
      BY <2>2, <3>2, PendingIn
    <3>5. Order(d)' < Order(x)'
      BY <1>1, <2>2, <3>2, <3>3, <3>4
    <3>6. base[e].ver >= BuiltOn(x, e).ver
      <4>1. CASE BuiltOn(x, e) = [ver |-> BuiltOn(c, e).ver + 1, by |-> c]
        <5>1. BuiltOn(x, e).ver = BuiltOn(c, e).ver + 1
          BY <4>1
        <5> QED BY <1>1, <1>3, <5>1
      <4>2. CASE BuiltOn(c, e).ver >= BuiltOn(x, e).ver
        BY <1>1, <1>3, <3>3, <4>2
      <4> QED BY <2>2, <3>2, <4>1, <4>2 DEF Settles
    <3>7. Settles(d, x, e)'
      BY <1>1, <3>3, <3>6 DEF Settles
    <3> QED BY <1>1, <3>1, <3>2, <3>5, <3>7 DEF Guarded
  <2> QED BY <1>2, <2>1, <2>2, GuardKept DEF CommandsOK
<1> QED BY <1>5, <1>6, <1>7 DEF CommandsOK

\* A rebase and a review both replace so.
LEMMA RebaseReplaces ==
  ASSUME TypeOK, ServerOK, CommandsOK, NEW t \in Tabs, NEW c \in Commands, NEW e \in Entities,
         Rebasable(t, c, e), Replace(c, e, {})
  PROVE  Replacing(c, e)
<1>1. c \in Queued /\ Pending(e) = {c} /\ row[e].by = c /\ outbox[c] = "PENDING"
  BY DEF Rebasable, NeverSent, Queued
<1>2. c \notin receipts
  BY <1>1 DEF ServerOK, AppliedOK, CommandsOK, SentOK
<1>3. Latest(e, row[e].by)
  BY <1>1, OrdersNat DEF Latest, Order
<1>4. Pending(e) \ {c} = {} /\ \A x \in Pending(e) \ {c} : Order(c) < Order(x)
  BY <1>1
<1> QED BY <1>1, <1>2, <1>3, <1>4 DEF Replacing, Rebasable

LEMMA ReviewReplaces ==
  ASSUME NEW c \in Commands, NEW e \in Entities, ReviewConflict(c, e), TypeOK
  PROVE  Replacing(c, e)
<1>1. \A x \in Pending(e) \ {c} : Order(c) < Order(x)
  <2>1. \A x \in Pending(e) : x \in Commands
    BY PendingIn
  <2>2. \A x \in Pending(e) \ {c} : command[x].order > command[c].order
    BY DEF ReviewConflict, Successors
  <2> QED BY <2>1, <2>2, OrdersNat DEF Order
<1>2. c \in Queued
  BY DEF ReviewConflict, Queued
<1> QED BY <1>1, <1>2 DEF Replacing, ReviewConflict

-----------------------------------------------------------------------------
(* The replica: the cursor, the bases and the rows shown. *)

\* Steps that leave the replica alone.
LEMMA SameReplica ==
  ASSUME TypeOK, TypeOK', ReplicaOK, Grown, UNCHANGED <<row, base, command, binding>>,
         Queued' = Queued
  PROVE  ReplicaOK'
<1>1. BasesOK'
  <2>1. binding'.cursor <= Len(changes')
    BY VersionNat DEF ReplicaOK, BasesOK, Grown, TypeOK, LocalOK, RemoteOK
  <2>2. \A k \in 1 .. binding.cursor : k \in DOMAIN changes
    BY VersionNat DEF ReplicaOK, BasesOK, TypeOK, LocalOK
  <2>3. \A k \in 1 .. binding'.cursor : base'[changes'[k].e].ver >= changes'[k].ver
    BY <2>2 DEF ReplicaOK, BasesOK, Grown
  <2>4. \A e \in Entities : base'[e].ver > 0 => Held(e, base[e])'
    BY HeldKept DEF ReplicaOK, BasesOK, Held, Grown
  <2> QED BY <2>1, <2>3, <2>4 DEF BasesOK
<1>2. RowsOK'
  BY DEF ReplicaOK, RowsOK, Pending, Latest, BuiltOn
<1> QED BY <1>1, <1>2 DEF ReplicaOK

\* Bases that stay as they are.
LEMMA SameBases ==
  ASSUME BasesOK, UNCHANGED <<base, binding, changes>>
  PROVE  BasesOK'
BY DEF BasesOK, Held

\* A row whose pending commands stay is still shown as it should be.
LEMMA SameRow ==
  ASSUME TypeOK, TypeOK', QueueOK, CommandsKept, NEW e \in Entities,
         Pending(e)' = Pending(e), row'[e] = row[e],
         Pending(e) # {} => Latest(e, row[e].by) /\ row[e].ver = BuiltOn(row[e].by, e).ver + 1,
         Pending(e) = {} => row[e] = base[e] /\ base'[e] = base[e]
  PROVE  IF Pending(e)' = {} THEN row'[e] = base'[e]
         ELSE Latest(e, row[e].by)' /\ row'[e].ver = BuiltOn(row[e].by, e)'.ver + 1
<1>1. \A x \in Pending(e) : command'[x] = command[x]
  BY PendingIn DEF QueueOK, CommandsKept, Order
<1> QED BY <1>1 DEF Latest, BuiltOn

LEMMA JoinedReplica ==
  ASSUME TypeOK, TypeOK', QueueOK, OriginOK, ReplicaOK, Moves,
         NEW i \in Intents, CommitLocalCommand(i)
  PROVE  ReplicaOK'
<1> DEFINE c == <<i, 0>>
<1>1. c \in Commands /\ command[c].order = 0
  BY BoundsAssumption DEF Commands, CommitLocalCommand
<1>2. /\ command'[c] = [base |-> [e \in Entities |-> IF e \in Rows(c) THEN row[e] ELSE Unseen],
                        order |-> revision + 1]
      /\ \A x \in Commands \ {c} : command'[x] = command[x]
      /\ \A x \in Commands : outbox'[x] = IF x = c THEN "PENDING" ELSE outbox[x]
      /\ \A e \in Entities :
           row'[e] = IF e \in Rows(c) THEN [ver |-> row[e].ver + 1, by |-> c] ELSE row[e]
  BY <1>1 DEF CommitLocalCommand, TypeOK, LocalOK
<1>3. UNCHANGED <<base, binding, changes>>
  BY DEF CommitLocalCommand, remote
<1> HIDE DEF c
<1>4. \A e \in Entities :
        Pending(e)' = Pending(e) \cup (IF e \in Rows(c) THEN {c} ELSE {})
  BY <1>1, <1>2 DEF Queued, Pending
<1>5. BasesOK'
  BY <1>3, SameBases DEF ReplicaOK
<1>6. ASSUME NEW e \in Entities
      PROVE  IF Pending(e)' = {} THEN row'[e] = base'[e]
             ELSE Latest(e, row[e].by)' /\ row'[e].ver = BuiltOn(row[e].by, e)'.ver + 1
  <2>1. CASE e \in Rows(c)
    <3>0. row'[e] = [ver |-> row[e].ver + 1, by |-> c]
      BY <1>2, <2>1
    <3>1. row'[e].by = c /\ row'[e].ver = row[e].ver + 1 /\ c \in Pending(e)'
      BY <1>4, <2>1, <3>0
    <3>2. BuiltOn(c, e)' = row[e] /\ command'[c].order = revision + 1
      BY <1>2, <2>1 DEF BuiltOn
    <3>3. ASSUME NEW x \in Pending(e)' PROVE command'[x].order <= command'[c].order
      <4>1. revision \in Nat
        BY DEF TypeOK, LocalOK
      <4>2. CASE x = c
        BY <3>2, <4>1, <4>2
      <4>3. CASE x # c
        <5>1. x \in Queued /\ x \in Commands
          BY <1>4, <3>3, <4>3, PendingIn
        <5>2. command'[x] = command[x] /\ command[x].order <= revision
              /\ command[x].order \in Nat
          BY <1>2, <4>3, <5>1 DEF QueueOK, TypeOK, LocalOK
        <5> QED BY <3>2, <4>1, <5>2
      <4> QED BY <4>2, <4>3
    <3>4. Latest(e, c)'
      BY <3>1, <3>3 DEF Latest
    <3>5. Latest(e, row[e].by)'
      BY <3>1, <3>4 DEF Latest
    <3>6. BuiltOn(row[e].by, e)'.ver = row[e].ver
      BY <3>1, <3>2 DEF BuiltOn
    <3> QED BY <3>1, <3>5, <3>6
  <2>2. CASE e \notin Rows(c)
    BY <1>2, <1>3, <1>4, <2>2, SameRow DEF ReplicaOK, RowsOK, Moves
  <2> QED BY <2>1, <2>2
<1> QED BY <1>5, <1>6 DEF ReplicaOK, RowsOK

LEMMA ReplacedReplica ==
  ASSUME TypeOK, TypeOK', QueueOK, ServerOK, CommandsOK, ReplicaOK, NEW c, NEW e \in Entities,
         Replacing(c, e), UNCHANGED <<server, changes, receipts, sent>>
  PROVE  ReplicaOK'
<1> DEFINE d == <<c[1], c[2] + 1>>
           F == Pending(e) \ {c}
<1>1. /\ c \in Commands /\ d \in Commands /\ d # c
      /\ Order(c) > 0 /\ Order(d) = 0 /\ d \notin Queued
      /\ \A x \in Entities \ {e} : Pending(x)' = Pending(x)
      /\ Pending(e)' = F \cup {d} /\ c \in Pending(e)
      /\ \A x \in Commands \ {d} : command'[x] = command[x]
      /\ Order(d)' = IF F = {} THEN revision + 1 ELSE Order(c)
      /\ BuiltOn(d, e)' = base[e]
  BY ReplacedQueue
<1>2. UNCHANGED <<base, binding>>
      /\ row' = IF F = {} THEN [row EXCEPT ![e] = [ver |-> base[e].ver + 1, by |-> d]] ELSE row
  BY DEF Replacing, Replace
<1>3. Moves
  BY <1>2, ReplacedMoves
<1> HIDE DEF d, F
<1>4. BasesOK'
  BY <1>2, SameBases DEF ReplicaOK
<1>5. ASSUME NEW x \in Entities \ {e}
      PROVE  IF Pending(x)' = {} THEN row'[x] = base'[x]
             ELSE Latest(x, row[x].by)' /\ row'[x].ver = BuiltOn(row[x].by, x)'.ver + 1
  <2>1. row'[x] = row[x]
    BY <1>2, <1>5 DEF TypeOK, LocalOK
  <2> QED BY <1>1, <1>2, <1>3, <2>1, SameRow DEF ReplicaOK, RowsOK, Moves
<1>6. Latest(e, row[e].by)' /\ row'[e].ver = BuiltOn(row[e].by, e)'.ver + 1
  <2>1. CASE F = {}
    <3>1. row'[e].by = d /\ row'[e].ver = base[e].ver + 1
      BY <1>2, <2>1 DEF TypeOK, LocalOK
    <3>2. command'[d].order \in Nat
      BY <1>1 DEF TypeOK, LocalOK
    <3>3. Pending(e)' = {d}
      BY <1>1, <2>1
    <3> QED BY <1>1, <3>1, <3>2, <3>3 DEF Latest, BuiltOn
  <2>2. CASE F # {}
    <3>1. PICK g \in Pending(e) : /\ g = row[e].by /\ Latest(e, g)
                                  /\ row[e].ver = BuiltOn(g, e).ver + 1
      BY <1>1 DEF ReplicaOK, RowsOK, Latest
    <3>2. \A x \in Pending(e) : x \in Commands /\ x \in Queued /\ x # d /\ Order(x) \in Nat
      BY <1>1, PendingIn, OrdersNat
    <3>3. g # c
      <4>1. PICK x \in F : Order(c) < Order(x)
        BY <2>2 DEF Replacing, F
      <4>2. Order(x) <= Order(g)
        BY <3>1, <4>1 DEF Latest, Order, F
      <4> QED BY <3>2, <4>1, <4>2 DEF F
    <3>4. g \in Pending(e)' /\ row' = row /\ Order(d)' = Order(c)
      BY <1>1, <1>2, <2>2, <3>1, <3>3 DEF F
    <3>5. \A x \in Pending(e) : Order(x)' = Order(x) /\ BuiltOn(x, e)' = BuiltOn(x, e)
      BY <1>1, <3>2 DEF Order, BuiltOn
    <3>6. ASSUME NEW x \in Pending(e)' PROVE Order(x)' <= Order(g)'
      <4>1. CASE x = d
        BY <1>1, <3>1, <3>4, <3>5, <4>1 DEF Latest, Order
      <4>2. CASE x # d
        BY <1>1, <3>1, <3>5, <3>6, <4>2 DEF Latest, Order, F
      <4> QED BY <4>1, <4>2
    <3>7. Latest(e, g)'
      BY <3>4, <3>6 DEF Latest, Order
    <3>8. Latest(e, row[e].by)'
      BY <3>1, <3>4, <3>7 DEF Latest
    <3>9. BuiltOn(row[e].by, e)' = BuiltOn(g, e)
      BY <3>1, <3>4, <3>5 DEF BuiltOn
    <3> QED BY <3>1, <3>4, <3>8, <3>9
  <2> QED BY <2>1, <2>2
<1>7. Pending(e)' # {}
  BY <1>1
<1> QED BY <1>4, <1>5, <1>6, <1>7 DEF ReplicaOK, RowsOK

\* A page is taken over from the cursor it was pulled at, and only for rows
\* without pending edits.
LEMMA PulledReplica ==
  ASSUME TypeOK, TypeOK', QueueOK, ReplicaOK, Moves,
         NEW t \in Tabs, PullCommit(t), PagesOK(t), OthersOK(t)
  PROVE  /\ ReplicaOK' /\ binding'.cursor >= binding.cursor
         /\ \A e \in Entities : base'[e].ver >= base[e].ver
<1> DEFINE p == page[t]
<1>1. /\ binding = scope[t] /\ pc[t] = "project"
      /\ binding' = [version |-> binding.version + 1, cursor |-> p.upTo]
      /\ LeavesPending(p.rows \ others[t], {})
      /\ UNCHANGED <<outbox, command, server, changes, receipts, sent>>
  BY DEF PullCommit, PullGuard, SameBinding, remote
<1>2. /\ p.rows \subseteq Entities /\ p.upTo \in Nat /\ binding'.cursor = p.upTo
      /\ \A e \in Entities : p.values[e].ver \in Nat /\ base[e].ver \in Nat
  BY <1>1, VersionNat DEF TypeOK, TabsOK, Versions
<1>3. /\ binding.cursor <= p.upTo /\ p.upTo <= Len(changes)
      /\ \A k \in (binding.cursor + 1) .. p.upTo : changes[k].e \in p.rows
      /\ \A k \in 1 .. p.upTo : p.values[changes[k].e].ver >= changes[k].ver
      /\ \A e \in Entities : p.values[e].ver > 0 => Held(e, p.values[e])
  BY <1>1 DEF PagesOK, PageOK
<1>4. \A e \in Entities : base'[e] = IF e \in p.rows THEN Newest(e, p.values[e]) ELSE base[e]
  BY DEF PullCommit
<1>5. \A e \in Entities : row'[e] = IF e \in p.rows \ others[t] THEN base'[e] ELSE row[e]
  BY <1>2 DEF PullCommit
<1> HIDE DEF p
<1>6. ASSUME NEW e \in Entities
      PROVE  /\ base'[e].ver >= base[e].ver
             /\ e \in p.rows => base'[e].ver >= p.values[e].ver
             /\ base'[e].ver > 0 => Held(e, base[e])'
  <2>1. \A x : Held(e, x) => Held(e, x)'
    BY <1>1 DEF Held
  <2>2. base[e].ver > 0 => Held(e, base[e])
    BY DEF ReplicaOK, BasesOK
  <2>3. base'[e] = base[e] \/ base'[e] = p.values[e]
    BY <1>4 DEF Newest
  <2>4. Held(e, base'[e]) => Held(e, base[e])'
    BY <1>1 DEF Held
  <2>5. base'[e].ver > 0 => Held(e, base'[e])
    BY <1>3, <2>2, <2>3
  <2>6. base'[e].ver >= base[e].ver /\ (e \in p.rows => base'[e].ver >= p.values[e].ver)
    BY <1>2, <1>4 DEF Newest
  <2> QED BY <2>4, <2>5, <2>6
<1>7. BasesOK'
  <2>1. ASSUME NEW k \in 1 .. p.upTo PROVE base'[changes[k].e].ver >= changes[k].ver
    <3>1. k \in DOMAIN changes /\ k \in Nat
      BY <1>2, <1>3, VersionNat
    <3>2. changes[k].e \in Entities /\ changes[k].ver \in Nat
      BY <3>1, VersionNat
    <3>3. base'[changes[k].e].ver \in Nat
      BY <3>2, VersionNat DEF TypeOK, LocalOK, Versions
    <3>4. CASE k <= binding.cursor
      <4>1. k \in 1 .. binding.cursor
        BY <1>2, <2>1, <3>4 DEF TypeOK, LocalOK
      <4>2. base[changes[k].e].ver >= changes[k].ver
        BY <4>1 DEF ReplicaOK, BasesOK
      <4> QED BY <1>2, <1>6, <3>2, <3>3, <4>2
    <3>5. CASE ~ (k <= binding.cursor)
      <4>1. k \in (binding.cursor + 1) .. p.upTo
        BY <1>2, <2>1, <3>5 DEF TypeOK, LocalOK
      <4>2. changes[k].e \in p.rows /\ p.values[changes[k].e].ver >= changes[k].ver
        BY <1>3, <2>1, <4>1
      <4> QED BY <1>2, <1>6, <3>2, <3>3, <4>2
    <3> QED BY <3>4, <3>5
  <2> QED BY <1>1, <1>2, <1>3, <1>6, <2>1 DEF BasesOK
<1>8. Queued' = Queued /\ \A e \in Entities : Pending(e)' = Pending(e)
  BY <1>1 DEF Queued, Pending
<1>9. RowsOK'
  <2> SUFFICES ASSUME NEW e \in Entities
               PROVE  IF Pending(e)' = {} THEN row'[e] = base'[e]
                      ELSE Latest(e, row[e].by)' /\ row'[e].ver = BuiltOn(row[e].by, e)'.ver + 1
    BY DEF RowsOK
  <2>1. CASE e \in p.rows \ others[t]
    <3>1. Pending(e) = {}
      BY <1>1, <2>1 DEF LeavesPending, p
    <3> QED BY <1>5, <1>8, <2>1, <3>1
  <2>2. CASE e \in p.rows /\ e \in others[t]
    <3>1. Pending(e) # {} /\ row'[e] = row[e]
      BY <1>1, <1>5, <2>2 DEF OthersOK
    <3> QED BY <1>8, <3>1, SameRow DEF ReplicaOK, RowsOK, Moves
  <2>3. CASE e \notin p.rows
    BY <1>4, <1>5, <1>8, <2>3, SameRow DEF ReplicaOK, RowsOK, Moves
  <2> QED BY <2>1, <2>2, <2>3
<1> QED BY <1>1, <1>2, <1>3, <1>6, <1>7, <1>9 DEF ReplicaOK

\* The receipt brings rows the server held, and paints over nothing newer.
LEMMA AcknowledgedReplica ==
  ASSUME TypeOK, TypeOK', QueueOK, ServerOK, CommandsOK, ReplicaOK, Moves,
         NEW t \in Tabs, OthersOK(t), NEW c \in Queued, c \in receipts,
         pc[t] = "acknowledge", First(c, Planned(t)), AckGuard(t, c),
         base' = [e \in Entities |->
           IF e \in Rows(c) THEN Newest(e, Effect(c, e)) ELSE base[e]],
         row' = [e \in Entities |-> IF e \in Shown(t, c) THEN base'[e] ELSE row[e]],
         outbox' = [outbox EXCEPT ![c] = "ABSENT"],
         binding' = [binding EXCEPT !.version = @ + 1],
         UNCHANGED <<command, server, changes, receipts, sent>>
  PROVE  /\ ReplicaOK' /\ binding'.cursor = binding.cursor
         /\ \A e \in Entities : base'[e].ver >= base[e].ver
<1>1. c \in Commands /\ c \in sent /\ c # Remote
  BY RemoteAssumption DEF Queued, ServerOK, AppliedOK
<1>2. Queued' = Queued \ {c} /\ \A e \in Entities : Pending(e)' = Pending(e) \ {c}
  BY <1>1 DEF Queued, Pending, TypeOK, LocalOK
<1>3. binding'.cursor = binding.cursor
  BY DEF TypeOK, LocalOK
<1>4. \A e \in Rows(c) : /\ e \in Entities /\ Held(e, Effect(c, e))
                         /\ Effect(c, e).ver = BuiltOn(c, e).ver + 1
                         /\ Effect(c, e).ver \in Nat
  <2> SUFFICES ASSUME NEW e \in Rows(c)
               PROVE  /\ e \in Entities /\ Held(e, Effect(c, e))
                      /\ Effect(c, e).ver = BuiltOn(c, e).ver + 1
                      /\ Effect(c, e).ver \in Nat
    OBVIOUS
  <2>1. e \in Entities /\ BuiltOn(c, e).ver \in Nat
    BY <1>1, RowsEntities, VersionNat
  <2>2. Effect(c, e).ver = BuiltOn(c, e).ver + 1 /\ Effect(c, e).by = c
    BY DEF Effect, BuiltOn
  <2>3. PICK k \in DOMAIN changes : changes[k].e = e /\ changes[k].by = c
    BY DEF ServerOK, AppliedOK
  <2>4. changes[k].ver = BuiltOn(c, e).ver + 1
    BY <1>1, <2>3 DEF ServerOK, AppliedOK
  <2> QED BY <2>1, <2>2, <2>3, <2>4 DEF Held
<1>5. ASSUME NEW e \in Entities
      PROVE  /\ base'[e].ver >= base[e].ver
             /\ e \in Rows(c) => base'[e].ver >= Effect(c, e).ver
             /\ base'[e].ver > 0 => Held(e, base[e])'
  <2>1. base'[e] = IF e \in Rows(c) THEN Newest(e, Effect(c, e)) ELSE base[e]
    OBVIOUS
  <2>2. base[e].ver \in Nat /\ (base[e].ver > 0 => Held(e, base[e]))
    BY VersionNat DEF ReplicaOK, BasesOK
  <2>3. base'[e] = base[e] \/ (e \in Rows(c) /\ base'[e] = Effect(c, e))
    BY <2>1 DEF Newest
  <2>4. base'[e].ver > 0 => Held(e, base'[e])
    BY <1>4, <2>2, <2>3
  <2>5. Held(e, base'[e]) => Held(e, base[e])'
    BY DEF Held
  <2>6. base'[e].ver >= base[e].ver /\ (e \in Rows(c) => base'[e].ver >= Effect(c, e).ver)
    BY <1>4, <2>1, <2>2 DEF Newest
  <2> QED BY <2>4, <2>5, <2>6
<1>6. BasesOK'
  <2>1. ASSUME NEW k \in 1 .. binding.cursor PROVE base'[changes[k].e].ver >= changes[k].ver
    <3>1. k \in DOMAIN changes /\ base[changes[k].e].ver >= changes[k].ver
      BY VersionNat DEF ReplicaOK, BasesOK, TypeOK, LocalOK
    <3>2. changes[k].e \in Entities /\ changes[k].ver \in Nat /\ base[changes[k].e].ver \in Nat
      BY <3>1, VersionNat
    <3>3. base'[changes[k].e].ver \in Nat
      BY <3>2, VersionNat DEF TypeOK, LocalOK, Versions
    <3> QED BY <1>5, <3>1, <3>2, <3>3
  <2> QED BY <1>3, <1>5, <2>1 DEF ReplicaOK, BasesOK
<1>7. RowsOK'
  <2> SUFFICES ASSUME NEW e \in Entities
               PROVE  IF Pending(e)' = {} THEN row'[e] = base'[e]
                      ELSE Latest(e, row[e].by)' /\ row'[e].ver = BuiltOn(row[e].by, e)'.ver + 1
    BY DEF RowsOK
  <2>1. CASE e \notin Rows(c)
    <3>1. Pending(e)' = Pending(e) /\ base'[e] = base[e] /\ row'[e] = row[e]
      BY <1>2, <2>1 DEF Pending, Shown
    <3> QED BY <3>1, SameRow DEF ReplicaOK, RowsOK, Moves
  <2>2. CASE e \in Shown(t, c)
    <3>1. Pending(e) \subseteq {c}
      BY <2>2 DEF AckGuard, LeavesPending
    <3> QED BY <1>2, <2>2, <3>1
  <2>3. CASE e \in Rows(c) /\ e \notin Shown(t, c)
    <3>1. PICK g \in Pending(e) : /\ g = row[e].by /\ Latest(e, g)
                                  /\ row[e].ver = BuiltOn(g, e).ver + 1
      BY <2>3, PendingIn DEF ReplicaOK, RowsOK, Latest
    <3>2. \A x \in Pending(e) : x \in Commands /\ Order(x) \in Nat
      BY PendingIn, OrdersNat
    <3>3. c \in Pending(e) /\ row'[e] = row[e]
      BY <2>3, PendingIn
    <3>4. Pending(e) # {c}
      <4> SUFFICES ASSUME Pending(e) = {c} PROVE FALSE
        OBVIOUS
      <4>1. g = c
        BY <3>1
      <4>2. row[e].ver = Effect(c, e).ver
        BY <1>4, <2>3, <3>1, <4>1
      <4>3. Effect(c, e).ver <= Newest(e, Effect(c, e)).ver
        BY <1>4, <2>3, VersionNat DEF Newest
      <4>4. e \in others[t]
        BY <2>3, <4>2, <4>3 DEF Shown
      <4>5. Pending(e) \ {c} # {}
        BY <2>3, <4>4 DEF OthersOK
      <4> QED BY <4>5
    <3>5. PICK x \in Pending(e) : x # c
      BY <3>3, <3>4
    <3>6. Order(c) < Order(x) /\ Order(x) <= Order(g)
      <4>1. Order(c) < Order(x)
        BY <1>1, <2>3, <3>5 DEF CommandsOK, LeadsItsRows, Leads
      <4> QED BY <3>1, <4>1 DEF Latest, Order
    <3>7. g # c
      BY <3>2, <3>3, <3>6
    <3>8. g \in Pending(e)' /\ Latest(e, g)' /\ BuiltOn(g, e)' = BuiltOn(g, e)
      BY <1>2, <3>1, <3>7 DEF Latest, BuiltOn
    <3>9. Latest(e, row[e].by)' /\ BuiltOn(row[e].by, e)' = BuiltOn(g, e)
      BY <3>1, <3>3, <3>8 DEF Latest, BuiltOn
    <3> QED BY <3>1, <3>3, <3>8, <3>9
  <2> QED BY <2>1, <2>2, <2>3
<1> QED BY <1>3, <1>5, <1>6, <1>7 DEF ReplicaOK

-----------------------------------------------------------------------------
(* The tabs.  What a tab holds stays true whatever the others do. *)

Sound == NeverDroppedInv /\ ServerOK /\ CommandsOK /\ ReplicaOK

\* A planned command was queued once, so it never changes again.
LEMMA PlannedKept ==
  ASSUME TypeOK, PlansOK, CommandsKept, NEW t \in Tabs
  PROVE  \A c \in Planned(t) :
           c \in Commands /\ Order(c) > 0 /\ command'[c] = command[c] /\ Order(c)' = Order(c)
BY DEF PlansOK, CommandsKept, Order, Planned

LEMMA FirstKept ==
  ASSUME TypeOK, PlansOK, CommandsKept, NEW t \in Tabs, Planned(t)' = Planned(t),
         NEW c \in Commands, First(c, Planned(t))'
  PROVE  First(c, Planned(t))
BY PlannedKept DEF First, Order

\* What a page brought stays in the log.
LEMMA PagesKept ==
  ASSUME TypeOK, TypeOK', Moves, NEW t \in Tabs, PagesOK(t),
         scope'[t] = scope[t], page'[t] = page[t],
         pc'[t] \in {"page", "project"} => pc[t] \in {"page", "project"}
  PROVE  PagesOK(t)'
<1>1. /\ Len(changes) <= Len(changes') /\ Len(changes) \in Nat /\ Len(changes') \in Nat
      /\ DOMAIN changes = 1 .. Len(changes)
      /\ \A k \in DOMAIN changes : changes'[k] = changes[k]
  BY VersionNat DEF Moves, Grown
<1>2. /\ scope[t].cursor \in Nat /\ scope[t].version \in Nat /\ page[t].upTo \in Nat
      /\ binding.version \in Nat /\ binding'.version \in Nat
      /\ binding.version <= binding'.version
  BY DEF TypeOK, TabsOK, LocalOK, Moves, RowsMove
<1>3. scope[t].cursor <= Len(changes') /\ scope[t].version <= binding'.version
  BY <1>1, <1>2 DEF PagesOK
<1>4. ASSUME PageOK(t) PROVE PageOK(t)'
  <2>1. \A k \in 1 .. page[t].upTo : k \in DOMAIN changes /\ changes'[k] = changes[k]
    BY <1>1, <1>2, <1>4 DEF PageOK
  <2>2. \A k \in (scope[t].cursor + 1) .. page[t].upTo : k \in 1 .. page[t].upTo
    BY <1>2
  <2>3. \A e \in Entities : page[t].values[e].ver > 0 => Held(e, page[t].values[e])'
    BY <1>1, <1>4 DEF PageOK, Held, Moves, Grown
  <2>4. page[t].upTo <= Len(changes')
    BY <1>1, <1>2, <1>4 DEF PageOK
  <2> QED BY <1>4, <2>1, <2>2, <2>3, <2>4 DEF PageOK
<1> QED BY <1>3, <1>4 DEF PagesOK

NoScope == [version |-> 0, cursor |-> 0]

LEMMA PagesIdle ==
  ASSUME TypeOK, TypeOK', Moves, ReplicaOK', NEW t \in Tabs, PagesOK(t),
         scope'[t] = scope[t] \/ scope'[t] = binding' \/ scope'[t] = NoScope,
         pc'[t] \notin {"page", "project"}
  PROVE  PagesOK(t)'
<1>1. /\ Len(changes) <= Len(changes') /\ Len(changes) \in Nat /\ Len(changes') \in Nat
  BY VersionNat DEF Moves, Grown
<1>2. /\ scope[t].cursor \in Nat /\ scope[t].version \in Nat
      /\ binding.version \in Nat /\ binding'.version \in Nat
      /\ binding.version <= binding'.version /\ binding'.cursor <= Len(changes')
  BY DEF TypeOK, TabsOK, LocalOK, Moves, RowsMove, ReplicaOK, BasesOK
<1>3. CASE scope'[t] = scope[t]
  BY <1>1, <1>2, <1>3 DEF PagesOK
<1>4. CASE scope'[t] = binding'
  BY <1>1, <1>2, <1>4 DEF PagesOK
<1>5. CASE scope'[t] = NoScope
  BY <1>1, <1>2, <1>5 DEF PagesOK, NoScope
<1> QED BY <1>3, <1>4, <1>5

LEMMA OthersKept ==
  ASSUME TypeOK, TypeOK', PlansOK, ReceiptsOK, AppliedOK, Moves, NEW t \in Tabs,
         OthersOK(t), PagesOK(t),
         pc'[t] = pc[t], scope'[t] = scope[t], others'[t] = others[t],
         Planned(t)' = Planned(t)
  PROVE  OthersOK(t)'
<1>1. others[t] \subseteq Entities
  BY DEF TypeOK, TabsOK
<1>2. ASSUME pc[t] = "project", binding' = scope[t], NEW e \in others[t]
      PROVE  Pending(e)' # {}
  <2>1. binding' = binding /\ ~ (binding.version < binding'.version)
    BY <1>2 DEF Moves, RowsMove, PagesOK, TypeOK, LocalOK, TabsOK
  <2> QED BY <1>1, <1>2, <2>1 DEF OthersOK, Moves, RowsMove
<1>3. ASSUME NEW c \in Queued', pc[t] = "acknowledge", First(c, Planned(t))',
             NEW e \in others[t] \cap Rows(c)
      PROVE  Pending(e)' \ {c} # {}
  <2>1. c \in Commands /\ First(c, Planned(t)) /\ Order(c) > 0
    <3>1. c \in Commands
      BY <1>3 DEF Queued
    <3>2. First(c, Planned(t))
      BY <1>3, <3>1, FirstKept DEF Moves
    <3> QED BY <3>1, <3>2 DEF First, PlansOK, Order
  <2>2. c \in Queued /\ c \in sent
    BY <1>3, <2>1 DEF Moves, QueueMoves, ReceiptsOK, AppliedOK
  <2>3. Pending(e) \ {c} # {}
    BY <1>3, <2>1, <2>2 DEF OthersOK
  <2> QED BY <1>3, <2>2, <2>3 DEF Moves, RowsMove
<1> QED BY <1>2, <1>3 DEF OthersOK

LEMMA OthersIdle ==
  ASSUME NEW t \in Tabs, pc'[t] \notin {"project", "acknowledge"}
  PROVE  OthersOK(t)'
BY DEF OthersOK

\* A tab that leaves planned commands behind blocks the rows that a command it
\* has still to send shares with them.
LEMMA TurnsKept ==
  ASSUME TypeOK, TypeOK', QueueOK, PlansOK, Moves, NEW t \in Tabs, TurnsOK(t),
         \A c \in Commands : plan'[t][c] \in {plan[t][c], "NONE"},
         \A c \in Commands : plan'[t][c] = "READY" =>
           /\ phase'[t] \in {"plan", "replan", "send"}
           /\ blocked[t] \subseteq blocked'[t]
           /\ \A g \in Planned(t) \ Planned(t)' : Rows(g) \cap Rows(c) \subseteq blocked'[t]
  PROVE  TurnsOK(t)'
<1>1. \A c \in Commands : plan'[t][c] # "NONE" => plan'[t][c] = plan[t][c] /\ c \in Planned(t)
  BY DEF Planned
<1>2. ASSUME NEW c \in Commands, plan'[t][c] = "RECEIPT_REQUIRED" PROVE c \in sent'
  BY <1>1, <1>2 DEF TurnsOK, Moves, Grown
<1>3. ASSUME NEW c \in Commands, plan'[t][c] = "READY", outbox'[c] = "PENDING"
      PROVE  TurnOK(t, c)'
  <2>1. plan[t][c] = "READY" /\ Order(c) > 0 /\ Order(c)' = Order(c)
    BY <1>1, <1>3, PlannedKept DEF Moves
  <2>2. outbox[c] = "PENDING" /\ c \in Queued
    BY <1>3, <2>1 DEF Moves, QueueMoves, Queued
  <2>3. TurnOK(t, c)
    BY <2>1, <2>2 DEF TurnsOK
  <2>4. Order(c) <= revision /\ Order(c) \in Nat /\ revision \in Nat
    BY <2>2, OrdersNat DEF QueueOK, Order, TypeOK, LocalOK
  <2> SUFFICES ASSUME NEW e \in Rows(c), NEW d \in Pending(e)', Order(d)' < Order(c)
               PROVE  \/ e \in blocked'[t]
                      \/ \E g \in Planned(t)' : e \in Rows(g) /\ Order(g)' < Order(c)'
    BY <2>1 DEF TurnOK
  <2>5. e \in Entities
    BY RowsEntities
  <2>6. PICK g \in Pending(e) : Order(g) < Order(c)
    <3>1. d \in Commands /\ Order(d)' \in Nat
      BY OrdersNat DEF Pending, Queued, TypeOK, LocalOK, Order
    <3>2. CASE d \in Pending(e)
      <4>1. d \in Queued
        BY <2>5, <3>2, PendingIn
      <4>2. Order(d)' = Order(d)
        BY <3>1, <4>1 DEF QueueOK, Moves, CommandsKept, Order
      <4> QED BY <3>2, <4>2
    <3>3. CASE Order(d)' > revision
      BY <2>4, <3>1, <3>3
    <3>4. CASE \E g \in Pending(e) \ Pending(e)' : Order(g) = Order(d)'
      BY <3>4
    <3> QED BY <2>5, <3>2, <3>3, <3>4 DEF Moves, QueueMoves
  <2>7. CASE e \in blocked[t]
    BY <1>3, <2>7
  <2>8. ASSUME NEW p \in Planned(t), e \in Rows(p), Order(p) < Order(c)
        PROVE  \/ e \in blocked'[t]
               \/ \E h \in Planned(t)' : e \in Rows(h) /\ Order(h)' < Order(c)'
    <3>1. Order(p)' = Order(p)
      BY <2>8, PlannedKept DEF Moves
    <3>2. CASE p \in Planned(t)'
      BY <2>1, <2>8, <3>1, <3>2
    <3>3. CASE p \notin Planned(t)'
      BY <1>3, <2>8, <3>3
    <3> QED BY <3>2, <3>3
  <2> QED BY <2>3, <2>6, <2>7, <2>8 DEF TurnOK
<1> QED BY <1>2, <1>3 DEF TurnsOK

LEMMA CycleKept ==
  ASSUME TypeOK, TypeOK', PlansOK, Moves, NEW t \in Tabs, CycleOK(t),
         pc'[t] = pc[t], phase'[t] = phase[t], Planned(t)' = Planned(t)
  PROVE  CycleOK(t)'
<1>1. ASSUME NEW c \in Commands, First(c, Planned(t))'
      PROVE  First(c, Planned(t)) /\ Order(c) > 0
  <2>1. First(c, Planned(t))
    BY <1>1, FirstKept DEF Moves
  <2> QED BY <2>1 DEF First, PlansOK, Order
<1>2. ASSUME NEW c \in Commands, First(c, Planned(t))', pc[t] \in {"await", "refused"}
      PROVE  c \in sent'
  BY <1>1, <1>2 DEF CycleOK, Moves, Grown
<1>3. ASSUME NEW c \in Commands, First(c, Planned(t))', pc[t] = "refused"
      PROVE  c \in receipts' \/ Outdated(c)'
  BY <1>1, <1>3, OutdatedKept DEF CycleOK, Moves, Grown
<1> QED BY <1>2, <1>3 DEF CycleOK

SameTab(t) ==
  /\ pc'[t] = pc[t] /\ phase'[t] = phase[t] /\ scope'[t] = scope[t] /\ page'[t] = page[t]
  /\ others'[t] = others[t] /\ plan'[t] = plan[t] /\ blocked'[t] = blocked[t]

LEMMA TabKept ==
  ASSUME Sound, Sound', Moves, NEW t \in Tabs, TabOK(t), SameTab(t)
  PROVE  TabOK(t)'
<1>1. TypeOK /\ TypeOK' /\ QueueOK /\ PlansOK /\ ReceiptsOK /\ AppliedOK
  BY DEF Sound, NeverDroppedInv, ServerOK
<1>2. Planned(t)' = Planned(t)
  BY DEF SameTab, Planned
<1>3. PagesOK(t)'
  BY <1>1, PagesKept DEF SameTab, TabOK
<1>4. OthersOK(t)'
  BY <1>1, <1>2, OthersKept DEF SameTab, TabOK
<1>5. TurnsOK(t)'
  BY <1>1, <1>2, TurnsKept DEF SameTab, TabOK, TurnsOK
<1>6. CycleOK(t)'
  BY <1>1, <1>2, CycleKept DEF SameTab, TabOK
<1> QED BY <1>3, <1>4, <1>5, <1>6 DEF TabOK

-----------------------------------------------------------------------------
(* The steps of tab t, seen by itself. *)

LEMMA SoundParts ==
  ASSUME Sound
  PROVE  /\ TypeOK /\ QueueOK /\ OriginOK /\ PlansOK /\ ReceiptsOK
         /\ LogOK /\ AppliedOK /\ SentOK /\ GuardOK /\ BasesOK
         /\ ServerOK /\ CommandsOK /\ ReplicaOK
BY DEF Sound, NeverDroppedInv, ServerOK, CommandsOK, ReplicaOK

\* Steps that keep the plan and go where nothing is known of it.
LEMMA QuietTab ==
  ASSUME Sound, Sound', Moves, NEW t \in Tabs, TabOK(t),
         plan'[t] = plan[t], blocked'[t] = blocked[t],
         \A c \in Commands : plan[t][c] = "READY" => phase'[t] \in {"plan", "replan", "send"},
         pc'[t] \in {"idle", "pull", "page", "project", "recover", "rebase", "send"},
         phase'[t] \in {"plan", "replan"} => pc'[t] = "rebase",
         pc'[t] = "recover" => phase'[t] = "recover",
         pc'[t] = "send" => phase'[t] = "send"
  PROVE  TurnsOK(t)' /\ CycleOK(t)'
<1>1. TurnsOK(t)'
  BY SoundParts, TurnsKept DEF TabOK, Planned, Sound, NeverDroppedInv
<1>2. CycleOK(t)'
  BY DEF CycleOK
<1> QED BY <1>1, <1>2

LEMMA StartTab ==
  ASSUME Sound, Sound', Moves, NEW t \in Tabs, TabOK(t), Start(t)
  PROVE  TabOK(t)'
<1>0. TypeOK /\ TypeOK' /\ ReplicaOK'
  BY SoundParts DEF Sound, NeverDroppedInv
<1>1. /\ pc[t] = "idle" /\ pc'[t] = "pull" /\ scope'[t] = binding /\ binding' = binding
      /\ phase' = phase /\ plan' = plan /\ blocked' = blocked
  BY <1>0 DEF Start, Goto, TypeOK, TabsOK, local
<1>2. PagesOK(t)'
  BY <1>0, <1>1, PagesIdle DEF TabOK
<1>3. OthersOK(t)'
  BY <1>1, OthersIdle
<1>4. TurnsOK(t)' /\ CycleOK(t)'
  BY <1>1, QuietTab DEF TabOK, TurnsOK, CycleOK
<1> QED BY <1>2, <1>3, <1>4 DEF TabOK

\* The page holds all the log between its cursors, and the rows of the server.
LEMMA PullPageTab ==
  ASSUME Sound, Sound', Moves, NEW t \in Tabs, TabOK(t), PullPage(t)
  PROVE  TabOK(t)'
<1>0. TypeOK /\ TypeOK' /\ LogOK
  BY SoundParts DEF Sound, NeverDroppedInv
<1> DEFINE from == scope[t].cursor
           upTo == IF Len(changes) - from > PageSize THEN from + PageSize ELSE Len(changes)
<1>1. /\ pc[t] = "pull" /\ pc'[t] = "page"
      /\ UNCHANGED <<phase, plan, blocked, scope, binding, server, changes>>
  BY <1>0 DEF PullPage, Goto, TypeOK, TabsOK, local, remote
<1>2. page'[t].upTo = upTo /\ page'[t].rows = PageRows(from, upTo) /\ page'[t].values = server
  BY <1>0 DEF PullPage, TypeOK, TabsOK
<1>3. /\ from \in Nat /\ Len(changes) \in Nat /\ DOMAIN changes = 1 .. Len(changes)
      /\ from <= Len(changes) /\ scope[t].version <= binding.version
      /\ PageSize \in Nat \ {0}
  BY <1>0, VersionNat, BoundsAssumption DEF TypeOK, TabsOK, TabOK, PagesOK
<1>4. from <= upTo /\ upTo <= Len(changes) /\ upTo \in Nat
  BY <1>3
<1>5. \A k \in (from + 1) .. upTo : changes[k].e \in PageRows(from, upTo)
  BY DEF PageRows
<1>6. \A k \in 1 .. upTo : server[changes[k].e].ver >= changes[k].ver
  <2>1. \A k \in 1 .. upTo : k \in DOMAIN changes
    BY <1>3, <1>4
  <2>2. \A k \in DOMAIN changes : server[changes[k].e].ver \in Nat /\ changes[k].ver \in Nat
    BY <1>0, VersionNat
  <2>3. \A k \in DOMAIN changes : changes[k].ver <= server[changes[k].e].ver
    BY <1>0 DEF LogOK
  <2> HIDE DEF upTo
  <2> QED BY <2>1, <2>2, <2>3
<1> HIDE DEF upTo
<1>7. PageOK(t)'
  <2>1. \A e \in Entities : page'[t].values[e].ver > 0 => Held(e, page[t].values[e])'
    BY <1>0, <1>1, <1>2 DEF LogOK, Held
  <2>2. scope'[t].cursor = from /\ changes' = changes
    BY <1>1
  <2> QED BY <1>2, <1>4, <1>5, <1>6, <2>1, <2>2 DEF PageOK
<1>8. PagesOK(t)'
  BY <1>1, <1>3, <1>7 DEF PagesOK
<1>9. OthersOK(t)'
  BY <1>1, OthersIdle
<1>10. TurnsOK(t)' /\ CycleOK(t)'
  BY <1>1, QuietTab DEF TabOK, TurnsOK, CycleOK
<1> QED BY <1>8, <1>9, <1>10 DEF TabOK

LEMMA ListPendingTab ==
  ASSUME Sound, Sound', Moves, NEW t \in Tabs, TabOK(t), ListPending(t)
  PROVE  TabOK(t)'
<1>0. TypeOK /\ TypeOK'
  BY SoundParts DEF Sound, NeverDroppedInv
<1>1. /\ pc[t] = "page" /\ pc'[t] = "project" /\ others'[t] = Busy({})
      /\ UNCHANGED <<phase, plan, blocked, scope, page, outbox>>
  BY <1>0 DEF ListPending, Goto, TypeOK, TabsOK, local
<1>2. PagesOK(t)'
  BY <1>0, <1>1, PagesKept DEF TabOK
<1>3. \A e \in Entities : Pending(e)' = Pending(e)
  BY <1>1 DEF Pending, Queued
<1>4. OthersOK(t)'
  BY <1>1, <1>3 DEF OthersOK, Busy
<1>5. TurnsOK(t)' /\ CycleOK(t)'
  BY <1>1, QuietTab DEF TabOK, TurnsOK, CycleOK
<1> QED BY <1>2, <1>4, <1>5 DEF TabOK

\* The end of a page.
LEMMA AfterPageTab ==
  ASSUME Sound, Sound', Moves, NEW t \in Tabs, TabOK(t), pc[t] = "project", AfterPage(t),
         binding' = binding \/ scope[t] = binding
  PROVE  TabOK(t)'
<1>0. TypeOK /\ TypeOK' /\ ReplicaOK' /\ SentOK /\ sent \subseteq sent'
  BY SoundParts DEF Moves, Grown, Sound, NeverDroppedInv
<1>1. pc'[t] \in {"pull", "recover", "idle"}
  BY <1>0 DEF AfterPage, Goto, TypeOK, TabsOK
<1>2. scope'[t] = binding' \/ scope'[t] = scope[t] \/ scope'[t] = NoScope
  BY <1>0 DEF AfterPage, TypeOK, TabsOK, NoScope
<1>3. PagesOK(t)'
  BY <1>0, <1>1, <1>2, PagesIdle DEF TabOK
<1>4. OthersOK(t)'
  BY <1>1, OthersIdle
<1>5. TurnsOK(t)' /\ CycleOK(t)'
  <2>1. CASE Goto(t, "pull") /\ UNCHANGED <<phase, plan, blocked>>
    <3>1. pc'[t] = "pull"
      BY <1>0, <2>1 DEF Goto, TypeOK, TabsOK
    <3> QED BY <2>1, <3>1, QuietTab DEF TabOK, TurnsOK, CycleOK
  <2>2. CASE /\ Goto(t, "recover") /\ Enter(t, "recover")
             /\ plan' = [plan EXCEPT ![t] = [c \in Commands |->
                  IF PlanState(c) = "RECEIPT_REQUIRED" THEN PlanState(c) ELSE "NONE"]]
    <3>1. pc'[t] = "recover" /\ phase'[t] = "recover"
      BY <1>0, <2>2 DEF Goto, Enter, TypeOK, TabsOK
    <3>2. ASSUME NEW c \in Commands
          PROVE  plan'[t][c] # "READY" /\ (plan'[t][c] = "RECEIPT_REQUIRED" => c \in sent')
      <4>1. plan'[t][c] = IF PlanState(c) = "RECEIPT_REQUIRED" THEN PlanState(c) ELSE "NONE"
        BY <1>0, <2>2 DEF TypeOK, TabsOK
      <4>2. PlanState(c) = "RECEIPT_REQUIRED" => outbox[c] = "SENDING"
        BY DEF PlanState
      <4> QED BY <1>0, <4>1, <4>2 DEF SentOK
    <3> QED BY <3>1, <3>2 DEF TurnsOK, CycleOK
  <2>3. CASE /\ phase[t] = "final" /\ Goto(t, "idle") /\ Enter(t, "first")
             /\ UNCHANGED plan
    <3>1. pc'[t] = "idle" /\ phase'[t] = "first"
      BY <1>0, <2>3 DEF Goto, Enter, TypeOK, TabsOK
    <3>2. \A c \in Commands : plan'[t][c] = plan[t][c] /\ plan[t][c] # "READY"
      BY <2>3 DEF TabOK, TurnsOK
    <3>3. TurnsOK(t)'
      BY <1>0, <3>2 DEF TabOK, TurnsOK
    <3> QED BY <3>1, <3>3 DEF CycleOK
  <2> QED BY <2>1, <2>2, <2>3 DEF AfterPage
<1> QED BY <1>3, <1>4, <1>5 DEF TabOK

LEMMA ResetTab ==
  ASSUME Sound, Sound', Moves, NEW t \in Tabs, TabOK(t), Reset(t)
  PROVE  TabOK(t)'
<1>0. TypeOK /\ TypeOK' /\ ReplicaOK'
  BY SoundParts DEF Sound, NeverDroppedInv
<1>1. /\ pc'[t] = "idle" /\ phase'[t] = "first" /\ scope'[t] = NoScope /\ plan'[t] = NoPlan
  BY <1>0 DEF Reset, TypeOK, TabsOK, NoScope
<1>2. PagesOK(t)'
  BY <1>0, <1>1, PagesIdle DEF TabOK
<1>3. OthersOK(t)'
  BY <1>1, OthersIdle
<1>4. TurnsOK(t)' /\ CycleOK(t)'
  BY <1>1 DEF TurnsOK, CycleOK, NoPlan
<1> QED BY <1>2, <1>3, <1>4 DEF TabOK

LEMMA RecoverLookupTab ==
  ASSUME Sound, Sound', Moves, NEW t \in Tabs, TabOK(t), RecoverLookup(t)
  PROVE  TabOK(t)'
<1>0. TypeOK /\ TypeOK' /\ ReplicaOK' /\ QueueOK /\ PlansOK
  BY SoundParts DEF Sound, NeverDroppedInv
<1>1. PICK c \in Planned(t) :
        \/ Goto(t, "receipt") /\ scope' = [scope EXCEPT ![t] = binding] /\ UNCHANGED plan
        \/ Leave(t, c) /\ UNCHANGED <<pc, scope>>
  BY DEF RecoverLookup
<1>2. pc[t] = "recover" /\ phase[t] = "recover" /\ UNCHANGED <<phase, blocked, binding>>
  BY DEF RecoverLookup, local, TabOK, CycleOK
<1>3. \A d \in Commands : plan[t][d] # "READY"
  BY <1>2 DEF TabOK, TurnsOK
<1>4. \A d \in Commands : plan'[t][d] \in {plan[t][d], "NONE"}
  BY <1>0, <1>1 DEF Leave, TypeOK, TabsOK
<1>5. pc'[t] \in {"receipt", "recover"} /\ (scope'[t] = scope[t] \/ scope'[t] = binding)
  BY <1>0, <1>1, <1>2 DEF Goto, TypeOK, TabsOK
<1>6. PagesOK(t)'
  BY <1>0, <1>2, <1>5, PagesIdle DEF TabOK
<1>7. OthersOK(t)'
  BY <1>5, OthersIdle
<1>8. \A d \in Commands : plan'[t][d] # "READY"
  BY <1>3, <1>4
<1>9. TurnsOK(t)'
  BY <1>0, <1>4, <1>8, TurnsKept DEF TabOK
<1>10. CycleOK(t)'
  BY <1>2, <1>5 DEF CycleOK
<1> QED BY <1>6, <1>7, <1>9, <1>10 DEF TabOK

\* A plan taken from the Outbox holds every pending command.
LEMMA FreshPlan ==
  ASSUME Sound, Moves, NEW t \in Tabs, UNCHANGED <<outbox, command>>,
         plan'[t] = PlanLocalCommands, phase'[t] \in {"plan", "replan", "send"}
  PROVE  TurnsOK(t)'
<1>0. TypeOK /\ SentOK /\ sent \subseteq sent'
  BY SoundParts DEF Moves, Grown, Sound, NeverDroppedInv
<1>1. \A c \in Commands : plan'[t][c] = PlanState(c)
  BY DEF PlanLocalCommands
<1>2. ASSUME NEW c \in Commands, plan'[t][c] = "RECEIPT_REQUIRED" PROVE c \in sent'
  <2>1. outbox[c] = "SENDING"
    BY <1>1, <1>2 DEF PlanState
  <2> QED BY <1>0, <2>1 DEF SentOK
<1>3. \A d \in Queued : d \in Planned(t)'
  <2> SUFFICES ASSUME NEW d \in Queued PROVE d \in Planned(t)'
    OBVIOUS
  <2>1. d \in Commands /\ outbox[d] \in {"PENDING", "SENDING", "CONFLICT"}
    BY <1>0 DEF Queued, TypeOK, LocalOK
  <2>2. PlanState(d) # "NONE"
    BY <2>1 DEF PlanState
  <2> QED BY <1>1, <2>1, <2>2 DEF Planned
<1>4. ASSUME NEW c \in Commands PROVE TurnOK(t, c)'
  <2>1. \A e \in Rows(c) : \A d \in Pending(e)' : d \in Planned(t)' /\ e \in Rows(d)
    BY <1>3, RowsEntities DEF Pending, Queued
  <2> QED BY <2>1 DEF TurnOK
<1> QED BY <1>2, <1>4 DEF TurnsOK

LEMMA PlanCycleTab ==
  ASSUME Sound, Sound', Moves, NEW t \in Tabs, TabOK(t), PlanCycle(t)
  PROVE  TabOK(t)'
<1>0. TypeOK /\ TypeOK' /\ ReplicaOK'
  BY SoundParts DEF Sound, NeverDroppedInv
<1>1. /\ pc'[t] = "rebase" /\ phase'[t] = "plan" /\ plan'[t] = PlanLocalCommands
      /\ scope'[t] = NoScope /\ UNCHANGED <<outbox, command>>
  BY <1>0 DEF PlanCycle, Goto, Enter, TypeOK, TabsOK, NoScope, local
<1>2. PagesOK(t)'
  BY <1>0, <1>1, PagesIdle DEF TabOK
<1>3. OthersOK(t)'
  BY <1>1, OthersIdle
<1>4. TurnsOK(t)'
  BY <1>1, FreshPlan
<1>5. CycleOK(t)'
  BY <1>1 DEF CycleOK
<1> QED BY <1>2, <1>3, <1>4, <1>5 DEF TabOK

LEMMA RebaseNextTab ==
  ASSUME Sound, Sound', Moves, NEW t \in Tabs, TabOK(t), RebaseNext(t)
  PROVE  TabOK(t)'
<1>0. TypeOK /\ TypeOK' /\ ReplicaOK'
  BY SoundParts DEF Sound, NeverDroppedInv
<1>1. /\ pc[t] = "rebase" /\ UNCHANGED <<pc, scope, plan, blocked>>
      /\ phase'[t] = "replan" \/ phase'[t] = phase[t]
  BY <1>0 DEF RebaseNext, Enter, TypeOK, TabsOK
<1>2. PagesOK(t)'
  BY <1>0, <1>1, PagesIdle DEF TabOK
<1>3. OthersOK(t)'
  BY <1>1, OthersIdle
<1>4. TurnsOK(t)' /\ CycleOK(t)'
  BY <1>1, QuietTab DEF TabOK, TurnsOK, CycleOK
<1> QED BY <1>2, <1>3, <1>4 DEF TabOK

LEMMA RebaseDoneTab ==
  ASSUME Sound, Sound', Moves, NEW t \in Tabs, TabOK(t), RebaseDone(t)
  PROVE  TabOK(t)'
<1>0. TypeOK /\ TypeOK' /\ ReplicaOK'
  BY SoundParts DEF Sound, NeverDroppedInv
<1>1. /\ pc'[t] = "send" /\ phase'[t] = "send"
      /\ UNCHANGED <<outbox, command, scope, blocked>>
      /\ plan'[t] = PlanLocalCommands \/ plan'[t] = plan[t]
  BY <1>0 DEF RebaseDone, Goto, Enter, TypeOK, TabsOK, local
<1>2. PagesOK(t)'
  BY <1>0, <1>1, PagesIdle DEF TabOK
<1>3. OthersOK(t)'
  BY <1>1, OthersIdle
<1>4. CycleOK(t)'
  BY <1>1 DEF CycleOK
<1>5. TurnsOK(t)'
  BY <1>1, FreshPlan, QuietTab
<1> QED BY <1>2, <1>3, <1>4, <1>5 DEF TabOK

LEMMA SendDoneTab ==
  ASSUME Sound, Sound', Moves, NEW t \in Tabs, TabOK(t), SendDone(t)
  PROVE  TabOK(t)'
<1>0. TypeOK /\ TypeOK' /\ ReplicaOK'
  BY SoundParts DEF Sound, NeverDroppedInv
<1>1. /\ pc'[t] = "pull" /\ phase'[t] = "final" /\ scope'[t] = binding /\ binding' = binding
      /\ UNCHANGED <<plan, blocked>> /\ Planned(t) = {}
  BY <1>0 DEF SendDone, Goto, Enter, TypeOK, TabsOK, local
<1>2. PagesOK(t)'
  BY <1>0, <1>1, PagesIdle DEF TabOK
<1>3. OthersOK(t)'
  BY <1>1, OthersIdle
<1>4. \A c \in Commands : plan[t][c] = "NONE"
  BY <1>1 DEF Planned
<1>5. TurnsOK(t)' /\ CycleOK(t)'
  BY <1>1, <1>4, QuietTab
<1> QED BY <1>2, <1>3, <1>5 DEF TabOK

-----------------------------------------------------------------------------
(* The loop over the plans, seen by the tab itself. *)

LEMMA LeavesPlan ==
  ASSUME TypeOK, NEW t \in Tabs, NEW c \in Commands, Leave(t, c)
  PROVE  /\ \A d \in Commands : plan'[t][d] = IF d = c THEN "NONE" ELSE plan[t][d]
         /\ Planned(t) \ Planned(t)' \subseteq {c}
<1>1. \A d \in Commands : plan'[t][d] = IF d = c THEN "NONE" ELSE plan[t][d]
  BY DEF Leave, TypeOK, TabsOK
<1> QED BY <1>1 DEF Planned

LEMMA SkipBlockedTab ==
  ASSUME Sound, Sound', Moves, NEW t \in Tabs, TabOK(t), SkipBlocked(t)
  PROVE  TabOK(t)'
<1>0. TypeOK /\ TypeOK' /\ ReplicaOK' /\ QueueOK /\ PlansOK
  BY SoundParts DEF Sound, NeverDroppedInv
<1>1. PICK c \in Planned(t) : Block(t, c) /\ Leave(t, c)
  BY DEF SkipBlocked
<1>2. c \in Commands /\ pc[t] = "send" /\ phase[t] = "send"
      /\ UNCHANGED <<pc, phase, scope>>
  BY DEF SkipBlocked, Planned, TabOK, CycleOK
<1>3. blocked'[t] = blocked[t] \cup Rows(c)
  BY <1>0, <1>1 DEF Block, TypeOK, TabsOK
<1>4. PagesOK(t)'
  BY <1>0, <1>2, PagesIdle DEF TabOK
<1>5. OthersOK(t)'
  BY <1>2, OthersIdle
<1>6. TurnsOK(t)'
  <2>1. \A d \in Commands : plan'[t][d] \in {plan[t][d], "NONE"}
    BY <1>0, <1>1, <1>2, LeavesPlan
  <2>2. \A g \in Planned(t) \ Planned(t)' : g = c
    BY <1>0, <1>1, <1>2, LeavesPlan
  <2> QED BY <1>0, <1>2, <1>3, <2>1, <2>2, TurnsKept DEF TabOK
<1>7. CycleOK(t)'
  BY <1>2 DEF CycleOK
<1> QED BY <1>4, <1>5, <1>6, <1>7 DEF TabOK

\* Steps that keep the plan while the next command is under way.
LEMMA UnderWayTab ==
  ASSUME Sound, Sound', Moves, NEW t \in Tabs, TabOK(t), UNCHANGED <<plan, blocked>>,
         scope'[t] = scope[t],
         pc'[t] \in {"await", "refused", "receipt"}, phase[t] = "send", phase'[t] = "send",
         NEW c \in Commands, First(c, Planned(t)),
         pc'[t] \in {"await", "refused"} => c \in sent',
         pc'[t] = "refused" => c \in receipts' \/ Outdated(c)'
  PROVE  TabOK(t)'
<1>0. TypeOK /\ TypeOK' /\ ReplicaOK' /\ QueueOK /\ PlansOK /\ CommandsKept
  BY SoundParts DEF Sound, NeverDroppedInv, Moves
<1>1. PagesOK(t)'
  BY <1>0, PagesIdle DEF TabOK
<1>2. OthersOK(t)'
  BY OthersIdle
<1>3. Planned(t)' = Planned(t)
  BY DEF Planned
<1>4. TurnsOK(t)'
  BY <1>0, <1>3, TurnsKept DEF TabOK
<1>5. \A d \in Commands : First(d, Planned(t))' => d = c
  BY <1>0, <1>3, FirstKept, FirstUnique
<1>6. CycleOK(t)'
  BY <1>5 DEF CycleOK
<1> QED BY <1>1, <1>2, <1>4, <1>6 DEF TabOK

LEMMA ClaimAndSendTab ==
  ASSUME Sound, Sound', Moves, NEW t \in Tabs, TabOK(t), ClaimAndSend(t)
  PROVE  TabOK(t)'
<1>0. TypeOK
  BY SoundParts
<1>1. PICK c \in Planned(t) :
        /\ Sendable(t, c)
        /\ \/ /\ sent' = sent \cup {c} /\ Goto(t, "await")
              /\ UNCHANGED <<phase, scope, plan, blocked>>
           \/ Throw(t)
  BY DEF ClaimAndSend
<1>2. CASE Throw(t)
  BY <1>2, ResetTab DEF Throw
<1>3. CASE /\ sent' = sent \cup {c} /\ Goto(t, "await")
           /\ UNCHANGED <<phase, scope, plan, blocked>>
  <2>1. c \in Commands /\ First(c, Planned(t)) /\ phase[t] = "send" /\ pc'[t] = "await"
    BY <1>0, <1>1, <1>3 DEF Planned, Sendable, TabOK, CycleOK, Goto, TypeOK, TabsOK
  <2> QED BY <1>3, <2>1, UnderWayTab
<1> QED BY <1>1, <1>2, <1>3

LEMMA LookupOrResendTab ==
  ASSUME Sound, Sound', Moves, NEW t \in Tabs, TabOK(t), LookupOrResend(t)
  PROVE  TabOK(t)'
<1>0. TypeOK
  BY SoundParts
<1>1. PICK c \in Planned(t) :
        /\ Sendable(t, c)
        /\ \/ Goto(t, "receipt")
           \/ sent' = sent \cup {c} /\ Goto(t, "await")
  BY DEF LookupOrResend
<1>2. UNCHANGED <<phase, scope, plan, blocked>>
  BY DEF LookupOrResend
<1>3. c \in Commands /\ First(c, Planned(t)) /\ phase[t] = "send"
  BY <1>1 DEF Planned, Sendable, TabOK, CycleOK
<1>4. pc'[t] = "receipt" \/ (pc'[t] = "await" /\ c \in sent')
  BY <1>0, <1>1 DEF Goto, TypeOK, TabsOK
<1> QED BY <1>2, <1>3, <1>4, UnderWayTab

\* A request that was safe to send and is refused without a receipt is outdated.
LEMMA RefusalOutdates ==
  ASSUME TypeOK, LogOK, SentOK, NEW c \in sent, c \notin receipts, ~Accepts(c)
  PROVE  Outdated(c)
<1>1. PICK e \in Rows(c) : server[e].ver # command[c].base[e].ver
  BY DEF Accepts, Current
<1>2. c \in Commands /\ e \in Entities
  BY RowsEntities DEF TypeOK, RemoteOK
<1>3. server[e].ver \in Nat /\ BuiltOn(c, e).ver \in Nat /\ server[e].ver # BuiltOn(c, e).ver
  BY <1>1, <1>2, VersionNat DEF BuiltOn
<1>4. Safe(c, e)
  BY DEF SentOK
<1>5. server[e].ver > BuiltOn(c, e).ver
  <2>1. CASE BuiltOn(c, e).ver = 0
    BY <1>3, <2>1
  <2>2. CASE Held(e, BuiltOn(c, e))
    BY <1>2, <1>3, <2>2, HeldBelow
  <2> QED BY <1>4, <2>1, <2>2 DEF Safe
<1> QED BY <1>5 DEF Outdated

LEMMA AnswerTab ==
  ASSUME Sound, Sound', Moves, NEW t \in Tabs, TabOK(t), Answer(t)
  PROVE  TabOK(t)'
<1>0. TypeOK /\ LogOK /\ SentOK
  BY SoundParts
<1>1. PICK c \in Planned(t) :
        /\ First(c, Planned(t)) /\ Process(c)
        /\ Goto(t, IF c \in receipts' THEN "receipt" ELSE "refused")
  BY DEF Answer
<1>2. c \in Commands /\ pc[t] = "await" /\ phase[t] = "send" /\ c \in sent
      /\ UNCHANGED <<sent, phase, scope, plan, blocked, command>>
  BY <1>1 DEF Answer, Planned, TabOK, CycleOK, local
<1>3. pc'[t] = IF c \in receipts' THEN "receipt" ELSE "refused"
  BY <1>0, <1>1 DEF Goto, TypeOK, TabsOK
<1>4. CASE c \in receipts'
  BY <1>1, <1>2, <1>3, <1>4, UnderWayTab
<1>5. CASE c \notin receipts'
  <2>1. ~Accepts(c) /\ UNCHANGED <<server, receipts>>
    BY <1>1, <1>5 DEF Process, Apply, StoreReceipt
  <2>2. Outdated(c)
    BY <1>0, <1>2, <1>5, <2>1, RefusalOutdates
  <2>3. Outdated(c)'
    BY <1>2, <2>1, <2>2 DEF Outdated, BuiltOn
  <2> QED BY <1>1, <1>2, <1>3, <2>3, UnderWayTab
<1> QED BY <1>4, <1>5

LEMMA RefusedTab ==
  ASSUME Sound, Sound', Moves, NEW t \in Tabs, TabOK(t), Refused(t)
  PROVE  TabOK(t)'
<1>0. TypeOK /\ TypeOK' /\ ReplicaOK' /\ QueueOK /\ PlansOK
  BY SoundParts DEF Sound, NeverDroppedInv
<1>1. PICK c \in Planned(t) :
        /\ First(c, Planned(t))
        /\ \/ Goto(t, "receipt") /\ UNCHANGED <<phase, scope, plan, blocked>>
           \/ Block(t, c) /\ Leave(t, c) /\ Goto(t, "send") /\ UNCHANGED <<phase, scope>>
           \/ Reset(t)
  BY DEF Refused
<1>2. c \in Commands /\ pc[t] = "refused" /\ phase[t] = "send"
  BY DEF Refused, Planned, TabOK, CycleOK
<1>3. CASE Goto(t, "receipt") /\ UNCHANGED <<phase, scope, plan, blocked>>
  <2>1. pc'[t] = "receipt"
    BY <1>0, <1>3 DEF Goto, TypeOK, TabsOK
  <2> QED BY <1>1, <1>2, <1>3, <2>1, UnderWayTab
<1>4. CASE Block(t, c) /\ Leave(t, c) /\ Goto(t, "send") /\ UNCHANGED <<phase, scope>>
  <2>1. pc'[t] = "send" /\ blocked'[t] = blocked[t] \cup Rows(c)
    BY <1>0, <1>4 DEF Goto, Block, TypeOK, TabsOK
  <2>2. PagesOK(t)'
    BY <1>0, <1>4, <2>1, PagesIdle DEF TabOK
  <2>3. OthersOK(t)'
    BY <2>1, OthersIdle
  <2>4. TurnsOK(t)'
    <3>1. \A d \in Commands : plan'[t][d] \in {plan[t][d], "NONE"}
      BY <1>0, <1>2, <1>4, LeavesPlan
    <3>2. \A g \in Planned(t) \ Planned(t)' : g = c
      BY <1>0, <1>2, <1>4, LeavesPlan
    <3> QED BY <1>0, <1>2, <1>4, <2>1, <3>1, <3>2, TurnsKept DEF TabOK
  <2>5. CycleOK(t)'
    BY <1>2, <1>4, <2>1 DEF CycleOK
  <2> QED BY <2>2, <2>3, <2>4, <2>5 DEF TabOK
<1> QED BY <1>1, <1>3, <1>4, ResetTab

\* With its receipt the next command leaves the plan; what shares its rows waits.
LEMMA AcceptedTab ==
  ASSUME Sound, Sound', Moves, NEW t \in Tabs, TabOK(t), pc[t] \in {"receipt", "acknowledge"},
         NEW c \in Commands, Accepted(t, c), UNCHANGED <<scope, phase>>
  PROVE  TabOK(t)'
<1>0. TypeOK /\ TypeOK' /\ ReplicaOK' /\ QueueOK /\ PlansOK
  BY SoundParts DEF Sound, NeverDroppedInv
<1>1. phase[t] \in {"recover", "send"}
  BY DEF TabOK, CycleOK
<1>2. pc'[t] = IF phase[t] = "send" THEN "send" ELSE "recover"
  BY <1>0 DEF Accepted, Goto, TypeOK, TabsOK
<1>3. Leave(t, c)
  BY DEF Accepted
<1>4. PagesOK(t)'
  BY <1>0, <1>2, PagesIdle DEF TabOK
<1>5. OthersOK(t)'
  BY <1>2, OthersIdle
<1>6. CycleOK(t)'
  BY <1>1, <1>2 DEF CycleOK
<1>7. TurnsOK(t)'
  <2>1. \A d \in Commands : plan'[t][d] = IF d = c THEN "NONE" ELSE plan[t][d]
    BY <1>0, <1>3, LeavesPlan
  <2>2. \A g \in Planned(t) \ Planned(t)' : g = c
    BY <1>0, <1>3, LeavesPlan
  <2>3. CASE phase[t] = "recover"
    <3>1. \A d \in Commands : plan[t][d] # "READY"
      BY <2>3 DEF TabOK, TurnsOK
    <3>2. \A d \in Commands : plan'[t][d] # "READY"
      BY <2>1, <3>1
    <3> QED BY <1>0, <2>1, <3>2, TurnsKept DEF TabOK
  <2>4. CASE phase[t] = "send"
    <3>1. ASSUME NEW d \in Commands, plan'[t][d] = "READY"
          PROVE  /\ phase'[t] \in {"plan", "replan", "send"} /\ blocked[t] \subseteq blocked'[t]
                 /\ Rows(c) \cap Rows(d) \subseteq blocked'[t]
      <4>1. d \in Planned(t) \ {c}
        BY <2>1, <3>1 DEF Planned
      <4>2. CASE \E x \in Planned(t) \ {c} : Rows(x) \cap Rows(c) # {}
        <5>1. Block(t, c)
          BY <2>4, <4>2 DEF Accepted
        <5> QED BY <1>0, <2>4, <5>1 DEF Block, TypeOK, TabsOK
      <4>3. CASE ~ \E x \in Planned(t) \ {c} : Rows(x) \cap Rows(c) # {}
        <5>1. blocked' = blocked
          BY <2>4, <4>3 DEF Accepted
        <5> QED BY <2>4, <4>1, <4>3, <5>1
      <4> QED BY <4>2, <4>3
    <3> QED BY <1>0, <2>1, <2>2, <3>1, TurnsKept DEF TabOK
  <2> QED BY <1>1, <2>3, <2>4
<1> QED BY <1>4, <1>5, <1>6, <1>7 DEF TabOK

LEMMA ReceiptArrivesTab ==
  ASSUME Sound, Sound', Moves, NEW t \in Tabs, TabOK(t), ReceiptArrives(t)
  PROVE  TabOK(t)'
<1>0. TypeOK /\ TypeOK' /\ ReplicaOK' /\ QueueOK /\ PlansOK /\ CommandsKept
  BY SoundParts DEF Sound, NeverDroppedInv, Moves
<1>1. PICK c \in Planned(t) :
        /\ First(c, Planned(t))
        /\ \/ Accepted(t, c)
           \/ /\ Goto(t, "acknowledge") /\ others' = [others EXCEPT ![t] = Busy({c})]
              /\ UNCHANGED <<plan, blocked>>
  BY DEF ReceiptArrives
<1>2. c \in Commands /\ pc[t] = "receipt" /\ phase[t] \in {"recover", "send"}
      /\ UNCHANGED <<phase, scope, outbox>>
  BY DEF ReceiptArrives, Planned, TabOK, CycleOK, local
<1>3. CASE Accepted(t, c)
  BY <1>2, <1>3, AcceptedTab
<1>4. CASE /\ Goto(t, "acknowledge") /\ others' = [others EXCEPT ![t] = Busy({c})]
           /\ UNCHANGED <<plan, blocked>>
  <2>1. pc'[t] = "acknowledge" /\ others'[t] = Busy({c}) /\ Planned(t)' = Planned(t)
    BY <1>0, <1>4 DEF Goto, Planned, TypeOK, TabsOK
  <2>2. \A d \in Commands : First(d, Planned(t))' => d = c
    BY <1>0, <1>1, <1>2, <2>1, FirstKept, FirstUnique
  <2>3. PagesOK(t)'
    BY <1>0, <1>2, <2>1, PagesIdle DEF TabOK
  <2>4. \A e \in Entities : Pending(e)' = Pending(e)
    BY <1>2 DEF Pending, Queued
  <2>5. OthersOK(t)'
    BY <2>1, <2>2, <2>4 DEF OthersOK, Busy, Queued
  <2>6. TurnsOK(t)'
    BY <1>0, <1>2, <1>4, <2>1, TurnsKept DEF TabOK, TurnsOK
  <2>7. CycleOK(t)'
    BY <1>2, <2>1 DEF CycleOK
  <2> QED BY <2>3, <2>5, <2>6, <2>7 DEF TabOK
<1> QED BY <1>1, <1>3, <1>4

-----------------------------------------------------------------------------
(* The whole step. *)

\* A coordinator moves its own tab only.
LEMMA OneTab ==
  ASSUME TypeOK, NEW t \in Tabs, Coordinate(t) \/ Fault(t), NEW u \in Tabs \ {t}
  PROVE  SameTab(u)
<1> USE DEF SameTab, TypeOK, TabsOK, Goto, Enter
<1>1. CASE Reset(t)
  BY <1>1 DEF Reset
<1>2. CASE PullThrow(t) \/ AcknowledgeThrow(t) \/ Fault(t)
  BY <1>1, <1>2 DEF PullThrow, AcknowledgeThrow, Fault, Throw
<1>3. CASE Start(t) \/ PullPage(t) \/ ListPending(t)
  BY <1>3 DEF Start, PullPage, ListPending
<1>4. CASE AfterPage(t) /\ page' = [page EXCEPT ![t] = NoPage]
           /\ others' = [others EXCEPT ![t] = {}]
  BY <1>4 DEF AfterPage, Unblock
<1>5. CASE PullNothing(t) \/ PullCommit(t)
  BY <1>4, <1>5 DEF PullNothing, PullCommit
<1>6. CASE RecoverLookup(t) \/ PlanCycle(t) \/ RebaseNext(t) \/ RebaseDone(t)
  BY <1>6 DEF RecoverLookup, PlanCycle, RebaseNext, RebaseDone, Leave
<1>7. CASE SkipBlocked(t) \/ LookupOrResend(t) \/ Answer(t) \/ SendDone(t)
  BY <1>7 DEF SkipBlocked, LookupOrResend, Answer, SendDone, Leave, Block
<1>8. CASE ClaimAndSend(t) \/ Refused(t)
  BY <1>1, <1>8 DEF ClaimAndSend, Refused, Throw, Leave, Block
<1>9. ASSUME NEW c \in Commands, Accepted(t, c), UNCHANGED <<phase, scope, page>>,
             others' = others \/ others' = [others EXCEPT ![t] = {}]
      PROVE  SameTab(u)
  BY <1>9 DEF Accepted, Leave, Block
<1>10. CASE ReceiptArrives(t)
  BY <1>9, <1>10 DEF ReceiptArrives, Planned
<1>11. CASE Acknowledge(t)
  BY <1>9, <1>11 DEF Acknowledge, Planned
<1> QED BY <1>2, <1>3, <1>5, <1>6, <1>7, <1>8, <1>10, <1>11 DEF Coordinate

\* Steps that read what is durable, or stutter.
LEMMA ReadingSound ==
  ASSUME Sound, NeverDroppedInv', UNCHANGED <<local, server, changes, receipts, sent>>
  PROVE  Sound' /\ Moves
<1>1. TypeOK /\ TypeOK' /\ QueueOK /\ SentOK
  BY SoundParts DEF NeverDroppedInv
<1>2. UNCHANGED <<row, base, outbox, command, revision, binding>>
  BY DEF local
<1>3. Grown /\ Moves
  BY <1>1, <1>2, SameGrown, StillMoves
<1>4. StillRefuses
  BY DEF StillRefuses
<1>5. ServerOK'
  BY <1>1, <1>2, <1>3, SameServer DEF Sound, Moves
<1>6. CommandsOK'
  BY <1>1, <1>2, <1>3, <1>4, StillCommands DEF Sound
<1>7. ReplicaOK'
  BY <1>1, <1>2, <1>3, SameReplica DEF Sound, Queued
<1> QED BY <1>3, <1>5, <1>6, <1>7 DEF Sound

\* Steps of the server.
LEMMA ServingSound ==
  ASSUME Sound, NeverDroppedInv', Grown, ServerOK', StillRefuses, UNCHANGED <<local, sent>>
  PROVE  Sound' /\ Moves
<1>1. TypeOK /\ TypeOK' /\ QueueOK
  BY SoundParts DEF NeverDroppedInv
<1>2. UNCHANGED <<row, base, outbox, command, revision, binding>>
  BY DEF local
<1>3. Moves
  BY <1>1, <1>2, StillMoves
<1>4. CommandsOK'
  BY <1>1, <1>2, StillCommands DEF Sound
<1>5. ReplicaOK'
  BY <1>1, <1>2, SameReplica DEF Sound, Queued
<1> QED BY <1>3, <1>4, <1>5 DEF Sound

LEMMA ProcessSound ==
  ASSUME Sound, NeverDroppedInv', NEW c \in sent, Process(c), UNCHANGED <<local, sent>>
  PROVE  Sound' /\ Moves
<1>1. TypeOK /\ TypeOK' /\ SentOK /\ ServerOK /\ c \in Commands
  BY SoundParts DEF NeverDroppedInv, TypeOK, RemoteOK
<1>2. UNCHANGED command
  BY DEF local
<1>3. Grown /\ ServerOK' /\ StillRefuses
  BY <1>1, <1>2, ProcessGrown, ProcessServer, ProcessRefuses
<1> QED BY <1>3, ServingSound

LEMMA RemoteWriteSound ==
  ASSUME Sound, NeverDroppedInv', NEW e \in Entities, RemoteWrite(e)
  PROVE  Sound' /\ Moves
<1>1. TypeOK /\ TypeOK' /\ ServerOK
  BY SoundParts DEF NeverDroppedInv
<1>2. UNCHANGED <<local, receipts, sent>>
  BY DEF RemoteWrite
<1>3. Grown /\ ServerOK' /\ StillRefuses
  BY <1>1, <1>2, RemoteGrown, RemoteServer DEF StillRefuses
<1> QED BY <1>2, <1>3, ServingSound

\* Steps of the installation: the server part follows from Moves.
LEMMA InstalledSound ==
  ASSUME Sound, NeverDroppedInv', Moves, CommandsOK', ReplicaOK',
         UNCHANGED <<server, changes, receipts>>
  PROVE  Sound'
<1>1. TypeOK /\ TypeOK' /\ SentOK /\ ServerOK
  BY SoundParts DEF NeverDroppedInv
<1>2. ServerOK'
  BY <1>1, SameServer DEF Moves, Grown
<1> QED BY <1>2 DEF Sound

LEMMA JoinedSound ==
  ASSUME Sound, NeverDroppedInv', NEW i \in Intents, CommitLocalCommand(i)
  PROVE  Sound' /\ Moves
<1>1. TypeOK /\ TypeOK' /\ QueueOK /\ OriginOK /\ ServerOK /\ CommandsOK /\ ReplicaOK
  BY SoundParts DEF NeverDroppedInv
<1>2. Moves /\ CommandsOK'
  BY <1>1, JoinedCommands
<1>3. ReplicaOK'
  BY <1>1, <1>2, JoinedReplica
<1>4. UNCHANGED <<server, changes, receipts>>
  BY DEF CommitLocalCommand, remote
<1> QED BY <1>2, <1>3, <1>4, InstalledSound

LEMMA ReplacedSound ==
  ASSUME Sound, NeverDroppedInv', NEW c, NEW e \in Entities, Replacing(c, e), UNCHANGED remote
  PROVE  Sound' /\ Moves
<1>1. TypeOK /\ TypeOK' /\ QueueOK /\ ServerOK /\ CommandsOK /\ ReplicaOK
  BY SoundParts DEF NeverDroppedInv
<1>2. UNCHANGED <<base, binding, server, changes, receipts, sent>>
  BY DEF Replacing, Replace, remote
<1>3. Moves
  BY <1>1, <1>2, ReplacedMoves
<1>4. CommandsOK'
  BY <1>1, <1>2, ReplacedCommands
<1>5. ReplicaOK'
  BY <1>1, <1>2, ReplacedReplica
<1> QED BY <1>2, <1>3, <1>4, <1>5, InstalledSound

LEMMA RebaseNextSound ==
  ASSUME Sound, NeverDroppedInv', NEW t \in Tabs, RebaseNext(t)
  PROVE  Sound' /\ Moves
<1>1. UNCHANGED remote /\ UNCHANGED <<server, changes, receipts, sent>>
  BY DEF RebaseNext, remote
<1>2. PICK c \in todo[t] :
        \/ \E e \in Entities : Rebasable(t, c, e) /\ Replace(c, e, {})
        \/ UNCHANGED local
  BY DEF RebaseNext
<1>3. CASE UNCHANGED local
  BY <1>1, <1>3, ReadingSound
<1>4. ASSUME NEW e \in Entities, Rebasable(t, c, e), Replace(c, e, {})
      PROVE  Sound' /\ Moves
  <2>1. TypeOK /\ ServerOK /\ CommandsOK /\ c \in Commands
    BY SoundParts DEF TypeOK, TabsOK
  <2>2. Replacing(c, e)
    BY <1>4, <2>1, RebaseReplaces
  <2> QED BY <1>1, <2>2, ReplacedSound
<1> QED BY <1>2, <1>3, <1>4

LEMMA ClaimAndSendSound ==
  ASSUME Sound, NeverDroppedInv', NEW t \in Tabs, TabOK(t), ClaimAndSend(t)
  PROVE  Sound' /\ Moves
<1>1. TypeOK /\ TypeOK' /\ QueueOK /\ CommandsOK /\ ReplicaOK
  BY SoundParts DEF NeverDroppedInv
<1>2. PICK c \in Planned(t) :
        /\ Sendable(t, c) /\ plan[t][c] = "READY"
        /\ \/ /\ outbox[c] = "PENDING" /\ Claim(c) /\ sent' = sent \cup {c}
              /\ UNCHANGED <<row, base, command, revision, binding, server, changes, receipts>>
           \/ Throw(t)
  BY DEF ClaimAndSend
<1>3. CASE Throw(t)
  BY <1>3, ReadingSound DEF Throw, remote
<1>4. CASE /\ outbox[c] = "PENDING" /\ Claim(c) /\ sent' = sent \cup {c}
           /\ UNCHANGED <<row, base, command, revision, binding, server, changes, receipts>>
  <2>1. c \in Commands
    BY DEF Planned
  <2>2. Moves /\ CommandsOK'
    BY <1>1, <1>2, <1>4, <2>1, ClaimCommands DEF TabOK
  <2>3. Queued' = Queued
    BY <1>1, <1>4, <2>1 DEF Claim, Queued, TypeOK, LocalOK
  <2>4. ReplicaOK'
    BY <1>1, <1>4, <2>2, <2>3, SameReplica DEF Moves
  <2> QED BY <1>4, <2>2, <2>4, InstalledSound
<1> QED BY <1>2, <1>3, <1>4

LEMMA LookupOrResendSound ==
  ASSUME Sound, NeverDroppedInv', NEW t \in Tabs, TabOK(t), LookupOrResend(t)
  PROVE  Sound' /\ Moves
<1>1. PICK c \in Planned(t) :
        plan[t][c] = "RECEIPT_REQUIRED" /\ (sent' = sent \/ sent' = sent \cup {c})
  BY DEF LookupOrResend
<1>2. sent' = sent
  BY <1>1 DEF TabOK, TurnsOK, Planned
<1> QED BY <1>2, ReadingSound DEF LookupOrResend

LEMMA AnswerSound ==
  ASSUME Sound, NeverDroppedInv', NEW t \in Tabs, TabOK(t), Answer(t)
  PROVE  Sound' /\ Moves
<1>1. PICK c \in Planned(t) : First(c, Planned(t)) /\ Process(c)
  BY DEF Answer
<1>2. c \in sent
  BY <1>1 DEF Answer, TabOK, CycleOK, Planned
<1> QED BY <1>1, <1>2, ProcessSound DEF Answer

LEMMA RefusedSound ==
  ASSUME Sound, NeverDroppedInv', NEW t \in Tabs, TabOK(t), Refused(t)
  PROVE  Sound' /\ Moves
<1>1. TypeOK /\ TypeOK' /\ QueueOK /\ CommandsOK /\ ReplicaOK
      /\ UNCHANGED <<server, changes, receipts, sent>>
  BY SoundParts DEF NeverDroppedInv, Refused, remote
<1>2. PICK c \in Planned(t) :
        /\ First(c, Planned(t))
        /\ \/ UNCHANGED local
           \/ /\ c \notin receipts /\ outbox[c] = "SENDING" /\ MarkConflict(c)
              /\ UNCHANGED <<row, base, command, revision, binding>>
  BY DEF Refused
<1>3. CASE UNCHANGED local
  BY <1>1, <1>3, ReadingSound
<1>4. CASE /\ c \notin receipts /\ outbox[c] = "SENDING" /\ MarkConflict(c)
           /\ UNCHANGED <<row, base, command, revision, binding>>
  <2>1. c \in Commands /\ Outdated(c)
    BY <1>2, <1>4 DEF Refused, TabOK, CycleOK, Planned
  <2>2. Moves /\ CommandsOK'
    BY <1>1, <1>4, <2>1, RefusedCommands
  <2>3. Queued' = Queued
    BY <1>1, <1>4, <2>1 DEF MarkConflict, Queued, TypeOK, LocalOK
  <2>4. ReplicaOK'
    BY <1>1, <1>4, <2>2, <2>3, SameReplica DEF Moves
  <2> QED BY <1>1, <2>2, <2>4, InstalledSound
<1> QED BY <1>2, <1>3, <1>4

\* What a step does to the cursor and to the bases.
Forward ==
  /\ binding'.cursor >= binding.cursor
  /\ \A e \in Entities : base'[e].ver >= base[e].ver

LEMMA PullCommitSound ==
  ASSUME Sound, NeverDroppedInv', NEW t \in Tabs, TabOK(t), PullCommit(t)
  PROVE  Sound' /\ Moves /\ Forward
<1>1. TypeOK /\ TypeOK' /\ QueueOK /\ CommandsOK /\ ReplicaOK
  BY SoundParts DEF NeverDroppedInv
<1>2. /\ UNCHANGED <<outbox, command, server, changes, receipts, sent>>
      /\ binding.version < binding'.version
  BY <1>1 DEF PullCommit, remote, TypeOK, LocalOK
<1>3. Moves
  BY <1>1, <1>2, SameGrown, StillMoves
<1>4. StillRefuses
  BY <1>2 DEF StillRefuses
<1>5. CommandsOK'
  BY <1>1, <1>2, <1>3, <1>4, StillCommands DEF Moves
<1>6. ReplicaOK' /\ Forward
  BY <1>1, <1>3, PulledReplica DEF TabOK, Forward
<1> QED BY <1>2, <1>3, <1>5, <1>6, InstalledSound

LEMMA AcknowledgeSound ==
  ASSUME Sound, NeverDroppedInv', NEW t \in Tabs, TabOK(t), Acknowledge(t)
  PROVE  Sound' /\ Moves /\ Forward
<1>1. /\ TypeOK /\ TypeOK' /\ QueueOK /\ ServerOK /\ CommandsOK /\ ReplicaOK /\ ReceiptsOK
      /\ UNCHANGED <<command, server, changes, receipts, sent>> /\ pc[t] = "acknowledge"
      /\ binding' = [binding EXCEPT !.version = @ + 1]
  BY SoundParts DEF NeverDroppedInv, Acknowledge, remote
<1>2. binding.version < binding'.version
  BY <1>1 DEF TypeOK, LocalOK
<1>3. PICK c \in Planned(t) :
        /\ First(c, Planned(t)) /\ AckGuard(t, c)
        /\ base' = [e \in Entities |->
             IF e \in Rows(c) THEN Newest(e, Effect(c, e)) ELSE base[e]]
        /\ row' = [e \in Entities |-> IF e \in Shown(t, c) THEN base'[e] ELSE row[e]]
        /\ outbox' = [outbox EXCEPT ![c] = "ABSENT"]
  BY DEF Acknowledge
<1>4. c \in Commands /\ c \in receipts /\ c \in Queued
  BY <1>1, <1>3 DEF Planned, ReceiptsOK, AckGuard, Queued
<1>5. Moves /\ CommandsOK'
  BY <1>1, <1>2, <1>3, <1>4, AcknowledgedCommands
<1>6. ReplicaOK' /\ binding'.cursor = binding.cursor
      /\ \A e \in Entities : base'[e].ver >= base[e].ver
  BY <1>1, <1>3, <1>4, <1>5, AcknowledgedReplica DEF TabOK
<1>7. Forward
  BY <1>1, <1>6 DEF Forward, TypeOK, LocalOK
<1> QED BY <1>1, <1>5, <1>6, <1>7, InstalledSound

LEMMA SameForward ==
  ASSUME TypeOK, UNCHANGED <<base, binding>>
  PROVE  Forward
BY VersionNat DEF Forward, TypeOK, LocalOK

LEMMA CoordinateSound ==
  ASSUME Sound, NeverDroppedInv', NEW t \in Tabs, TabOK(t), Coordinate(t) \/ Fault(t)
  PROVE  Sound' /\ Moves /\ Forward
<1>0. TypeOK
  BY SoundParts
<1>1. CASE \/ Start(t) \/ PullPage(t) \/ ListPending(t) \/ PullNothing(t) \/ PullThrow(t)
           \/ RecoverLookup(t) \/ PlanCycle(t) \/ RebaseDone(t) \/ SkipBlocked(t)
           \/ ReceiptArrives(t) \/ AcknowledgeThrow(t) \/ SendDone(t) \/ Fault(t)
  <2>1. UNCHANGED <<local, remote>>
    BY <1>1 DEF Start, PullPage, ListPending, PullNothing, PullThrow, RecoverLookup, PlanCycle,
       RebaseDone, SkipBlocked, ReceiptArrives, AcknowledgeThrow, SendDone, Fault, Throw
  <2>2. UNCHANGED <<local, server, changes, receipts, sent, base, binding>>
    BY <2>1 DEF local, remote
  <2> QED BY <1>0, <2>2, ReadingSound, SameForward
<1>2. CASE RebaseNext(t)
  <2>1. UNCHANGED <<base, binding>>
    BY <1>2 DEF RebaseNext, Replace, local
  <2> QED BY <1>0, <1>2, <2>1, RebaseNextSound, SameForward
<1>3. CASE ClaimAndSend(t)
  <2>1. UNCHANGED <<base, binding>>
    BY <1>3 DEF ClaimAndSend, Throw, local
  <2> QED BY <1>0, <1>3, <2>1, ClaimAndSendSound, SameForward
<1>4. CASE LookupOrResend(t) \/ Answer(t)
  <2>1. UNCHANGED <<base, binding>>
    BY <1>4 DEF LookupOrResend, Answer, local
  <2> QED BY <1>0, <1>4, <2>1, LookupOrResendSound, AnswerSound, SameForward
<1>5. CASE Refused(t)
  <2>1. UNCHANGED <<base, binding>>
    BY <1>5 DEF Refused, local
  <2> QED BY <1>0, <1>5, <2>1, RefusedSound, SameForward
<1>6. CASE PullCommit(t)
  BY <1>6, PullCommitSound
<1>7. CASE Acknowledge(t)
  BY <1>7, AcknowledgeSound
<1> QED BY <1>1, <1>2, <1>3, <1>4, <1>5, <1>6, <1>7 DEF Coordinate

LEMMA CoordinateTab ==
  ASSUME Sound, Sound', Moves, NEW t \in Tabs, TabOK(t), Coordinate(t) \/ Fault(t)
  PROVE  TabOK(t)'
<1>1. CASE PullThrow(t) \/ AcknowledgeThrow(t) \/ Fault(t)
  BY <1>1, ResetTab DEF PullThrow, AcknowledgeThrow, Fault, Throw
<1>2. CASE PullNothing(t)
  BY <1>2, AfterPageTab DEF PullNothing, local
<1>3. CASE PullCommit(t)
  BY <1>3, AfterPageTab DEF PullCommit, PullGuard, SameBinding
<1>4. CASE Acknowledge(t)
  <2>1. PICK c \in Planned(t) : Accepted(t, c)
    BY <1>4 DEF Acknowledge
  <2>2. c \in Commands /\ pc[t] = "acknowledge" /\ UNCHANGED <<scope, phase>>
    BY <1>4 DEF Acknowledge, Planned
  <2> QED BY <2>1, <2>2, AcceptedTab
<1>5. CASE Start(t) \/ PullPage(t) \/ ListPending(t) \/ RecoverLookup(t) \/ PlanCycle(t)
           \/ RebaseNext(t) \/ RebaseDone(t) \/ SendDone(t)
  BY <1>5, StartTab, PullPageTab, ListPendingTab, RecoverLookupTab, PlanCycleTab,
     RebaseNextTab, RebaseDoneTab, SendDoneTab
<1>6. CASE SkipBlocked(t) \/ ClaimAndSend(t) \/ LookupOrResend(t) \/ Answer(t) \/ Refused(t)
           \/ ReceiptArrives(t)
  BY <1>6, SkipBlockedTab, ClaimAndSendTab, LookupOrResendTab, AnswerTab, RefusedTab,
     ReceiptArrivesTab
<1> QED BY <1>1, <1>2, <1>3, <1>4, <1>5, <1>6 DEF Coordinate

LEMMA InitVersions == Init => VersionsInv
<1> SUFFICES ASSUME Init PROVE VersionsInv
  OBVIOUS
<1>1. NeverDroppedInv
  BY InitKept
<1>2. /\ Queued = {} /\ receipts = {} /\ sent = {} /\ changes = << >> /\ DOMAIN changes = {}
      /\ Len(changes) = 0
      /\ \A c \in Commands : outbox[c] = "ABSENT" /\ Order(c) = 0
  BY DEF Init, Queued, Order, NoCommand
<1>3. \A e \in Entities : /\ server[e] = IF e \in Existing THEN [ver |-> 1, by |-> Remote]
                                         ELSE Unseen
                          /\ row[e] = server[e] /\ base[e] = server[e] /\ Pending(e) = {}
  BY <1>2 DEF Init, Pending
<1>4. \A e \in Entities : server[e].ver > 0 => Held(e, server[e])
  BY <1>3 DEF Held, Unseen
<1>5. ServerOK
  <2>1. \A e \in Existing : server[e].ver > 0
    BY <1>3, EntitiesAssumption
  <2>2. LogOK
    BY <1>2, <1>4, <2>1 DEF LogOK
  <2>3. AppliedOK /\ NoLostUpdate
    BY <1>2 DEF AppliedOK, Applied, NoLostUpdate
  <2> QED BY <2>2, <2>3 DEF ServerOK
<1>6. CommandsOK
  BY <1>2 DEF CommandsOK, SentOK, LeadsItsRows, SupersededOK, ConflictOK, GuardOK
<1>7. ReplicaOK
  <2>1. binding.cursor = 0
    BY DEF Init
  <2>2. BasesOK
    BY <1>2, <1>3, <1>4, <2>1 DEF BasesOK, Held
  <2>3. RowsOK
    BY <1>3 DEF RowsOK
  <2> QED BY <2>2, <2>3 DEF ReplicaOK
<1>8. \A t \in Tabs : TabOK(t)
  <2> SUFFICES ASSUME NEW t \in Tabs PROVE TabOK(t)
    OBVIOUS
  <2>1. /\ pc[t] = "idle" /\ phase[t] = "first" /\ plan[t] = NoPlan
        /\ scope[t].cursor = 0 /\ scope[t].version = 0 /\ binding.version = 1
    BY DEF Init
  <2>2. PagesOK(t) /\ OthersOK(t)
    BY <1>2, <2>1 DEF PagesOK, OthersOK
  <2>3. TurnsOK(t) /\ CycleOK(t)
    BY <2>1 DEF TurnsOK, CycleOK, NoPlan
  <2> QED BY <2>2, <2>3 DEF TabOK
<1> QED BY <1>1, <1>5, <1>6, <1>7, <1>8 DEF VersionsInv

LEMMA NextVersions ==
  ASSUME VersionsInv, [Next]_vars
  PROVE  VersionsInv' /\ (Forward \/ UNCHANGED vars)
<1>1. NeverDroppedInv' /\ Sound /\ TypeOK /\ TypeOK'
  <2>1. NeverDroppedInv'
    BY NextKept DEF VersionsInv
  <2> QED BY <2>1 DEF VersionsInv, Sound, NeverDroppedInv
<1>2. ASSUME Sound', Moves, \A t \in Tabs : SameTab(t)
      PROVE  VersionsInv'
  BY <1>1, <1>2, TabKept DEF VersionsInv, Sound
<1>3. UNCHANGED tabs => \A t \in Tabs : SameTab(t)
  BY DEF tabs, SameTab
<1>4. CASE UNCHANGED vars
  <2>1. UNCHANGED <<local, server, changes, receipts, sent, tabs>>
    BY <1>4 DEF vars, remote
  <2> QED BY <1>1, <1>2, <1>3, <1>4, <2>1, ReadingSound
<1>5. ASSUME NEW i \in Intents, CommitLocalCommand(i) PROVE VersionsInv' /\ Forward
  BY <1>1, <1>2, <1>3, <1>5, JoinedSound, SameForward DEF CommitLocalCommand
<1>6. ASSUME NEW c \in Commands, NEW e \in Entities, ReviewConflict(c, e)
      PROVE  VersionsInv' /\ Forward
  <2>1. Replacing(c, e)
    BY <1>1, <1>6, ReviewReplaces
  <2>2. UNCHANGED <<remote, tabs>> /\ UNCHANGED <<base, binding>>
    BY <1>6 DEF ReviewConflict, Replace
  <2> QED BY <1>1, <1>2, <1>3, <2>1, <2>2, ReplacedSound, SameForward
<1>7. ASSUME NEW e \in Entities, RemoteWrite(e) PROVE VersionsInv' /\ Forward
  BY <1>1, <1>2, <1>3, <1>7, RemoteWriteSound, SameForward DEF RemoteWrite, local
<1>8. ASSUME NEW c \in Commands, LateDelivery(c) PROVE VersionsInv' /\ Forward
  <2>1. c \in sent /\ Process(c)
    BY <1>8 DEF LateDelivery, Process
  <2>2. UNCHANGED <<local, sent, tabs>> /\ UNCHANGED <<base, binding>>
    BY <1>8 DEF LateDelivery, local
  <2> QED BY <1>1, <1>2, <1>3, <2>1, <2>2, ProcessSound, SameForward
<1>9. ASSUME NEW t \in Tabs, Coordinate(t) \/ Fault(t) PROVE VersionsInv' /\ Forward
  <2>1. TabOK(t)
    BY DEF VersionsInv
  <2>2. Sound' /\ Moves /\ Forward
    BY <1>1, <1>9, <2>1, CoordinateSound
  <2>3. TabOK(t)'
    BY <1>1, <1>9, <2>1, <2>2, CoordinateTab
  <2>4. \A u \in Tabs \ {t} : TabOK(u)'
    BY <1>1, <1>9, <2>2, OneTab, TabKept DEF VersionsInv
  <2> QED BY <2>2, <2>3, <2>4 DEF VersionsInv, Sound
<1> QED BY <1>4, <1>5, <1>6, <1>7, <1>8, <1>9 DEF Next

-----------------------------------------------------------------------------
(* What the installation promises its user. *)

LEMMA OnceImplied == VersionsInv => EditAppliedOnce
<1> SUFFICES ASSUME VersionsInv PROVE EditAppliedOnce
  OBVIOUS
<1>1. /\ TypeOK /\ LogOK /\ AppliedOK /\ SentOK /\ SupersededOK
  BY DEF VersionsInv, NeverDroppedInv, ServerOK, CommandsOK
<1>2. ASSUME NEW c \in Applied, NEW d \in Applied, c[1] = d[1], c[2] < d[2] PROVE FALSE
  <2>1. c \in receipts /\ d \in sent /\ c \in Commands /\ d \in Commands
    BY <1>1 DEF AppliedOK, Applied
  <2>2. Order(d) > 0
    BY <1>1, <2>1 DEF SentOK
  <2> QED BY <1>1, <1>2, <2>1, <2>2 DEF SupersededOK
<1>3. \A c, d \in Applied : c[1] = d[1] => c = d
  <2> SUFFICES ASSUME NEW c \in Applied, NEW d \in Applied, c[1] = d[1] PROVE c = d
    OBVIOUS
  <2>1. /\ c \in Commands /\ d \in Commands /\ c = <<c[1], c[2]>> /\ d = <<d[1], d[2]>>
        /\ c[2] \in Nat /\ d[2] \in Nat
    BY BoundsAssumption DEF Applied, Commands
  <2>2. ~ (c[2] < d[2]) /\ ~ (d[2] < c[2])
    BY <1>2
  <2>3. c[2] = d[2]
    BY <2>1, <2>2
  <2> QED BY <2>1, <2>3
<1>4. ASSUME NEW j \in DOMAIN changes, NEW k \in DOMAIN changes, changes[j].by \in Commands,
             changes[j].by = changes[k].by, changes[j].e = changes[k].e
      PROVE  j = k
  <2>1. changes[j].by # Remote /\ changes[k].by # Remote
    BY <1>4, RemoteAssumption
  <2>2. changes[j].ver = changes[k].ver /\ changes[j].ver \in Nat
    BY <1>1, <1>4, <2>1, VersionNat DEF AppliedOK
  <2>3. ~ (j < k) /\ ~ (k < j)
    BY <1>1, <1>4, <2>2 DEF LogOK
  <2>4. j \in Nat /\ k \in Nat
    BY <1>1, VersionNat
  <2> QED BY <2>3, <2>4
<1> QED BY <1>3, <1>4 DEF EditAppliedOnce

LEMMA InvariantVersions == Spec => []VersionsInv
<1>1. VersionsInv /\ [Next]_vars => VersionsInv'
  BY NextVersions
<1> QED BY <1>1, InitVersions, PTL DEF Spec

\* Whatever is retried, rebased, reviewed or sent by two tabs: of all commands
\* that ever carried an edit the server applied at most one, once on each row.
THEOREM AppliedOnce == Spec => []EditAppliedOnce
BY InvariantVersions, OnceImplied, PTL

\* The server applied a command only over the very row its author had edited.
THEOREM NothingOverwritten == Spec => []NoLostUpdate
<1>1. VersionsInv => NoLostUpdate
  BY DEF VersionsInv, ServerOK
<1> QED BY <1>1, InvariantVersions, PTL

\* The cursor never passes a change that was not taken over, and every base is a
\* row the server had.
THEOREM CursorCovers == Spec => []CursorCoversChanges
<1>1. VersionsInv => CursorCoversChanges
  BY DEF VersionsInv, ReplicaOK, BasesOK, CursorCoversChanges
<1> QED BY <1>1, InvariantVersions, PTL

\* A pull or an acknowledgement never paints over the user's last edit.
THEOREM NewestShown == Spec => []NewestEditShown
<1>1. VersionsInv => NewestEditShown
  BY DEF VersionsInv, ReplicaOK, RowsOK, NewestEditShown
<1> QED BY <1>1, InvariantVersions, PTL

\* However stale the page or the receipt, the cursor and the bases move forward.
THEOREM OnlyForward == Spec => NeverBackwards
<1>1. ASSUME VersionsInv, [Next]_vars
      PROVE  [Forward]_vars
  BY <1>1, NextVersions
<1>2. VersionsInv /\ [Next]_vars =>
        [/\ binding'.cursor >= binding.cursor
         /\ \A e \in Entities : base'[e].ver >= base[e].ver]_vars
  BY <1>1 DEF Forward
<1> QED BY <1>2, InvariantVersions, PTL DEF Spec, NeverBackwards

-----------------------------------------------------------------------------
(* The ledger of edits: every step moves one edit as EditLedger allows, or  *)
(* none.                                                                    *)

Fate   == [i \in Intents |-> Stage(i)]
Served == {c[1] : c \in Applied}

\* The stage of the edit that a command in state s carries.
Carried(s) ==
  CASE s = "PENDING"  -> "waiting"
    [] s = "SENDING"  -> "attempted"
    [] s = "CONFLICT" -> "refused"

\* Stage as a function of the states of the commands.
StageFrom(out, order, i) ==
  LET states == {out[c] : c \in {i} \X (0 .. MaxReplace)} IN
  IF order = 0 THEN "none"
  ELSE IF "PENDING" \in states THEN "waiting"
  ELSE IF "SENDING" \in states THEN "attempted"
  ELSE IF "CONFLICT" \in states THEN "refused"
  ELSE "settled"

LEMMA OfEdit ==
  ASSUME NEW i \in Intents
  PROVE  /\ \A c \in Commands : c[1] = i => c \in {i} \X (0 .. MaxReplace)
         /\ \A c \in {i} \X (0 .. MaxReplace) : c \in Commands /\ c[1] = i
BY DEF Commands

LEMMA StageCarried ==
  ASSUME NEW out, NEW order, order # 0, NEW c \in Commands,
         out[c] \in {"PENDING", "SENDING", "CONFLICT"},
         \A d \in Commands : d[1] = c[1] /\ d # c => out[d] = "ABSENT"
  PROVE  StageFrom(out, order, c[1]) = Carried(out[c])
<1> DEFINE states == {out[d] : d \in {c[1]} \X (0 .. MaxReplace)}
<1>1. c[1] \in Intents
  BY DEF Commands
<1>2. out[c] \in states /\ \A s \in states : s = out[c] \/ s = "ABSENT"
  BY <1>1, OfEdit
<1>3. StageFrom(out, order, c[1]) =
        IF "PENDING" \in states THEN "waiting"
        ELSE IF "SENDING" \in states THEN "attempted"
        ELSE IF "CONFLICT" \in states THEN "refused"
        ELSE "settled"
  BY DEF StageFrom
<1> HIDE DEF states
<1> QED BY <1>2, <1>3 DEF Carried

LEMMA StageFree ==
  ASSUME NEW out, NEW order, order # 0, NEW i \in Intents,
         \A d \in Commands : d[1] = i => out[d] = "ABSENT"
  PROVE  StageFrom(out, order, i) = "settled"
<1> DEFINE states == {out[d] : d \in {i} \X (0 .. MaxReplace)}
<1>1. \A s \in states : s = "ABSENT"
  BY OfEdit
<1>2. StageFrom(out, order, i) =
        IF "PENDING" \in states THEN "waiting"
        ELSE IF "SENDING" \in states THEN "attempted"
        ELSE IF "CONFLICT" \in states THEN "refused"
        ELSE "settled"
  BY DEF StageFrom
<1> HIDE DEF states
<1> QED BY <1>1, <1>2

LEMMA StageSame ==
  ASSUME NEW out, NEW other, NEW order, NEW i \in Intents,
         \A d \in Commands : d[1] = i => out[d] = other[d]
  PROVE  StageFrom(out, order, i) = StageFrom(other, order, i)
<1>1. {out[d] : d \in {i} \X (0 .. MaxReplace)} = {other[d] : d \in {i} \X (0 .. MaxReplace)}
  BY OfEdit
<1> QED BY <1>1 DEF StageFrom

\* A queued command alone decides the stage of its edit.
LEMMA StageQueued ==
  ASSUME TypeOK, QueueOK, OriginOK, NEW c \in Queued
  PROVE  Stage(c[1]) = Carried(outbox[c])
<1>1. c \in Commands /\ Order(<<c[1], 0>>) > 0
  BY DEF QueueOK, OriginOK, Queued, Order
<1>2. <<c[1], 0>> \in Commands
  BY <1>1, BoundsAssumption DEF Commands
<1>3. Order(<<c[1], 0>>) # 0
  BY <1>1, <1>2, OrdersNat
<1>4. \A d \in Commands : d[1] = c[1] /\ d # c => outbox[d] = "ABSENT"
  BY OneGeneration DEF Queued
<1>5. outbox[c] \in {"PENDING", "SENDING", "CONFLICT"}
  BY <1>1 DEF TypeOK, LocalOK, Queued
<1>6. Stage(c[1]) = StageFrom(outbox, Order(<<c[1], 0>>), c[1])
  BY DEF Stage, StageFrom, Order
<1> QED BY <1>1, <1>3, <1>4, <1>5, <1>6, StageCarried

\* What happens to the commands of one edit leaves the others where they are.
LEMMA EditMoves ==
  ASSUME NEW i \in Intents, NEW to, Stage(i)' = to,
         \A d \in Commands : d[1] # i => outbox'[d] = outbox[d] /\ Order(d)' = Order(d)
  PROVE  Fate' = [Fate EXCEPT ![i] = to]
<1>1. ASSUME NEW j \in Intents \ {i} PROVE Stage(j)' = Stage(j)
  <2>1. <<j, 0>> \in Commands /\ <<j, 0>>[1] # i
    BY BoundsAssumption DEF Commands
  <2>2. \A d \in Commands : d[1] = j => outbox'[d] = outbox[d]
    OBVIOUS
  <2>3. Stage(j) = StageFrom(outbox, Order(<<j, 0>>), j)
    BY DEF Stage, StageFrom, Order
  <2>4. Stage(j)' = StageFrom(outbox', Order(<<j, 0>>)', j)
    BY DEF Stage, StageFrom, Order
  <2>5. Order(<<j, 0>>)' = Order(<<j, 0>>)
    BY <2>1
  <2> QED BY <2>2, <2>3, <2>4, <2>5, StageSame
<1> QED BY <1>1 DEF Fate

\* A queued command whose edit keeps its place keeps its stage.
LEMMA FateSame ==
  ASSUME UNCHANGED <<outbox, command>>
  PROVE  Fate' = Fate
BY DEF Fate, Stage

LEMMA StageChanged ==
  ASSUME TypeOK', NEW c \in Commands, outbox'[c] \in {"PENDING", "SENDING", "CONFLICT"},
         QueueOK', OriginOK'
  PROVE  Stage(c[1])' = Carried(outbox'[c])
<1>1. c \in Queued' /\ Order(<<c[1], 0>>)' > 0
  BY DEF QueueOK, OriginOK, Queued, Order
<1>2. <<c[1], 0>> \in Commands
  BY BoundsAssumption DEF Commands
<1>3. Order(<<c[1], 0>>)' # 0
  BY <1>1, <1>2 DEF TypeOK, LocalOK, Order
<1>4. ASSUME NEW d \in Commands, d[1] = c[1], d # c PROVE outbox'[d] = "ABSENT"
  <2>1. c[2] # d[2] /\ c[2] \in Nat /\ d[2] \in Nat
    BY <1>4, BoundsAssumption DEF Commands
  <2>2. d \in Queued' => FALSE
    <3>1. d \in Queued' /\ c[2] < d[2] => command'[d].order = 0 /\ command'[d].order > 0
      BY <1>1, <1>4 DEF QueueOK
    <3>2. d \in Queued' /\ d[2] < c[2] => command'[c].order = 0 /\ command'[c].order > 0
      BY <1>1, <1>4 DEF QueueOK
    <3>3. c[2] < d[2] \/ d[2] < c[2]
      BY <2>1
    <3> QED BY ONLY <3>1, <3>2, <3>3
  <2> QED BY <2>2 DEF Queued
<1>5. Stage(c[1])' = StageFrom(outbox', Order(<<c[1], 0>>)', c[1])
  BY DEF Stage, StageFrom, Order
<1> QED BY <1>3, <1>4, <1>5, StageCarried

LEMMA SoundServed ==
  ASSUME Sound, Sound'
  PROVE  /\ Served = {c[1] : c \in receipts} /\ Served' = {c[1] : c \in receipts'}
BY DEF Sound, ServerOK, AppliedOK, Served

\* The server has applied no command of an edit that still waits for its answer.
LEMMA NotServed ==
  ASSUME Sound, NEW c \in Commands, Order(c) > 0, c \notin receipts,
         c \in Queued \/ ~ Outdated(c)
  PROVE  c[1] \notin Served
<1>1. QueueOK /\ SupersededOK /\ SentOK /\ AppliedOK
  BY SoundParts DEF CommandsOK
<1> SUFFICES ASSUME NEW d \in Applied, d[1] = c[1] PROVE FALSE
  BY DEF Served
<1>2. d \in Commands /\ d \in receipts /\ d \in sent /\ Order(d) > 0 /\ d # c
  BY <1>1 DEF Applied, AppliedOK, SentOK
<1>3. ~ (d[2] < c[2])
  BY <1>1, <1>2 DEF SupersededOK
<1>4. ~ (c[2] < d[2])
  <2> SUFFICES ASSUME c[2] < d[2] PROVE FALSE
    OBVIOUS
  <2>1. Outdated(c)
    BY <1>1, <1>2 DEF SupersededOK
  <2>2. d[2] > c[2] /\ c[2] \in Nat /\ d[2] \in Nat
    BY <1>2, BoundsAssumption DEF Commands
  <2>3. c \in Queued => Order(d) = 0
    BY <1>1, <1>2, <2>2 DEF QueueOK, Order
  <2>4. Order(d) # 0
    BY <1>2
  <2> QED BY <2>1, <2>3, <2>4
<1>5. c[2] # d[2] /\ c[2] \in Nat /\ d[2] \in Nat
  BY <1>2, BoundsAssumption DEF Commands
<1> QED BY <1>3, <1>4, <1>5

LedgerStays == Fate' = Fate /\ Served' = Served
Carries(i, from, to) == Stage(i) = from /\ Fate' = [Fate EXCEPT ![i] = to]

LEMMA LedgerKept == LedgerStays => UNCHANGED Ledger!ledger
BY DEF LedgerStays, Fate, Served, Ledger!ledger

LEMMA LedgerMoved ==
  ASSUME NEW i \in Intents
  PROVE  /\ Carries(i, "none", "waiting") /\ Served' = Served => Ledger!Next
         /\ Carries(i, "waiting", "attempted") /\ Served' = Served => Ledger!Next
         /\ Carries(i, "refused", "waiting") /\ Served' = Served => Ledger!Next
         /\ Carries(i, "attempted", "refused") /\ Served' = Served /\ i \notin Served
              => Ledger!Next
         /\ Carries(i, "attempted", "settled") /\ Served' = Served /\ i \in Served
              => Ledger!Next
         /\ Stage(i) = "attempted" /\ i \notin Served /\ Served' = Served \cup {i}
              /\ Fate' = Fate => Ledger!Next
<1> USE DEF Carries, Fate, Served
<1>1. Carries(i, "none", "waiting") /\ Served' = Served => Ledger!Record(i)
  BY DEF Ledger!Record, Ledger!Move
<1>2. Carries(i, "waiting", "attempted") /\ Served' = Served => Ledger!Attempt(i)
  BY DEF Ledger!Attempt, Ledger!Move
<1>3. Carries(i, "refused", "waiting") /\ Served' = Served => Ledger!Retry(i)
  BY DEF Ledger!Retry, Ledger!Move
<1>4. Carries(i, "attempted", "refused") /\ Served' = Served /\ i \notin Served
        => Ledger!Refuse(i)
  BY DEF Ledger!Refuse, Ledger!Move
<1>5. Carries(i, "attempted", "settled") /\ Served' = Served /\ i \in Served
        => Ledger!Settle(i)
  BY DEF Ledger!Settle, Ledger!Move
<1>6. Stage(i) = "attempted" /\ i \notin Served /\ Served' = Served \cup {i} /\ Fate' = Fate
        => Ledger!ApplyEdit(i)
  BY DEF Ledger!ApplyEdit
<1> HIDE DEF Carries, Fate, Served
<1> QED BY <1>1, <1>2, <1>3, <1>4, <1>5, <1>6 DEF Ledger!Next

LedgerStep == Ledger!Next \/ UNCHANGED Ledger!ledger

\* Steps that leave the Outbox and the receipts alone.
LEMMA StayingStep ==
  ASSUME Sound, Sound', UNCHANGED <<outbox, command, receipts>>
  PROVE  LedgerStep
BY SoundServed, FateSame, LedgerKept DEF LedgerStays, LedgerStep

\* The server applies a command that is still attempted, whoever delivers it.
LEMMA ProcessStep ==
  ASSUME Sound, Sound', NEW c \in sent, Process(c), UNCHANGED <<outbox, command>>
  PROVE  LedgerStep
<1>1. CASE ~ Accepts(c)
  BY <1>1, StayingStep DEF Process
<1>2. CASE Accepts(c)
  <2>1. /\ TypeOK /\ QueueOK /\ OriginOK /\ SentOK /\ ConflictOK /\ AppliedOK /\ EditKept
        /\ c \in Commands /\ Order(c) > 0
    BY SoundParts DEF CommandsOK, TypeOK, RemoteOK, SentOK, Sound, NeverDroppedInv
  <2>2. c \notin receipts /\ receipts' = receipts \cup {c}
    BY <1>2 DEF Process, Accepts, Apply, StoreReceipt
  <2>3. ~ Outdated(c)
    <3>1. \A e \in Rows(c) : server[e].ver = BuiltOn(c, e).ver /\ server[e].ver \in Nat
      BY <1>2, <2>1, VersionNat, RowsEntities DEF Accepts, Current, BuiltOn
    <3> QED BY <3>1 DEF Outdated
  <2>4. c[1] \notin Served
    BY <2>1, <2>2, <2>3, NotServed
  <2>5. c \in Queued
    <3>1. c[1] \in Intents /\ Order(<<c[1], 0>>) > 0
      BY <2>1 DEF Commands, OriginOK, Order
    <3>2. PICK d \in Queued \cup Applied : d[1] = c[1]
      BY <2>1, <3>1 DEF EditKept, Order
    <3>3. d \in Queued /\ d \in Commands
      BY <2>4, <3>2 DEF Served, Queued
    <3>4. c[2] \in Nat /\ d[2] \in Nat /\ c = <<c[1], c[2]>> /\ d = <<d[1], d[2]>>
      BY <2>1, <3>3, BoundsAssumption DEF Commands
    <3>5. ~ (c[2] < d[2])
      <4> SUFFICES ASSUME c[2] < d[2] PROVE FALSE
        OBVIOUS
      <4>1. Order(d) > 0
        BY <2>1, <3>3 DEF QueueOK, Order
      <4> QED BY <2>1, <2>3, <3>2, <3>3, <4>1, SoundParts DEF CommandsOK, SupersededOK
    <3>6. ~ (c[2] > d[2])
      <4> SUFFICES ASSUME c[2] > d[2] PROVE FALSE
        OBVIOUS
      <4>1. Order(c) = 0
        BY <2>1, <3>2, <3>3 DEF QueueOK, Order
      <4> QED BY <2>1, <4>1
    <3>7. c[2] = d[2]
      BY <3>4, <3>5, <3>6
    <3> QED BY <3>2, <3>3, <3>4, <3>7
  <2>6. outbox[c] = "SENDING"
    <3>1. outbox[c] \in {"ABSENT", "PENDING", "SENDING", "CONFLICT"}
      BY <2>1 DEF TypeOK, LocalOK
    <3> QED BY <2>1, <2>3, <2>5, <3>1 DEF SentOK, ConflictOK, Queued
  <2>7. Stage(c[1]) = "attempted" /\ c[1] \in Intents
    BY <2>1, <2>5, <2>6, StageQueued DEF Carried, Commands
  <2>8. Served' = Served \cup {c[1]}
    BY <2>2, SoundServed
  <2> QED BY <2>4, <2>7, <2>8, FateSame, LedgerMoved DEF LedgerStep
<1> QED BY <1>1, <1>2

\* A command of an edit, and only it, changes its state in the Outbox.
LEMMA StateStep ==
  ASSUME Sound, Sound', NEW c \in Queued, NEW s \in {"PENDING", "SENDING", "CONFLICT"},
         outbox' = [outbox EXCEPT ![c] = s], UNCHANGED <<command, receipts>>
  PROVE  Carries(c[1], Carried(outbox[c]), Carried(s)) /\ Served' = Served /\ c[1] \in Intents
<1>1. /\ TypeOK /\ QueueOK /\ OriginOK /\ c \in Commands /\ c[1] \in Intents
      /\ TypeOK' /\ QueueOK' /\ OriginOK'
  BY SoundParts DEF Queued, Commands, Sound, NeverDroppedInv
<1>2. \A d \in Commands : outbox'[d] = IF d = c THEN s ELSE outbox[d]
  BY <1>1 DEF TypeOK, LocalOK
<1>3. Stage(c[1])' = Carried(s)
  BY <1>1, <1>2, StageChanged
<1>4. \A d \in Commands : d[1] # c[1] => outbox'[d] = outbox[d] /\ Order(d)' = Order(d)
  BY <1>1, <1>2 DEF Order
<1>5. Fate' = [Fate EXCEPT ![c[1]] = Carried(s)]
  BY ONLY <1>1, <1>3, <1>4, EditMoves
<1> QED BY <1>1, <1>5, StageQueued, SoundServed DEF Carries

LEMMA RecordStep ==
  ASSUME Sound, Sound', NEW i \in Intents, CommitLocalCommand(i)
  PROVE  LedgerStep
<1> DEFINE c == <<i, 0>>
<1>1. /\ TypeOK /\ c \in Commands /\ c[1] = i
      /\ TypeOK' /\ QueueOK' /\ OriginOK' /\ UNCHANGED <<receipts>>
  BY SoundParts, BoundsAssumption
     DEF Commands, Sound, NeverDroppedInv, CommitLocalCommand, remote
<1>2. Order(c) = 0
  BY DEF CommitLocalCommand, Order
<1>3. /\ \A d \in Commands : outbox'[d] = IF d = c THEN "PENDING" ELSE outbox[d]
      /\ \A d \in Commands \ {c} : Order(d)' = Order(d)
  BY <1>1 DEF CommitLocalCommand, TypeOK, LocalOK, Order
<1>4. Stage(i) = "none"
  BY <1>2 DEF Stage, Order
<1> HIDE DEF c
<1>5. Stage(i)' = "waiting"
  BY <1>1, <1>3, StageChanged DEF Carried
<1>6. \A d \in Commands : d[1] # i => outbox'[d] = outbox[d] /\ Order(d)' = Order(d)
  BY <1>1, <1>3
<1>7. Fate' = [Fate EXCEPT ![i] = "waiting"]
  BY ONLY <1>5, <1>6, EditMoves
<1>8. Served' = Served
  BY <1>1, SoundServed
<1> QED BY <1>4, <1>7, <1>8, LedgerMoved DEF Carries, LedgerStep

\* A replacement has its edit wait again: a review for what was refused, a
\* rebase for what waited.
LEMMA ReplacingStep ==
  ASSUME Sound, Sound', NEW c, NEW e \in Entities, Replacing(c, e), UNCHANGED remote,
         outbox[c] \in {"PENDING", "CONFLICT"}
  PROVE  LedgerStep
<1> DEFINE d == <<c[1], c[2] + 1>>
<1>1. /\ TypeOK /\ QueueOK /\ OriginOK /\ ServerOK /\ CommandsOK /\ c \in Queued
      /\ TypeOK' /\ QueueOK' /\ OriginOK' /\ UNCHANGED <<server, changes, receipts, sent>>
  BY SoundParts DEF Sound, NeverDroppedInv, remote, Replacing
<1> HIDE DEF d
<1>2. /\ c \in Commands /\ d \in Commands /\ d[1] = c[1]
      /\ \A x \in Commands \ {d} : command'[x] = command[x]
      /\ \A x \in Commands : outbox'[x] =
           CASE x = c -> "ABSENT" [] x = d -> "PENDING" [] OTHER -> outbox[x]
      /\ d # c
  BY <1>1, ReplacedQueue DEF d
<1>3. c[1] \in Intents
  BY <1>2 DEF Commands
<1>4. Stage(c[1])' = "waiting"
  <2>1. outbox'[d] = "PENDING"
    BY <1>2
  <2> QED BY <1>1, <1>2, <2>1, StageChanged DEF Carried
<1>5. \A x \in Commands : x[1] # c[1] => outbox'[x] = outbox[x] /\ Order(x)' = Order(x)
  BY <1>2 DEF Order
<1>6. Fate' = [Fate EXCEPT ![c[1]] = "waiting"]
  BY ONLY <1>3, <1>4, <1>5, EditMoves
<1>7. Served' = Served /\ Stage(c[1]) = Carried(outbox[c])
  BY <1>1, SoundServed, StageQueued
<1>8. CASE outbox[c] = "PENDING"
  <2>1. Stage(c[1]) = "waiting"
    BY <1>7, <1>8 DEF Carried
  <2>2. Fate' = Fate
    BY <1>3, <1>6, <2>1 DEF Fate
  <2> QED BY <1>7, <2>2, LedgerKept DEF LedgerStays, LedgerStep
<1>9. CASE outbox[c] = "CONFLICT"
  <2>1. Stage(c[1]) = "refused"
    BY <1>7, <1>9 DEF Carried
  <2> QED BY <1>3, <1>6, <1>7, <2>1, LedgerMoved DEF Carries, LedgerStep
<1> QED BY <1>8, <1>9

LEMMA RebaseStep ==
  ASSUME Sound, Sound', NEW t \in Tabs, RebaseNext(t)
  PROVE  LedgerStep
<1>1. UNCHANGED remote /\ UNCHANGED receipts /\ TypeOK /\ ServerOK /\ CommandsOK
  BY SoundParts DEF RebaseNext, remote
<1>2. PICK c \in todo[t] :
        \/ \E e \in Entities : Rebasable(t, c, e) /\ Replace(c, e, {})
        \/ UNCHANGED local
  BY DEF RebaseNext
<1>3. CASE UNCHANGED local
  BY <1>1, <1>3, StayingStep DEF local
<1>4. ASSUME NEW e \in Entities, Rebasable(t, c, e), Replace(c, e, {})
      PROVE  LedgerStep
  <2>1. c \in Commands /\ outbox[c] = "PENDING"
    BY <1>1, <1>4 DEF TypeOK, TabsOK, Rebasable, NeverSent
  <2>2. Replacing(c, e)
    BY <1>1, <1>4, <2>1, RebaseReplaces
  <2> QED BY <1>1, <2>1, <2>2, ReplacingStep
<1> QED BY <1>2, <1>3, <1>4

LEMMA ClaimStep ==
  ASSUME Sound, Sound', NEW t \in Tabs, ClaimAndSend(t)
  PROVE  LedgerStep
<1>1. PICK c \in Planned(t) :
        \/ /\ outbox[c] = "PENDING" /\ Claim(c)
           /\ UNCHANGED <<command, receipts>>
        \/ Throw(t)
  BY DEF ClaimAndSend
<1>2. CASE Throw(t)
  BY <1>2, StayingStep DEF Throw, local, remote
<1>3. CASE outbox[c] = "PENDING" /\ Claim(c) /\ UNCHANGED <<command, receipts>>
  <2>1. c \in Queued /\ outbox' = [outbox EXCEPT ![c] = "SENDING"]
    BY <1>3 DEF Queued, Planned, Claim
  <2>2. /\ Carries(c[1], Carried(outbox[c]), Carried("SENDING")) /\ Served' = Served
        /\ c[1] \in Intents
    BY <1>3, <2>1, StateStep
  <2>3. Carried(outbox[c]) = "waiting" /\ Carried("SENDING") = "attempted"
    BY <1>3 DEF Carried
  <2>4. Carries(c[1], "waiting", "attempted")
    BY <2>2, <2>3
  <2> QED BY <2>2, <2>4, LedgerMoved DEF LedgerStep
<1> QED BY <1>1, <1>2, <1>3

LEMMA RefusedStep ==
  ASSUME Sound, Sound', NEW t \in Tabs, TabOK(t), Refused(t)
  PROVE  LedgerStep
<1>1. pc[t] = "refused" /\ UNCHANGED receipts
  BY DEF Refused, remote
<1>2. PICK c \in Planned(t) :
        /\ First(c, Planned(t))
        /\ \/ UNCHANGED local
           \/ /\ c \notin receipts /\ outbox[c] = "SENDING" /\ MarkConflict(c)
              /\ UNCHANGED command
  BY DEF Refused
<1>3. CASE UNCHANGED local
  BY <1>1, <1>3, StayingStep DEF local
<1>4. CASE c \notin receipts /\ outbox[c] = "SENDING" /\ MarkConflict(c) /\ UNCHANGED command
  <2>1. c \in Queued /\ c \in Commands /\ outbox' = [outbox EXCEPT ![c] = "CONFLICT"]
    BY <1>4 DEF Queued, Planned, MarkConflict
  <2>2. /\ Carries(c[1], Carried(outbox[c]), Carried("CONFLICT")) /\ Served' = Served
        /\ c[1] \in Intents
    BY <1>1, <1>4, <2>1, StateStep
  <2>3. Carried(outbox[c]) = "attempted" /\ Carried("CONFLICT") = "refused"
    BY <1>4 DEF Carried
  <2>4. Order(c) > 0
    BY <2>1, SoundParts DEF QueueOK, Order
  <2>5. c[1] \notin Served
    BY <1>4, <2>1, <2>4, NotServed
  <2>6. Carries(c[1], "attempted", "refused")
    BY <2>2, <2>3
  <2> QED BY <2>2, <2>5, <2>6, LedgerMoved DEF LedgerStep
<1> QED BY <1>2, <1>3, <1>4

LEMMA AcknowledgeStep ==
  ASSUME Sound, Sound', NEW t \in Tabs, Acknowledge(t)
  PROVE  LedgerStep
<1>1. /\ TypeOK /\ TypeOK' /\ QueueOK /\ OriginOK /\ ReceiptsOK
      /\ pc[t] = "acknowledge" /\ UNCHANGED <<command, receipts>>
  BY SoundParts DEF Sound, NeverDroppedInv, Acknowledge, remote
<1>2. PICK c \in Planned(t) :
        First(c, Planned(t)) /\ outbox[c] = "SENDING" /\ outbox' = [outbox EXCEPT ![c] = "ABSENT"]
  BY DEF Acknowledge, AckGuard
<1>3. /\ c \in Commands /\ c \in Queued /\ c \in receipts /\ c[1] \in Intents
  BY <1>1, <1>2 DEF Planned, ReceiptsOK, Queued, Commands
<1>4. \A d \in Commands : outbox'[d] = IF d = c THEN "ABSENT" ELSE outbox[d]
  BY <1>1, <1>2 DEF TypeOK, LocalOK
<1>5. \A d \in Commands : d[1] = c[1] => outbox'[d] = "ABSENT"
  BY <1>1, <1>3, <1>4, OneGeneration DEF Queued
<1>6. Stage(c[1])' = "settled"
  <2>1. <<c[1], 0>> \in Commands
    BY <1>3, BoundsAssumption DEF Commands
  <2>2. Order(<<c[1], 0>>)' = Order(<<c[1], 0>>) /\ Order(<<c[1], 0>>) # 0
    BY <1>1, <1>3, <2>1, OrdersNat DEF QueueOK, OriginOK, Order
  <2>3. Stage(c[1])' = StageFrom(outbox', Order(<<c[1], 0>>)', c[1])
    BY DEF Stage, StageFrom, Order
  <2> QED BY <1>3, <1>5, <2>2, <2>3, StageFree
<1>7. \A d \in Commands : d[1] # c[1] => outbox'[d] = outbox[d] /\ Order(d)' = Order(d)
  BY <1>1, <1>4 DEF Order
<1>8. Fate' = [Fate EXCEPT ![c[1]] = "settled"]
  BY ONLY <1>3, <1>6, <1>7, EditMoves
<1>9. Stage(c[1]) = "attempted" /\ Served' = Served /\ c[1] \in Served
  BY <1>1, <1>2, <1>3, StageQueued, SoundServed DEF Carried
<1> QED BY <1>3, <1>8, <1>9, LedgerMoved DEF Carries, LedgerStep

LEMMA CoordinateStep ==
  ASSUME Sound, Sound', NEW t \in Tabs, TabOK(t), Coordinate(t) \/ Fault(t)
  PROVE  LedgerStep
<1>1. CASE \/ Start(t) \/ PullPage(t) \/ ListPending(t) \/ PullNothing(t) \/ PullThrow(t)
           \/ RecoverLookup(t) \/ PlanCycle(t) \/ RebaseDone(t) \/ SkipBlocked(t)
           \/ ReceiptArrives(t) \/ AcknowledgeThrow(t) \/ SendDone(t) \/ Fault(t)
  <2>1. UNCHANGED <<local, remote>>
    BY <1>1 DEF Start, PullPage, ListPending, PullNothing, PullThrow, RecoverLookup, PlanCycle,
       RebaseDone, SkipBlocked, ReceiptArrives, AcknowledgeThrow, SendDone, Fault, Throw
  <2>2. UNCHANGED <<outbox, command, receipts>>
    BY <2>1 DEF local, remote
  <2> QED BY <2>2, StayingStep
<1>2. CASE PullCommit(t)
  BY <1>2, StayingStep DEF PullCommit, remote
<1>3. CASE LookupOrResend(t)
  BY <1>3, StayingStep DEF LookupOrResend, local
<1>4. CASE Answer(t)
  <2>1. PICK c \in Planned(t) : First(c, Planned(t)) /\ Process(c)
    BY <1>4 DEF Answer
  <2>2. c \in sent /\ UNCHANGED <<outbox, command>>
    BY <1>4, <2>1 DEF Answer, TabOK, CycleOK, Planned, local
  <2> QED BY <2>1, <2>2, ProcessStep
<1>5. CASE RebaseNext(t) \/ ClaimAndSend(t) \/ Refused(t) \/ Acknowledge(t)
  BY <1>5, RebaseStep, ClaimStep, RefusedStep, AcknowledgeStep
<1> QED BY <1>1, <1>2, <1>3, <1>4, <1>5 DEF Coordinate

LEMMA NextLedger ==
  ASSUME VersionsInv, VersionsInv', [Next]_vars
  PROVE  LedgerStep
<1>1. Sound /\ Sound' /\ TypeOK
  BY DEF VersionsInv, Sound, NeverDroppedInv
<1>2. CASE UNCHANGED vars
  BY <1>1, <1>2, StayingStep DEF vars, local, remote
<1>3. ASSUME NEW i \in Intents, CommitLocalCommand(i) PROVE LedgerStep
  BY <1>1, <1>3, RecordStep
<1>4. ASSUME NEW c \in Commands, NEW e \in Entities, ReviewConflict(c, e) PROVE LedgerStep
  <2>1. Replacing(c, e) /\ outbox[c] = "CONFLICT" /\ UNCHANGED remote
    BY <1>1, <1>4, ReviewReplaces DEF ReviewConflict
  <2> QED BY <1>1, <2>1, ReplacingStep
<1>5. ASSUME NEW e \in Entities, RemoteWrite(e) PROVE LedgerStep
  BY <1>1, <1>5, StayingStep DEF RemoteWrite, local
<1>6. ASSUME NEW c \in Commands, LateDelivery(c) PROVE LedgerStep
  BY <1>1, <1>6, ProcessStep DEF LateDelivery, Process, local
<1>7. ASSUME NEW t \in Tabs, Coordinate(t) \/ Fault(t) PROVE LedgerStep
  BY <1>1, <1>7, CoordinateStep DEF VersionsInv
<1> QED BY <1>2, <1>3, <1>4, <1>5, <1>6, <1>7 DEF Next

LEMMA InitLedger == Init => Ledger!Init
<1> SUFFICES ASSUME Init PROVE Ledger!Init
  OBVIOUS
<1>1. \A i \in Intents : Stage(i) = "none"
  <2>1. \A i \in Intents : <<i, 0>> \in Commands
    BY BoundsAssumption DEF Commands
  <2> QED BY <2>1 DEF Init, Stage, NoCommand
<1>2. Applied = {}
  BY DEF Init, Applied
<1> QED BY <1>1, <1>2 DEF Ledger!Init

\* Tabs, retries, rebases, reviews and the server together implement the ledger
\* of edits: applied only while attempted, gone from the Outbox only when
\* applied, offered for review only when not.
THEOREM LedgerKeeps == Spec => KeepsLedger
<1>1. VersionsInv /\ VersionsInv' /\ [Next]_vars => [Ledger!Next]_(Ledger!ledger)
  BY NextLedger DEF LedgerStep
<1> QED BY <1>1, InitLedger, InvariantVersions, PTL DEF Spec, KeepsLedger, Ledger!Spec
=============================================================================
