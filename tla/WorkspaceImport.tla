---------------------------- MODULE WorkspaceImport ----------------------------
(***************************************************************************)
(* The import of a selection of one workspace into another one: a plan of  *)
(* steps, each a guarded request to the destination, and a durable journal *)
(* of the steps it has accepted.  A request carries the head of the        *)
(* destination that was reviewed, so that it is refused once anybody else  *)
(* has written there.  Then the person reviews the destination again, and  *)
(* the steps that are not accepted are forked into a new journal that      *)
(* starts at the newly reviewed head.                                      *)
(*                                                                         *)
(* Tabs of one browser share the journals and may work on the same one.    *)
(* Every await is a point where a tab may stop: it is closed, its answer   *)
(* is lost, the login or the source workspace has changed.  What it has    *)
(* sent may still arrive later.                                            *)
(*                                                                         *)
(* Abstractions.  Journal 1 is the prepared one, the others are its forks. *)
(* An entity has a version and an organization row with a version of its   *)
(* own; a folder is an organization row only.  Every write moves the head  *)
(* of the destination by one.  The destination keeps its epoch: a restore  *)
(* ends an import for good.  Backups, hashes and private memos are left    *)
(* out, and so is the choice between the two texts of a decided step.      *)
(***************************************************************************)
EXTENDS Integers, SequencesExt

CONSTANTS
  Ids, NoId,      \* entities and folders of the destination; none
  Orders,         \* those of them that are there from the start
  Selections,     \* what may be chosen: sequences of copies
  Tabs,
  MaxJournals,    \* bound: the import and its forks
  MaxOthers,      \* bound: writes of other people and devices
  MaxStops        \* bound: how often a tab stops in the middle

CopyType == [kind : {"WORK", "NOTE", "FILE", "ORDER", "FOLDER"}, id : Ids,
             under : Ids \cup {NoId},   \* the project, category or parent folder
             into : Ids \cup {NoId},    \* the folder of a note
             text : BOOLEAN,            \* or its legacy folder, a text
             icon : BOOLEAN, archived : BOOLEAN, renamed : BOOLEAN]

ASSUME ImportAssumption ==
  /\ NoId \notin Ids /\ Orders \subseteq Ids
  /\ Selections \subseteq Seq(CopyType)
  /\ MaxJournals \in Nat \ {0} /\ MaxOthers \in Nat /\ MaxStops \in Nat

\* planWorkspaceMergeSelection: what is copied gets a new identity, each its own,
\* and belongs only to what is copied too or is in the destination.
Owners == {"WORK", "NOTE", "FILE"}
ASSUME CopiesAssumption ==
  \A copies \in Selections : \A i \in DOMAIN copies :
    LET c == copies[i] IN
    /\ \A k \in DOMAIN copies : copies[k].id = c.id => k = i
    /\ c.id \in Orders => c.kind = "ORDER"
    /\ c.kind \in Owners /\ c.under \notin Orders \cup {NoId} =>
         \E k \in DOMAIN copies : copies[k].id = c.under /\ copies[k].kind \in Owners

VARIABLES
  journals,  \* the stored journals, a fork after its parent
  at,        \* the versions in the destination
  gone,      \* its deleted entities
  head,      \* its head: how many writes it has seen
  receipts,  \* the recorded requests, each with the head it left
  wire,      \* requests that are under way
  tab,       \* what each tab is doing
  stops,     \* how often a tab has stopped
  log,       \* ghost: whose each write was
  alien      \* ghost: rows that somebody else wrote last

server == <<at, gone, head, receipts>>
ghosts == <<log, alien>>
vars == <<journals, server, wire, tab, stops, ghosts>>

Parts == {"ENTITY", "ORG"}
Row(id, part) == <<id, part>>
Other == [journal |-> 0, step |-> 0]

-----------------------------------------------------------------------------
\* planWorkspaceImportSteps.

Step(op, c, v, ov) ==
  [op |-> op, id |-> c.id, v |-> v, ov |-> ov, under |-> c.under, into |-> c.into,
   seen |-> 0]

EachOf(copies, Steps(_)) == FlattenSeq([i \in DOMAIN copies |-> Steps(copies[i])])
Those(copies, Holds(_)) == EachOf(copies, LAMBDA c : IF Holds(c) THEN <<c>> ELSE <<>>)
OfKind(kinds, copies) == Those(copies, LAMBDA c : c.kind \in kinds)

\* What is referred to comes first: always the first copy that waits for none.
Ready(copies, done) ==
  Those(copies, LAMBDA c :
    /\ c \notin Range(done)
    /\ c.under \notin {d.id : d \in Range(copies) \ Range(done)})
Taken(copies, done) ==
  IF Ready(copies, done) = <<>> THEN done ELSE Append(done, Head(Ready(copies, done)))
InOrder(copies) ==
  LET placed[n \in 0 .. Len(copies)] ==
        IF n = 0 THEN <<>> ELSE Taken(copies, placed[n - 1])
  IN placed[Len(copies)]

CreateSteps(c) ==
  <<Step("CREATE", c, 0, 0)>>
  \o (IF c.kind = "FILE" /\ c.renamed THEN <<Step("SAVE", c, 1, 0)>> ELSE <<>>)

\* The final state of a work item; the place of an order, at its target's version.
FinalSteps(c) == IF c.kind = "WORK" THEN <<Step("SAVE", c, 1, 0)>> ELSE <<>>
OrderSteps(c) == <<Step("SAVE", c, at[Row(c.id, "ENTITY")], 0)>>

FolderSteps(c) ==
  <<Step("NEW_FOLDER", c, 0, 0)>>
  \o (IF c.icon THEN <<Step("FOLDER_ICON", c, 1, 1)>> ELSE <<>>)

MembershipSteps(c) ==
  LET moved == c.into # NoId \/ c.text IN
  CASE c.kind = "WORK" /\ c.archived -> <<Step("ARCHIVE", c, 2, 0)>>
    [] c.kind = "NOTE" ->
         (IF c.into # NoId THEN <<Step("MOVE_IN", c, 1, 0)>>
          ELSE IF c.text THEN <<Step("MOVE_TEXT", c, 1, 0)>> ELSE <<>>)
         \o (IF c.icon
             THEN <<Step("NOTE_ICON", c, IF moved THEN 2 ELSE 1,
                         IF c.into = NoId /\ c.text THEN 1 ELSE 0)>>
             ELSE <<>>)
    [] OTHER -> <<>>

Entities(copies) == OfKind(Owners, copies)
Folders(copies) == Those(copies, LAMBDA c : c.kind = "FOLDER" /\ ~ c.archived)

\* The plan fails for a cycle and for a folder that is not copied with its content.
Plannable(copies) ==
  LET folders == {c.id : c \in Range(Folders(copies))} IN
  /\ Len(InOrder(Entities(copies))) = Len(Entities(copies))
  /\ Len(InOrder(Folders(copies))) = Len(Folders(copies))
  /\ \A c \in Range(Folders(copies)) : c.under \in folders \cup {NoId}
  /\ \A c \in Range(copies) : c.kind = "NOTE" => c.into \in folders \cup {NoId}

PlanFoldersLast(copies) ==   \* mutant: folders come after what is moved into them
  EachOf(InOrder(Entities(copies)), CreateSteps)
  \o EachOf(Entities(copies), FinalSteps)
  \o EachOf(OfKind({"ORDER"}, copies), OrderSteps)
  \o EachOf(Entities(copies), MembershipSteps)
  \o EachOf(InOrder(Folders(copies)), FolderSteps)

Plan(copies) ==
  EachOf(InOrder(Entities(copies)), CreateSteps)
  \o EachOf(Entities(copies), FinalSteps)
  \o EachOf(OfKind({"ORDER"}, copies), OrderSteps)
  \o EachOf(InOrder(Folders(copies)), FolderSteps)
  \o EachOf(Entities(copies), MembershipSteps)

-----------------------------------------------------------------------------
\* The destination: which steps it takes at its present versions.

Present(id) == at[Row(id, "ENTITY")] > 0 /\ id \notin gone
ActiveFolder(id) == at[Row(id, "ORG")] > 0 /\ id \notin gone

Fits(s) ==
  LET entity == at[Row(s.id, "ENTITY")]
      org == at[Row(s.id, "ORG")] IN
  CASE s.op = "CREATE" -> entity = 0 /\ (s.under # NoId => Present(s.under))
    [] s.op = "SAVE" -> entity = s.v /\ s.id \notin gone
    [] s.op = "NEW_FOLDER" -> org = 0 /\ (s.under # NoId => ActiveFolder(s.under))
    [] s.op = "FOLDER_ICON" -> org = s.v /\ s.id \notin gone
    [] OTHER -> /\ entity = s.v /\ org = s.ov /\ s.id \notin gone
                /\ s.op = "MOVE_IN" => ActiveFolder(s.into)

\* A move into a folder is a write of the note; any other organization is not.
Written(s) == Row(s.id, IF s.op \in {"CREATE", "SAVE", "MOVE_IN"} THEN "ENTITY" ELSE "ORG")

-----------------------------------------------------------------------------
\* reviewWorkspaceImportSuffix and workspace-import-resolution.

\* What the review expects of the rows a step goes by, and leaves them at.
Expects(s) ==
  LET entity(next) == [row |-> Row(s.id, "ENTITY"), v |-> s.v, next |-> next] IN
  IF s.op \in {"CREATE", "SAVE"} THEN <<entity(s.v + 1)>>
  ELSE <<entity(s.v), [row |-> Row(s.id, "ORG"), v |-> s.ov, next |-> s.ov + 1]>>

\* It cannot read the creation of a folder, which lists no entries.
Reviewable(steps) == \A i \in DOMAIN steps : steps[i].op # "NEW_FOLDER"

\* Does every step find the versions that the steps before it leave?
Clean(steps) ==
  LET look(r, e) ==
        [ok |-> r.ok /\ r.at[e.row] = e.v /\ e.row \notin r.gone,
         at |-> [r.at EXCEPT ![e.row] = e.next], gone |-> r.gone \ {e.row}]
      start == [ok |-> TRUE, at |-> at, gone |-> {Row(id, "ENTITY") : id \in gone}]
  IN FoldLeft(look, start, EachOf(steps, Expects)).ok

Candidates(steps) ==
  {i \in DOMAIN steps : /\ steps[i].op = "SAVE" /\ steps[i].id \notin gone
                        /\ at[Row(steps[i].id, "ENTITY")] > steps[i].v}

ResolvedAll(steps, chosen) ==   \* mutant: what is newer is taken without a decision
  [i \in DOMAIN steps |->
     LET s == steps[i]
         now == at[Row(s.id, "ENTITY")] IN
     IF i \in Candidates(steps)
     THEN [s EXCEPT !.v = now, !.seen = IF i \in chosen THEN now ELSE @]
     ELSE s]

\* A decided step takes the version that was decided about, and the organization
\* of a work item the one that its own decided step will leave.
Resolved(steps, chosen) ==
  [i \in DOMAIN steps |->
     LET s == steps[i]
         now == at[Row(s.id, "ENTITY")] IN
     IF i \in chosen THEN [s EXCEPT !.v = now, !.seen = now]
     ELSE IF s.op = "ARCHIVE" /\ \E k \in chosen : steps[k].id = s.id /\ steps[k].v + 1 = s.v
     THEN [s EXCEPT !.v = now + 1]
     ELSE s]

-----------------------------------------------------------------------------
\* The stored journals.

Suffix(j) == SubSeq(journals[j].steps, journals[j].accepted + 1, Len(journals[j].steps))
Successor(j) == \E k \in DOMAIN journals : journals[k].parent = j

NoReview == [accepted |-> 0, head |-> 0]
NoWork == [pc |-> "idle", why |-> "continue", journal |-> 0, accepted |-> 0,
           revision |-> 0, reply |-> 0, steps |-> <<>>, shown |-> NoReview]

\* prepareWorkspaceMergeImport: the plan for the destination as it was backed up
Prepare(copies) ==
  /\ journals = <<>> /\ Plannable(copies)
  /\ journals' = <<[steps |-> Plan(copies), accepted |-> 0, initial |-> head,
                    revision |-> head, parent |-> 0]>>
  /\ UNCHANGED <<server, wire, tab, stops, ghosts>>

-----------------------------------------------------------------------------
\* A tab that works on a journal.

At(t, pc) == tab[t].pc = pc
Goto(t, pc) == tab' = [tab EXCEPT ![t].pc = pc]
Left(t) == Len(journals[tab[t].journal].steps) - tab[t].accepted
NextOf(t) == tab[t].accepted + 1

\* continueWorkspaceImport, reviewWorkspaceImportChanges and
\* prepareWorkspaceImportRebase all begin with the stored journal, the last one
\* from the review that the tab shows.
Begin(t, j, why, review) ==
  /\ ~ Successor(j)
  /\ tab' = [tab EXCEPT ![t] =
       [NoWork EXCEPT !.pc = "loop", !.why = why, !.journal = j, !.shown = review,
                      !.accepted = journals[j].accepted, !.revision = journals[j].revision]]
  /\ UNCHANGED <<journals, server, wire, stops, ghosts>>

Continue(t, j) == At(t, "idle") /\ Begin(t, j, "continue", NoReview)
Review(t, j) == At(t, "idle") /\ Begin(t, j, "review", NoReview)
Rebase(t) == At(t, "shown") /\ Begin(t, tab[t].journal, "rebase", tab[t].shown)

\* The next step is sent, unless the journal has been forked.
Sendable(t) == Left(t) > 0 /\ ~ Successor(tab[t].journal)

Send(t) ==
  /\ At(t, "loop") /\ tab[t].why = "continue" /\ Sendable(t)
  /\ Goto(t, "wait")
  /\ wire' = wire \cup {[tab |-> t, journal |-> tab[t].journal, step |-> NextOf(t),
                         guard |-> tab[t].revision]}
  /\ UNCHANGED <<journals, server, stops, ghosts>>

Waits(m) ==
  /\ At(m.tab, "wait") /\ tab[m.tab].journal = m.journal /\ NextOf(m.tab) = m.step

\* Only a tab that still waits hears of it; a refusal ends its work.
Answered(m, reply) ==
  tab' = [tab EXCEPT ![m.tab] =
    IF ~ Waits(m) THEN @
    ELSE IF reply = 0 THEN NoWork
    ELSE [@ EXCEPT !.pc = "answered", !.reply = reply]]

Recorded(j, i, guard) ==
  {r \in receipts : r.journal = j /\ r.step = i /\ r.guard = guard}

AcceptableUnguarded(m) ==   \* mutant: the precondition is not compared
  /\ Recorded(m.journal, m.step, m.guard) = {}
  /\ Fits(journals[m.journal].steps[m.step])
Acceptable(m) ==
  /\ Recorded(m.journal, m.step, m.guard) = {}
  /\ m.guard = head /\ Fits(journals[m.journal].steps[m.step])

\* A request arrives: the receipt is looked for first, then the head is compared.
Accept(m) ==
  LET s == journals[m.journal].steps[m.step] IN
  /\ m \in wire /\ Acceptable(m)
  /\ at' = [at EXCEPT ![Written(s)] = @ + 1] /\ head' = head + 1
  /\ receipts' = receipts \cup {[journal |-> m.journal, step |-> m.step,
                                 guard |-> m.guard, head |-> head + 1]}
  /\ wire' = wire \ {m} /\ Answered(m, head + 1)
  /\ log' = Append(log, [journal |-> m.journal, step |-> m.step])
  /\ alien' = alien \ {Written(s)}
  /\ UNCHANGED <<journals, gone, stops>>

ReplayAtHead(m) ==   \* mutant: a repeated request is told the present head
  /\ m \in wire /\ Recorded(m.journal, m.step, m.guard) # {}
  /\ wire' = wire \ {m} /\ Answered(m, head)
  /\ UNCHANGED <<journals, server, stops, ghosts>>
Replay(m) ==
  /\ m \in wire
  /\ \E r \in Recorded(m.journal, m.step, m.guard) : Answered(m, r.head)
  /\ wire' = wire \ {m}
  /\ UNCHANGED <<journals, server, stops, ghosts>>

RefuseRequest(m) ==
  /\ m \in wire /\ Recorded(m.journal, m.step, m.guard) = {} /\ ~ Acceptable(m)
  /\ wire' = wire \ {m} /\ Answered(m, 0)
  /\ UNCHANGED <<journals, server, stops, ghosts>>

StorableAnyway(t) ==   \* mutant: the stored journal is not compared
  ~ Successor(tab[t].journal)
\* advance: compare-and-swap of the stored journal, and no fork of it
Storable(t) ==
  /\ journals[tab[t].journal].accepted = tab[t].accepted
  /\ ~ Successor(tab[t].journal)

Advance(t) ==
  /\ At(t, "answered") /\ Storable(t)
  /\ journals' = [journals EXCEPT ![tab[t].journal] =
       [@ EXCEPT !.accepted = NextOf(t), !.revision = tab[t].reply]]
  /\ tab' = [tab EXCEPT ![t] =
       [@ EXCEPT !.pc = "loop", !.accepted = NextOf(t), !.revision = tab[t].reply, !.reply = 0]]
  /\ UNCHANGED <<server, wire, stops, ghosts>>

\* recoverWorkspaceImportReceipts: a read of the receipt of the next step ends
\* in its being stored or, when there is none, in the end of the loop.
Lookup(t) ==
  /\ At(t, "loop") /\ tab[t].why # "continue" /\ Left(t) > 0
  /\ \E r \in Recorded(tab[t].journal, NextOf(t), tab[t].revision) :
       tab' = [tab EXCEPT ![t] = [@ EXCEPT !.pc = "answered", !.reply = r.head]]
  /\ UNCHANGED <<journals, server, wire, stops, ghosts>>

LookupNothing(t) ==   \* mutant: a review does not look for receipts
  /\ At(t, "loop") /\ tab[t].why # "continue" /\ Goto(t, "inspect")
  /\ UNCHANGED <<journals, server, wire, stops, ghosts>>
NoReceipt(t) ==
  /\ At(t, "loop") /\ tab[t].why # "continue"
  /\ Left(t) = 0 \/ Recorded(tab[t].journal, NextOf(t), tab[t].revision) = {}
  /\ Goto(t, "inspect")
  /\ UNCHANGED <<journals, server, wire, stops, ghosts>>

\* The destination at one head: what is left is reviewed against it.
Pending(t) == SubSeq(journals[tab[t].journal].steps, NextOf(t), Len(journals[tab[t].journal].steps))

ShowReview(t) ==
  /\ At(t, "inspect") /\ tab[t].why = "review" /\ Reviewable(Pending(t))
  /\ tab' = [tab EXCEPT ![t] =
       [NoWork EXCEPT !.pc = "shown", !.journal = tab[t].journal,
                      !.shown = [accepted |-> tab[t].accepted, head |-> head]]]
  /\ UNCHANGED <<journals, server, wire, stops, ghosts>>

\* The rebase: the journal and the destination are those of the review, and with
\* the decisions of the person nothing of what is left is in conflict.
AsReviewed(t) == tab[t].shown = [accepted |-> tab[t].accepted, head |-> head]

PrepareFork(t) ==
  /\ At(t, "inspect") /\ tab[t].why = "rebase" /\ AsReviewed(t)
  /\ \E chosen \in SUBSET Candidates(Pending(t)) :
       LET steps == Resolved(Pending(t), chosen) IN
       /\ Reviewable(steps) /\ Clean(steps)
       /\ tab' = [tab EXCEPT ![t] = [@ EXCEPT !.pc = "fork", !.steps = steps, !.reply = head]]
  /\ UNCHANGED <<journals, server, wire, stops, ghosts>>

ForkableTwice(t) ==   \* mutant: the parent is not claimed
  /\ journals[tab[t].journal].accepted = tab[t].accepted
  /\ tab[t].steps # <<>> /\ tab[t].reply > tab[t].revision
\* requireWorkspaceImportFork and the claim of the parent
Forkable(t) ==
  /\ ~ Successor(tab[t].journal)
  /\ journals[tab[t].journal].accepted = tab[t].accepted
  /\ tab[t].steps # <<>> /\ tab[t].reply > tab[t].revision

Fork(t) ==
  /\ At(t, "fork") /\ Forkable(t) /\ Len(journals) < MaxJournals
  /\ journals' = Append(journals,
       [steps |-> tab[t].steps, accepted |-> 0, initial |-> tab[t].reply,
        revision |-> tab[t].reply, parent |-> tab[t].journal])
  /\ tab' = [tab EXCEPT ![t] = NoWork]
  /\ UNCHANGED <<server, wire, stops, ghosts>>

\* The work is done, or one of its checks refuses to go on.
Finished(t) ==
  /\ CASE At(t, "loop") -> tab[t].why = "continue" /\ ~ Sendable(t)
       [] At(t, "answered") -> ~ Storable(t)
       [] At(t, "inspect") -> tab[t].why = "rebase" \/ ~ Reviewable(Pending(t))
       [] At(t, "shown") -> TRUE
       [] At(t, "fork") -> ~ Forkable(t)
       [] OTHER -> FALSE
  /\ tab' = [tab EXCEPT ![t] = NoWork]
  /\ UNCHANGED <<journals, server, wire, stops, ghosts>>

\* The tab stops at an await; a request stays under way.
Stop(t) ==
  /\ tab[t].pc \notin {"idle", "shown"} /\ stops < MaxStops /\ stops' = stops + 1
  /\ tab' = [tab EXCEPT ![t] = NoWork]
  /\ UNCHANGED <<journals, server, wire, ghosts>>

-----------------------------------------------------------------------------
\* Everybody else who writes in the destination.

OtherWrite ==
  /\ journals # <<>> /\ Cardinality({h \in DOMAIN log : log[h] = Other}) < MaxOthers
  /\ log' = Append(log, Other) /\ head' = head + 1
  /\ UNCHANGED <<journals, receipts, wire, tab, stops>>

OtherEdit(row) ==
  /\ at[row] > 0 /\ row[1] \notin gone /\ OtherWrite
  /\ at' = [at EXCEPT ![row] = @ + 1] /\ alien' = alien \cup {row}
  /\ UNCHANGED gone
OtherDelete(id) ==
  /\ Present(id) /\ id \notin Orders /\ OtherWrite
  /\ at' = [at EXCEPT ![Row(id, "ENTITY")] = @ + 1] /\ gone' = gone \cup {id}
  /\ alien' = alien \cup {Row(id, "ENTITY")}
OtherElsewhere == OtherWrite /\ UNCHANGED <<at, gone, alien>>

-----------------------------------------------------------------------------
Init ==
  /\ journals = <<>> /\ head = 0 /\ gone = {} /\ receipts = {} /\ wire = {}
  /\ at = [row \in Ids \X Parts |-> IF row[1] \in Orders /\ row[2] = "ENTITY" THEN 1 ELSE 0]
  /\ tab = [t \in Tabs |-> NoWork]
  /\ stops = 0 /\ log = <<>> /\ alien = {}

TabStep(t) ==
  \/ \E j \in DOMAIN journals : Continue(t, j) \/ Review(t, j)
  \/ Rebase(t) \/ Send(t) \/ Advance(t) \/ Lookup(t) \/ NoReceipt(t)
  \/ ShowReview(t) \/ PrepareFork(t) \/ Fork(t) \/ Finished(t) \/ Stop(t)

Others ==
  \/ \E row \in Ids \X Parts : OtherEdit(row)
  \/ \E id \in Ids : OtherDelete(id)
  \/ OtherElsewhere

Next ==
  \/ \E copies \in Selections : Prepare(copies)
  \/ \E t \in Tabs : TabStep(t)
  \/ \E m \in wire : Accept(m) \/ Replay(m) \/ RefuseRequest(m)
  \/ Others

Spec == Init /\ [][Next]_vars

-----------------------------------------------------------------------------
StepType ==
  [op : {"CREATE", "SAVE", "ARCHIVE", "MOVE_TEXT", "MOVE_IN", "NOTE_ICON", "NEW_FOLDER",
         "FOLDER_ICON"},
   id : Ids, v : Nat, ov : Nat, under : Ids \cup {NoId}, into : Ids \cup {NoId}, seen : Nat]
JournalType ==
  [steps : Seq(StepType), accepted : Nat, initial : Nat, revision : Nat, parent : Nat]
WorkType ==
  [pc : {"idle", "loop", "wait", "answered", "inspect", "shown", "fork"},
   why : {"continue", "review", "rebase"}, journal : Nat, accepted : Nat, revision : Nat,
   reply : Nat, steps : Seq(StepType), shown : [accepted : Nat, head : Nat]]

\* Every variable keeps its type, and what names a journal or a step names one.
TypeOK ==
  /\ journals \in Seq(JournalType)
  /\ \A j \in DOMAIN journals : journals[j].accepted <= Len(journals[j].steps)
  /\ at \in [Ids \X Parts -> Nat] /\ gone \subseteq Ids /\ head \in Nat /\ stops \in Nat
  /\ receipts \subseteq [journal : Nat, step : Nat, guard : Nat, head : Nat]
  /\ wire \subseteq [tab : Tabs, journal : Nat, step : Nat, guard : Nat]
  /\ \A m \in wire : /\ m.journal \in DOMAIN journals
                     /\ m.step \in DOMAIN journals[m.journal].steps
  /\ tab \in [Tabs -> WorkType]
  /\ \A t \in Tabs : ~ At(t, "idle") => tab[t].journal \in DOMAIN journals
  /\ log \in Seq([journal : Nat, step : Nat]) /\ alien \subseteq Ids \X Parts

\* Where the steps of a journal stand in the plan: after those that its
\* ancestors have accepted.
Done(j) == Cardinality({h \in DOMAIN log : log[h].journal = j})
Whole == Len(journals[1].steps)
PlanStep(w) == Whole - Len(journals[w.journal].steps) + w.step

\* Whatever is sent again, recovered or forked, the destination takes the steps
\* of the plan in their order and each of them once.
StepsOnceInOrder ==
  \A h \in DOMAIN log : log[h] # Other =>
    PlanStep(log[h]) = Cardinality({k \in 1 .. h : log[k] # Other})

\* A journal knows of every step that the destination has taken for it, but for
\* the one that may be under way; once it is forked, of all of them.
JournalKnows ==
  \A j \in DOMAIN journals :
    /\ journals[j].accepted <= Done(j) /\ Done(j) <= journals[j].accepted + 1
    /\ Successor(j) => Done(j) = journals[j].accepted

\* Between the review a journal starts from and its last step in the
\* destination, nobody else has written there.
ReviewedHead ==
  \A h \in DOMAIN log : log[h] # Other =>
    \A g \in journals[log[h].journal].initial + 1 .. h : log[g].journal = log[h].journal

\* The forks form one chain: no two journals continue the same one.
OneChain ==
  \A j, k \in DOMAIN journals : journals[j].parent = journals[k].parent => j = k

\* A step overwrites what somebody else wrote only where the person has decided
\* about just that version.
DecidedOverwrites ==
  [][\A m \in wire : Accept(m) =>
       LET s == journals[m.journal].steps[m.step] IN
       \A e \in Range(Expects(s)) :
         e.row \in alien => s.op = "SAVE" /\ s.seen = s.v]_vars

\* "Restore organization only after all formal entity state transitions": while
\* nobody else writes in the destination, it takes every step of the plan.
PlanFits ==
  (\A w \in Range(log) : w # Other) =>
    \A j \in DOMAIN journals :
      Done(j) = journals[j].accepted /\ Suffix(j) # <<>> => Fits(Suffix(j)[1])
=============================================================================
