---------------------------- MODULE WorkspacePage ----------------------------
(***************************************************************************)
(* A tab with its scheduler (ConnectedSync) and its page (useWorkspaceSync *)
(* over the local store): the page loads the workspace again when the      *)
(* store says that it changed, and shows what it loaded.                   *)
(*                                                                         *)
(* A load is a sequence of reads of the store, with commits of this tab,   *)
(* of its cycles and of other tabs between them.  The workspace is as many *)
(* rows as are read apart (Parts), each being the revision it was read at. *)
(***************************************************************************)
EXTENDS ConnectedSync, Sequences

CONSTANTS
  Parts,     \* collections a snapshot is read from, each in a read of its own
  Attempts   \* readLocalSnapshot tries so often (3)

ASSUME PageAssumption == Parts \in Nat \ {0} /\ Attempts \in Nat \ {0}

VARIABLES
  revision,   \* of the local store; every commit raises it
  fetched,    \* head as of the last commit of a cycle
  told,       \* another tab's notice of a commit is on its way
  hidden,     \* the tab is hidden; visible says that it is online, too
  focus,      \* the event that is on its way is one that `foreground` hears
  load,       \* the load under way
  again,      \* coalescedRefresh: requested
  pulling, pullAgain,   \* pull: pulling and requested
  applied,    \* workspaceSnapshotLoader: the revision it need not load again
  shown       \* the snapshot the page shows

store == <<revision, fetched, told>>
tab == <<hidden, focus>>
refreshes == <<load, again, pulling, pullAgain>>
page == <<refreshes, applied, shown>>
pageVars == <<vars, store, tab, page>>

None == 0
Idle == [phase |-> "idle", begun |-> 0, parts |-> <<>>, attempt |-> 1]
Loading == [Idle EXCEPT !.phase = "probe"]

\* A snapshot of one revision.
Whole(r) == [part \in 1 .. Parts |-> r]

-----------------------------------------------------------------------------
(* Requests: coalescedRefresh, and pull around it. *)

\* One load at a time; a request meanwhile makes it load again.
Fetch ==
  IF load.phase = "idle" THEN load' = Loading /\ UNCHANGED again
  ELSE again' = TRUE /\ UNCHANGED load

PullOnce ==   \* mutant
  IF stopped \/ hidden \/ pulling THEN UNCHANGED refreshes
  ELSE pulling' = TRUE /\ pullAgain' = FALSE /\ Fetch
Pull ==
  IF stopped \/ hidden THEN UNCHANGED refreshes
  ELSE IF pulling THEN pullAgain' = TRUE /\ UNCHANGED <<load, again, pulling>>
  ELSE pulling' = TRUE /\ pullAgain' = FALSE /\ Fetch

\* What follows a load, whether it succeeded or not.
LoadEnds ==
  IF again THEN again' = FALSE /\ load' = Loading /\ UNCHANGED <<pulling, pullAgain>>
  ELSE /\ UNCHANGED again
       /\ pullAgain' = FALSE
       /\ IF pulling /\ pullAgain /\ ~stopped /\ ~hidden
            THEN load' = Loading /\ UNCHANGED pulling
            ELSE load' = Idle /\ pulling' = FALSE

-----------------------------------------------------------------------------
(* A load: workspaceSnapshotLoader around readLocalSnapshot. *)

LoadStep == UNCHANGED <<vars, store, tab>>

\* Nothing is read when the page shows this revision already.
Probe ==
  /\ load.phase = "probe"
  /\ IF applied = revision THEN LoadEnds
     ELSE load' = [load EXCEPT !.phase = "begin"] /\ UNCHANGED <<again, pulling, pullAgain>>
  /\ LoadStep /\ UNCHANGED <<applied, shown>>

\* LocalMutationTransaction.begin.
BeginRead ==
  /\ load.phase = "begin"
  /\ load' = [load EXCEPT !.phase = "read", !.begun = revision, !.parts = <<>>]
  /\ LoadStep /\ UNCHANGED <<again, pulling, pullAgain, applied, shown>>

ReadPart ==
  /\ load.phase = "read" /\ Len(load.parts) < Parts
  /\ load' = [load EXCEPT !.parts = Append(@, revision)]
  /\ LoadStep /\ UNCHANGED <<again, pulling, pullAgain, applied, shown>>

ValidAnyway == TRUE   \* mutant
\* commit() of a transaction that only read.
Valid == load.begun = revision

\* A snapshot that is not of one revision is read again, a few times.
Validate ==
  /\ load.phase = "read" /\ Len(load.parts) = Parts
  /\ \/ /\ Valid
        /\ load' = [load EXCEPT !.phase = "publish"]
        /\ UNCHANGED <<again, pulling, pullAgain, applied>>
     \/ /\ ~Valid /\ load.attempt < Attempts
        /\ load' = [Loading EXCEPT !.phase = "begin", !.attempt = load.attempt + 1]
        /\ UNCHANGED <<again, pulling, pullAgain, applied>>
     \/ /\ ~Valid /\ load.attempt >= Attempts
        /\ LoadEnds /\ applied' = None
  /\ LoadStep /\ UNCHANGED shown

PublishClosed == shown' = load.parts /\ applied' = IF load.begun = revision THEN revision ELSE None   \* mutant
PinAnyway ==   \* mutant
  IF stopped THEN applied' = None /\ UNCHANGED shown
  ELSE shown' = load.parts /\ applied' = revision
\* A page that is there shows the snapshot; it need not be loaded again while the
\* store has not moved on.
PublishSnapshot ==
  IF stopped THEN applied' = None /\ UNCHANGED shown
  ELSE shown' = load.parts /\ applied' = IF load.begun = revision THEN revision ELSE None

Publish ==
  /\ load.phase = "publish"
  /\ PublishSnapshot
  /\ LoadEnds
  /\ LoadStep

Load == Probe \/ BeginRead \/ ReadPart \/ Validate \/ Publish

-----------------------------------------------------------------------------
(* The store. *)

\* A commit that the store of this tab, or of another one, has made.
Commit == revision' = revision + 1

EditHere ==
  /\ LocalEdit /\ Commit /\ Pull
  /\ UNCHANGED <<fetched, told, tab, applied, shown>>

EditInOtherTab ==
  /\ RemoteChange /\ Commit /\ told' = ~stopped
  /\ UNCHANGED <<fetched, tab, page>>

EditElsewhere ==
  RemoteChange /\ UNCHANGED <<store, tab, page>>

\* The replica commit of a cycle: it has what was there when the cycle began.
CycleCommits ==
  /\ running /\ bound /\ fetched < seen
  /\ StoreChanged /\ Commit /\ fetched' = seen /\ Pull
  /\ UNCHANGED <<told, tab, applied, shown>>

\* The notice arrives; a page that was closed listens no more.
Told ==
  /\ told /\ told' = FALSE
  /\ StoreChanged /\ Pull
  /\ UNCHANGED <<revision, fetched, tab, applied, shown>>

-----------------------------------------------------------------------------
(* The page and its tab. *)

\* refresh(): the views ask for it after what they did.
Refresh ==
  /\ ~stopped /\ Fetch
  /\ UNCHANGED <<vars, store, tab, pulling, pullAgain, applied, shown>>

\* foreground() and wakeNetwork().
HearsEvent ==
  /\ DomEvent /\ focus' = FALSE
  /\ IF focus THEN Pull ELSE UNCHANGED refreshes
  /\ UNCHANGED <<hidden, store, applied, shown>>

\* Hidden, or offline only: of the latter no event tells that is listened to.
Away ==
  /\ Hide
  /\ \/ event' = TRUE /\ hidden' = TRUE /\ focus' = TRUE
     \/ UNCHANGED <<event, hidden, focus>>
  /\ UNCHANGED <<store, page>>

\* Back, in sight and online.
Back ==
  /\ Show
  /\ hidden' = FALSE
  /\ focus' = (focus \/ hidden)
  /\ UNCHANGED <<store, page>>

\* Hidden or shown while offline.
TurnOffline ==
  /\ Turn
  /\ hidden' = ~hidden /\ focus' = TRUE
  /\ UNCHANGED <<store, page>>

Close ==
  /\ Stop /\ focus' = FALSE /\ told' = FALSE
  /\ UNCHANGED <<hidden, revision, fetched, page>>

\* What the scheduler does by itself; a bound cycle that succeeds has committed
\* what it pulled.
Schedule ==
  /\ TimerFires \/ SyncFails \/ Rebind
     \/ (SyncSucceeds /\ (bound => fetched >= seen))
     \/ \E s \in 1 .. MaxStreams : StreamEvent(s) \/ StreamEnds(s)
  /\ UNCHANGED <<store, tab, page>>

\* A page is opened in sight; what it has not loaded yet it does not show.
PageInit ==
  /\ Init /\ visible
  /\ revision = 1 /\ fetched = 0 /\ told = FALSE
  /\ hidden = FALSE /\ focus = FALSE
  /\ load = Loading /\ again = FALSE /\ pulling = FALSE /\ pullAgain = FALSE
  /\ applied = None /\ shown = Whole(0)

PageNext ==
  \/ Load
  \/ EditHere \/ EditInOtherTab \/ EditElsewhere \/ CycleCommits \/ Told
  \/ Refresh \/ HearsEvent \/ Away \/ Back \/ TurnOffline \/ Close \/ Schedule

PageSpec == PageInit /\ [][PageNext]_pageVars

CycleEnds == Schedule /\ Settles

\* Reads of the store and cycles end, notices and events arrive.
FairPageSpec ==
  /\ PageSpec
  /\ WF_pageVars(Load) /\ WF_pageVars(Told) /\ WF_pageVars(HearsEvent)
  /\ WF_pageVars(TimerFires /\ UNCHANGED <<store, tab, page>>)
  /\ WF_pageVars(CycleCommits) /\ WF_pageVars(CycleEnds)

-----------------------------------------------------------------------------
LoadType ==
  [phase : {"idle", "probe", "begin", "read", "publish"}, begun : 0 .. revision,
   parts : Seq(0 .. revision), attempt : 1 .. Attempts]

PageTypeOK ==
  /\ TypeOK
  /\ revision \in Nat \ {0} /\ fetched \in 0 .. head /\ told \in BOOLEAN
  /\ hidden \in BOOLEAN /\ (visible => ~hidden) /\ focus \in BOOLEAN
  /\ load \in LoadType /\ Len(load.parts) <= Parts
  /\ again \in BOOLEAN /\ pulling \in BOOLEAN /\ pullAgain \in BOOLEAN
  /\ applied \in 0 .. revision /\ shown \in [1 .. Parts -> 0 .. revision]

\* What the page shows is the workspace as it was at one moment, after what it
\* showed before, and nothing is shown once the page was closed, whatever is
\* committed while the snapshot is read.
ShowsWhole ==
  [][shown' # shown =>
       ~stopped /\ \E r \in shown[1] + 1 .. revision : shown' = Whole(r)]_pageVars

\* A page that stays in sight ends up showing every commit of the store,
\* whichever tab or cycle made it, and however many loads it made fail.
PageCatchesUp == <>[](~hidden /\ ~stopped) => <>[](shown = Whole(revision))
=============================================================================
