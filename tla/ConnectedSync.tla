--------------------------- MODULE ConnectedSync ---------------------------
(***************************************************************************)
(* The scheduler of one tab (connectedWorkspaceSync and the listeners of   *)
(* useWorkspaceSync): it decides when the tab's LocalWorkSyncCoordinator   *)
(* runs a cycle.  It is woken by its own timer, by edits of this tab, by   *)
(* the event stream of the server and by DOM events; it sleeps while the   *)
(* tab is hidden or offline, and stops when the workspace is closed.       *)
(*                                                                         *)
(* Delays are abstracted: an armed timer fires some time later.  What a    *)
(* cycle of the coordinator does is LocalWorkSync; here it takes over the  *)
(* workspace as it was when the cycle started.                             *)
(***************************************************************************)
EXTENDS Integers

CONSTANTS
  MaxChanges,   \* bound: edits of this tab and changes of other devices
  MaxStreams,   \* bound: event streams ever opened
  MaxFailures,  \* bound: failed cycles
  MaxToggles    \* bound: the tab hidden or shown, the workspace bound or unbound

ASSUME BoundsAssumption ==
  MaxChanges \in Nat /\ MaxStreams \in Nat /\ MaxFailures \in Nat /\ MaxToggles \in Nat

VARIABLES
  stopped, running, requested,  \* the flags of the scheduler
  timer,     \* a timer is armed
  stream,    \* the stream it holds (0: none)
  opened,    \* streams opened so far
  live,      \* the streams whose promise has not settled
  aborted,   \* the streams whose signal was aborted
  visible,   \* the tab is shown and online
  event,     \* a DOM event is on its way to the listeners
  bound,     \* the workspace is bound to a server
  head,      \* the last change of the workspace, here or on the server
  seen,      \* head when the running cycle started
  synced,    \* head as of the last cycle that succeeded
  failures, toggles

flags == <<stopped, running, requested, timer>>
streams == <<stream, opened, live, aborted>>
world == <<visible, event, bound, toggles>>
work == <<head, seen, synced>>
vars == <<flags, streams, world, work, failures>>

\* Every variable keeps its type; only opened streams are held, live or aborted.
TypeOK ==
  /\ stopped \in BOOLEAN /\ running \in BOOLEAN
  /\ requested \in BOOLEAN /\ timer \in BOOLEAN
  /\ opened \in 0 .. MaxStreams /\ stream \in 0 .. opened
  /\ live \subseteq 1 .. opened /\ aborted \subseteq 1 .. opened
  /\ visible \in BOOLEAN /\ event \in BOOLEAN /\ bound \in BOOLEAN
  /\ head \in 0 .. MaxChanges /\ seen \in 0 .. head /\ synced \in 0 .. head
  /\ failures \in 0 .. MaxFailures /\ toggles \in 0 .. MaxToggles

-----------------------------------------------------------------------------

NeverHalted == FALSE   \* mutant
\* wake() does nothing and cycle() ends at its next check once stop() was called.
Halted == stopped

\* cycle() up to its await: one run of the coordinator starts.
Begin ==
  /\ running' = TRUE
  /\ requested' = FALSE
  /\ seen' = head'

\* wake(): a request cancels the timer; a running cycle goes round again for it,
\* a hidden tab leaves it.
Wake ==
  IF Halted THEN UNCHANGED <<running, requested, timer, seen>>
  ELSE /\ timer' = FALSE
       /\ IF running \/ ~visible
            THEN requested' = TRUE /\ UNCHANGED <<running, seen>>
            ELSE Begin

TimerFires ==
  /\ timer
  /\ UNCHANGED head
  /\ Wake
  /\ UNCHANGED <<stopped, streams, world, synced, failures>>

\* runtime.subscribeWorkspace: an edit of this tab.
LocalEdit ==
  /\ head < MaxChanges
  /\ head' = head + 1
  /\ Wake
  /\ UNCHANGED <<stopped, streams, world, synced, failures>>

\* The same subscription: another tab has committed, or the running cycle itself.
StoreChanged ==
  /\ UNCHANGED head
  /\ Wake
  /\ UNCHANGED <<stopped, streams, world, synced, failures>>

\* Another device or tab; the stream may or may not tell.
RemoteChange ==
  /\ head < MaxChanges
  /\ head' = head + 1
  /\ UNCHANGED <<flags, streams, world, seen, synced, failures>>

\* The changed callback of a stream.
StreamEvent(s) ==
  /\ s \in live \ aborted
  /\ UNCHANGED head
  /\ Wake
  /\ UNCHANGED <<stopped, streams, world, synced, failures>>

ScheduleAlways(s) == timer' = TRUE   \* mutant
\* The finally of a stream's promise: only a stream that was not aborted is
\* followed by a retry.
ScheduleRetry(s) == timer' = (timer \/ (~stopped /\ s \notin aborted))

StreamEnds(s) ==
  /\ s \in live
  /\ live' = live \ {s}
  /\ stream' = IF stream = s THEN 0 ELSE stream
  /\ ScheduleRetry(s)
  /\ UNCHANGED <<stopped, running, requested, opened, aborted, world, work, failures>>

ForgetStream == UNCHANGED aborted   \* mutant
AbortStream == aborted' = IF stream = 0 THEN aborted ELSE aborted \cup {stream}

\* After a cycle: unbound, the stream is aborted; bound without one, it is opened.
KeepStream ==
  IF ~bound THEN AbortStream /\ stream' = 0 /\ UNCHANGED <<opened, live>>
  ELSE IF stream = 0 /\ opened < MaxStreams
    THEN /\ opened' = opened + 1
         /\ stream' = opened + 1
         /\ live' = live \cup {opened + 1}
         /\ UNCHANGED aborted
    ELSE UNCHANGED streams

\* ports.sync resolves: again when something was requested, else in 30 seconds.
SyncSucceeds ==
  /\ running
  /\ synced' = IF bound THEN seen ELSE synced
  /\ UNCHANGED <<stopped, world, head, failures>>
  /\ \/ /\ Halted
        /\ running' = FALSE
        /\ UNCHANGED <<requested, timer, streams, seen>>
     \/ /\ ~Halted
        /\ KeepStream
        /\ IF requested /\ visible
             THEN Begin /\ UNCHANGED timer
             ELSE /\ running' = FALSE /\ timer' = TRUE
                  /\ UNCHANGED <<requested, seen>>

OnlyIfRequested == timer' = requested   \* mutant
BackOff == timer' = ~stopped

\* ports.sync rejects: again after a back-off.
SyncFails ==
  /\ running
  /\ failures < MaxFailures
  /\ failures' = failures + 1
  /\ running' = FALSE
  /\ BackOff
  /\ UNCHANGED <<stopped, requested, streams, world, work>>

-----------------------------------------------------------------------------
(* The page around the scheduler. *)

DomEvent ==
  /\ event
  /\ event' = FALSE
  /\ UNCHANGED head
  /\ Wake
  /\ UNCHANGED <<stopped, streams, visible, bound, toggles, synced, failures>>

Toggle == toggles < MaxToggles /\ toggles' = toggles + 1

\* Hidden fires an event, offline fires none that is listened to.
Hide ==
  /\ visible
  /\ Toggle
  /\ visible' = FALSE
  /\ event' \in {event, TRUE}
  /\ UNCHANGED <<flags, streams, bound, work, failures>>

\* Shown again, or online again: visibilitychange, online and focus all wake.
Show ==
  /\ ~visible
  /\ Toggle
  /\ visible' = TRUE
  /\ event' = TRUE
  /\ UNCHANGED <<flags, streams, bound, work, failures>>

\* Away still, but hidden or shown meanwhile.
Turn ==
  /\ ~visible
  /\ Toggle
  /\ event' = TRUE
  /\ UNCHANGED <<flags, streams, visible, bound, work, failures>>

Rebind ==
  /\ Toggle
  /\ bound' = ~bound
  /\ UNCHANGED <<flags, streams, visible, event, work, failures>>

Stop ==
  /\ ~stopped
  /\ stopped' = TRUE
  /\ timer' = FALSE
  /\ AbortStream
  /\ event' = FALSE
  /\ UNCHANGED <<running, requested, stream, opened, live, visible, bound, toggles, work,
                 failures>>

-----------------------------------------------------------------------------

Init ==
  /\ stopped = FALSE /\ running = FALSE /\ requested = FALSE /\ timer = TRUE
  /\ stream = 0 /\ opened = 0 /\ live = {} /\ aborted = {}
  /\ visible \in BOOLEAN /\ event = FALSE /\ bound \in BOOLEAN
  /\ head = 0 /\ seen = 0 /\ synced = 0
  /\ failures = 0 /\ toggles = 0

Settles == SyncSucceeds \/ SyncFails

Next ==
  \/ TimerFires \/ DomEvent \/ Settles
  \/ LocalEdit \/ StoreChanged \/ RemoteChange
  \/ \E s \in 1 .. MaxStreams : StreamEvent(s) \/ StreamEnds(s)
  \/ Hide \/ Show \/ Turn \/ Rebind \/ Stop

Spec == Init /\ [][Next]_vars

\* The browser fires armed timers and delivers events; every request of a cycle
\* has a deadline, so that a cycle settles.
FairSpec == Spec /\ WF_vars(TimerFires) /\ WF_vars(DomEvent) /\ WF_vars(Settles)

-----------------------------------------------------------------------------

\* A visible tab never falls asleep for good: a cycle runs, a timer is armed, or
\* an event that wakes it is on its way.
NeverAsleep == visible /\ ~stopped => running \/ timer \/ event

\* At most one stream is open that was not told to close, and it is the one the
\* scheduler would abort.
OneStream == live \ aborted \subseteq {stream}

\* Once stopped nothing is armed, no stream is left open, and no cycle starts.
StopIsFinal == stopped => ~timer /\ live \subseteq aborted
NothingStartsStopped ==
  [][stopped => (running' => running) /\ seen' = seen /\ opened' = opened]_vars

\* A tab that stays visible and bound ends up with every change, whoever made it
\* and whether or not the stream told of it.
CatchesUp == <>[](visible /\ bound /\ ~stopped) => <>[](synced = head)
=============================================================================
