------------------------ MODULE ConnectedSync_proofs ------------------------
(***************************************************************************)
(* The scheduler of a tab, for any number of changes, streams, failures    *)
(* and toggles; then the page around it, for any number of parts and       *)
(* attempts.                                                               *)
(***************************************************************************)
EXTENDS WorkspacePage, TLAPS

\* What wake() leaves behind in a tab that is visible and not stopped.
LEMMA WakeRuns ==
  ASSUME Wake, visible, ~stopped
  PROVE  running'
<1>1. CASE running
  BY <1>1, SMT DEF Wake, Halted, Begin
<1>2. CASE ~running
  BY <1>2, SMT DEF Wake, Halted, Begin
<1> QED BY <1>1, <1>2

LEMMA AwakeInit == Init => NeverAsleep
BY Zenon DEF Init, NeverAsleep

LEMMA AwakeNext == NeverAsleep /\ [Next]_vars => NeverAsleep'
<1> SUFFICES ASSUME NeverAsleep, [Next]_vars, visible', ~stopped'
             PROVE  running' \/ timer' \/ event'
  BY DEF NeverAsleep
<1>1. CASE UNCHANGED vars
  BY <1>1, Zenon DEF vars, flags, world, NeverAsleep
<1>2. CASE TimerFires
  BY <1>2, WakeRuns, Zenon DEF TimerFires, world
<1>3. CASE DomEvent
  BY <1>3, WakeRuns, Zenon DEF DomEvent
<1>4. CASE LocalEdit
  BY <1>4, WakeRuns, Zenon DEF LocalEdit, world
<1>5. ASSUME NEW s \in 1 .. MaxStreams, StreamEvent(s) PROVE running' \/ timer' \/ event'
  BY <1>5, WakeRuns, Zenon DEF StreamEvent, world
<1>6. ASSUME NEW s \in 1 .. MaxStreams, StreamEnds(s) PROVE running' \/ timer' \/ event'
  BY <1>6, Zenon DEF StreamEnds, ScheduleRetry, world, NeverAsleep
<1>7. CASE RemoteChange
  BY <1>7, Zenon DEF RemoteChange, flags, world, NeverAsleep
<1>8. CASE SyncSucceeds
  <2>1. stopped' = stopped
    BY <1>8, Zenon DEF SyncSucceeds
  <2>2. running' \/ timer'
    <3>1. ~Halted
      BY <2>1, Zenon DEF Halted
    <3>2. IF requested /\ visible THEN Begin ELSE timer' = TRUE
      BY <1>8, <3>1, Zenon DEF SyncSucceeds
    <3> QED BY <3>2, Zenon DEF Begin
  <2> QED BY <2>2
<1>9. CASE SyncFails
  BY <1>9, Zenon DEF SyncFails, BackOff
<1>10. CASE Hide
  BY <1>10, Zenon DEF Hide
<1>11. CASE Show
  BY <1>11, Zenon DEF Show
<1>12. CASE Rebind
  BY <1>12, Zenon DEF Rebind, flags, NeverAsleep
<1>13. CASE Stop
  BY <1>13, Zenon DEF Stop
<1>14. CASE StoreChanged
  BY <1>14, WakeRuns, Zenon DEF StoreChanged, world
<1>15. CASE Turn
  BY <1>15, Zenon DEF Turn
<1> QED
  BY <1>1, <1>2, <1>3, <1>4, <1>5, <1>6, <1>7, <1>8, <1>9, <1>10, <1>11, <1>12, <1>13, <1>14, <1>15
  DEF Next, Settles

\* A visible tab always has a cycle, a timer or an event ahead of it, whatever
\* wakes, failures, streams and toggles came before.
THEOREM AlwaysAwake == Spec => []NeverAsleep
BY AwakeInit, AwakeNext, PTL DEF Spec

-----------------------------------------------------------------------------

\* Only opened streams are live, and only the one that is held was not aborted.
StreamInv == opened \in Nat /\ live \subseteq 1 .. opened /\ OneStream

LEMMA StreamInit == Init => StreamInv
BY DEF Init, StreamInv, OneStream

LEMMA KeepStreamInv ==
  ASSUME StreamInv, KeepStream
  PROVE  StreamInv'
<1>1. CASE ~bound
  BY <1>1 DEF KeepStream, AbortStream, StreamInv, OneStream
<1>2. CASE bound /\ stream = 0 /\ opened < MaxStreams
  <2>1. opened' = opened + 1 /\ stream' = opened + 1 /\ live' = live \cup {opened + 1}
        /\ aborted' = aborted
    BY <1>2 DEF KeepStream
  <2>2. live \ aborted = {}
    BY <1>2 DEF StreamInv, OneStream
  <2>3. opened' \in Nat /\ live' \subseteq 1 .. opened'
    BY <2>1 DEF StreamInv
  <2>4. live' \ aborted' \subseteq {stream'}
    BY <2>1, <2>2
  <2> QED BY <2>3, <2>4 DEF StreamInv, OneStream
<1>3. CASE bound /\ ~(stream = 0 /\ opened < MaxStreams)
  BY <1>3 DEF KeepStream, StreamInv, OneStream, streams
<1> QED BY <1>1, <1>2, <1>3

LEMMA StreamNext == StreamInv /\ [Next]_vars => StreamInv'
<1> SUFFICES ASSUME StreamInv, [Next]_vars PROVE StreamInv'
  OBVIOUS
<1>1. CASE UNCHANGED streams
  BY <1>1 DEF streams, StreamInv, OneStream
<1>2. ASSUME NEW s \in 1 .. MaxStreams, StreamEnds(s) PROVE StreamInv'
  BY <1>2 DEF StreamEnds, StreamInv, OneStream
<1>3. CASE SyncSucceeds
  BY <1>1, <1>3, KeepStreamInv DEF SyncSucceeds
<1>4. CASE Stop
  BY <1>4 DEF Stop, AbortStream, StreamInv, OneStream
<1>5. ASSUME NEW s \in 1 .. MaxStreams, StreamEvent(s) PROVE StreamInv'
  BY <1>1, <1>5 DEF StreamEvent
<1>6. CASE UNCHANGED vars \/ TimerFires \/ DomEvent \/ SyncFails \/ LocalEdit \/ RemoteChange
           \/ StoreChanged \/ Hide \/ Show \/ Turn \/ Rebind
  BY <1>1, <1>6 DEF vars, TimerFires, DomEvent, SyncFails, LocalEdit, RemoteChange, StoreChanged,
     Hide, Show, Turn, Rebind
<1> QED BY <1>2, <1>3, <1>4, <1>5, <1>6 DEF Next, Settles

\* At most one open stream was not told to close: the one the scheduler holds.
THEOREM OneStreamOpen == Spec => []OneStream
<1>1. StreamInv => OneStream
  BY DEF StreamInv
<1> QED BY <1>1, StreamInit, StreamNext, PTL DEF Spec

LEMMA StopInit == Init => StopIsFinal
BY Zenon DEF Init, StopIsFinal

LEMMA WakeStopped ==
  ASSUME Wake, stopped
  PROVE  timer' = timer
BY Zenon DEF Wake, Halted

LEMMA StopNext == StreamInv /\ StopIsFinal /\ [Next]_vars => StopIsFinal'
<1> SUFFICES ASSUME StreamInv, StopIsFinal, [Next]_vars, stopped'
             PROVE  ~timer' /\ live' \subseteq aborted'
  BY DEF StopIsFinal
<1>1. CASE UNCHANGED vars
  BY <1>1, Zenon DEF vars, flags, streams, StopIsFinal
<1>2. ASSUME Wake, stopped' = stopped, UNCHANGED streams
      PROVE  ~timer' /\ live' \subseteq aborted'
  <2>1. stopped
    BY <1>2, Zenon
  <2>2. timer' = timer
    BY <1>2, <2>1, WakeStopped, Zenon
  <2> QED BY <1>2, <2>1, <2>2, Zenon DEF streams, StopIsFinal
<1>9. CASE TimerFires
  BY <1>2, <1>9, Zenon DEF TimerFires
<1>10. CASE DomEvent
  BY <1>2, <1>10, Zenon DEF DomEvent
<1>11. CASE LocalEdit
  BY <1>2, <1>11, Zenon DEF LocalEdit
<1>3. ASSUME NEW s \in 1 .. MaxStreams, StreamEvent(s)
      PROVE  ~timer' /\ live' \subseteq aborted'
  BY <1>3, WakeStopped, Zenon DEF StreamEvent, streams, StopIsFinal
<1>4. ASSUME NEW s \in 1 .. MaxStreams, StreamEnds(s)
      PROVE  ~timer' /\ live' \subseteq aborted'
  <2>1. stopped /\ live \subseteq aborted /\ ~timer
    BY <1>4, Zenon DEF StreamEnds, StopIsFinal
  <2>2. ~timer'
    BY <1>4, <2>1, Zenon DEF StreamEnds, ScheduleRetry
  <2>3. live' \subseteq aborted'
    BY <1>4, <2>1 DEF StreamEnds
  <2> QED BY <2>2, <2>3
<1>5. CASE SyncSucceeds
  <2>1. Halted
    BY <1>5, Zenon DEF SyncSucceeds, Halted
  <2>2. UNCHANGED <<stopped, timer, streams>>
    BY <1>5, <2>1, Zenon DEF SyncSucceeds
  <2> QED BY <2>2, Zenon DEF streams, StopIsFinal
<1>6. CASE SyncFails
  BY <1>6, Zenon DEF SyncFails, BackOff, streams, StopIsFinal
<1>7. CASE RemoteChange \/ Hide \/ Show \/ Turn \/ Rebind
  <2>1. UNCHANGED <<flags, streams>>
    BY <1>7, Zenon DEF RemoteChange, Hide, Show, Turn, Rebind
  <2> QED BY <2>1, Zenon DEF flags, streams, StopIsFinal
<1>8. CASE Stop
  <2>1. ~timer'
    BY <1>8, Zenon DEF Stop
  <2>2. live' \subseteq aborted'
    BY <1>8 DEF Stop, AbortStream, StreamInv, OneStream
  <2> QED BY <2>1, <2>2
<1>12. CASE StoreChanged
  BY <1>2, <1>12, Zenon DEF StoreChanged
<1> QED BY <1>1, <1>3, <1>4, <1>5, <1>6, <1>7, <1>8, <1>9, <1>10, <1>11, <1>12 DEF Next, Settles

\* stop() is final: no timer and no open stream survive it.
THEOREM StoppedForGood == Spec => []StopIsFinal
BY StreamInit, StreamNext, StopInit, StopNext, PTL DEF Spec

-----------------------------------------------------------------------------

\* The two halves of TypeOK: the Boolean variables, and the numbers and sets.
Flags ==
  /\ stopped \in BOOLEAN /\ running \in BOOLEAN
  /\ requested \in BOOLEAN /\ timer \in BOOLEAN
  /\ visible \in BOOLEAN /\ event \in BOOLEAN /\ bound \in BOOLEAN

Streams ==
  /\ opened \in 0 .. MaxStreams /\ stream \in 0 .. opened
  /\ live \subseteq 1 .. opened /\ aborted \subseteq 1 .. opened

Counts ==
  /\ head \in 0 .. MaxChanges /\ seen \in 0 .. head /\ synced \in 0 .. head
  /\ failures \in 0 .. MaxFailures /\ toggles \in 0 .. MaxToggles

LEMMA Halves == TypeOK <=> Flags /\ Streams /\ Counts
BY Zenon DEF TypeOK, Flags, Streams, Counts

LEMMA TypeInit == Init => TypeOK
<1> SUFFICES ASSUME Init PROVE Flags /\ Streams /\ Counts
  BY Halves, Zenon
<1>1. Flags
  BY Zenon DEF Init, Flags
<1>2. Streams
  BY BoundsAssumption DEF Init, Streams
<1>3. Counts
  BY BoundsAssumption DEF Init, Counts
<1> QED BY <1>1, <1>2, <1>3

LEMMA WakeFlags ==
  ASSUME Flags, Wake
  PROVE  running' \in BOOLEAN /\ requested' \in BOOLEAN /\ timer' \in BOOLEAN
BY Zenon DEF Flags, Wake, Begin

LEMMA FlagsNext == Flags /\ [Next]_vars => Flags'
<1> SUFFICES ASSUME Flags, [Next]_vars PROVE Flags'
  OBVIOUS
<1>1. CASE UNCHANGED vars
  BY <1>1, Zenon DEF vars, flags, world, Flags
<1>2. CASE TimerFires
  BY <1>2, WakeFlags, Zenon DEF TimerFires, world, Flags
<1>3. CASE DomEvent
  BY <1>3, WakeFlags, Zenon DEF DomEvent, Flags
<1>4. CASE LocalEdit
  BY <1>4, WakeFlags, Zenon DEF LocalEdit, world, Flags
<1>5. CASE RemoteChange
  BY <1>5, Zenon DEF RemoteChange, flags, world, Flags
<1>6. ASSUME NEW s \in 1 .. MaxStreams, StreamEvent(s) PROVE Flags'
  BY <1>6, WakeFlags, Zenon DEF StreamEvent, world, Flags
<1>7. ASSUME NEW s \in 1 .. MaxStreams, StreamEnds(s) PROVE Flags'
  <2>1. timer' \in BOOLEAN
    BY <1>7, Zenon DEF StreamEnds, ScheduleRetry
  <2> QED BY <1>7, <2>1, Zenon DEF StreamEnds, world, Flags
<1>8. CASE SyncSucceeds
  <2>1. running' \in BOOLEAN /\ timer' \in BOOLEAN /\ requested' \in BOOLEAN
    BY <1>8, Zenon DEF SyncSucceeds, Begin, Flags
  <2>2. stopped' = stopped /\ UNCHANGED world
    BY <1>8, Zenon DEF SyncSucceeds
  <2> QED BY <2>1, <2>2, Zenon DEF world, Flags
<1>9. CASE SyncFails
  <2>1. timer' \in BOOLEAN
    BY <1>9, Zenon DEF SyncFails, BackOff
  <2> QED BY <1>9, <2>1, Zenon DEF SyncFails, world, Flags
<1>10. CASE Hide
  <2>1. event' \in BOOLEAN
    BY <1>10, Zenon DEF Hide, Flags
  <2> QED BY <1>10, <2>1, Zenon DEF Hide, flags, Flags
<1>11. CASE Show
  BY <1>11, Zenon DEF Show, flags, Flags
<1>12. CASE Rebind
  <2>1. bound' \in BOOLEAN
    BY <1>12, Zenon DEF Rebind
  <2> QED BY <1>12, <2>1, Zenon DEF Rebind, flags, Flags
<1>13. CASE Stop
  BY <1>13, Zenon DEF Stop, Flags
<1>14. CASE StoreChanged
  BY <1>14, WakeFlags, Zenon DEF StoreChanged, world, Flags
<1>15. CASE Turn
  BY <1>15, Zenon DEF Turn, flags, Flags
<1> QED BY <1>1, <1>2, <1>3, <1>4, <1>5, <1>6, <1>7, <1>8, <1>9, <1>10, <1>11, <1>12, <1>13,
   <1>14, <1>15, Zenon DEF Next, Settles

LEMMA KeepStreams ==
  ASSUME Streams, KeepStream
  PROVE  Streams'
<1>1. CASE ~bound
  <2>1. AbortStream /\ stream' = 0 /\ opened' = opened /\ live' = live
    BY <1>1, Zenon DEF KeepStream
  <2> QED BY <2>1, BoundsAssumption DEF AbortStream, Streams
<1>2. CASE bound /\ stream = 0 /\ opened < MaxStreams
  <2>1. /\ opened' = opened + 1 /\ stream' = opened + 1
        /\ live' = live \cup {opened + 1} /\ aborted' = aborted
    BY <1>2, Zenon DEF KeepStream
  <2> QED BY <1>2, <2>1, BoundsAssumption DEF Streams
<1>3. CASE bound /\ ~(stream = 0 /\ opened < MaxStreams)
  BY <1>3, Zenon DEF KeepStream, streams, Streams
<1> QED BY <1>1, <1>2, <1>3

LEMMA StreamsNext == Streams /\ [Next]_vars => Streams'
<1> SUFFICES ASSUME Streams, [Next]_vars PROVE Streams'
  OBVIOUS
<1>1. CASE UNCHANGED streams
  BY <1>1, Zenon DEF streams, Streams
<1>2. ASSUME NEW s \in 1 .. MaxStreams, StreamEnds(s) PROVE Streams'
  <2>1. /\ live' = live \ {s} /\ opened' = opened /\ aborted' = aborted
        /\ (stream' = 0 \/ stream' = stream)
    BY <1>2, Zenon DEF StreamEnds
  <2> QED BY <2>1, BoundsAssumption DEF Streams
<1>3. CASE SyncSucceeds
  BY <1>1, <1>3, KeepStreams, Zenon DEF SyncSucceeds
<1>4. CASE Stop
  <2>1. AbortStream /\ stream' = stream /\ opened' = opened /\ live' = live
    BY <1>4, Zenon DEF Stop
  <2> QED BY <2>1, BoundsAssumption DEF AbortStream, Streams
<1>5. ASSUME NEW s \in 1 .. MaxStreams, StreamEvent(s) PROVE Streams'
  BY <1>1, <1>5, Zenon DEF StreamEvent
<1>6. CASE UNCHANGED vars \/ TimerFires \/ DomEvent \/ SyncFails \/ LocalEdit \/ RemoteChange
           \/ StoreChanged \/ Hide \/ Show \/ Turn \/ Rebind
  BY <1>1, <1>6, Zenon DEF vars, TimerFires, DomEvent, SyncFails, LocalEdit, RemoteChange,
     StoreChanged, Hide, Show, Turn, Rebind
<1> QED BY <1>2, <1>3, <1>4, <1>5, <1>6, Zenon DEF Next, Settles

\* A cycle takes over the workspace as it is when it starts.
LEMMA WakeSees ==
  ASSUME Wake
  PROVE  seen' = seen \/ seen' = head'
BY Zenon DEF Wake, Begin

LEMMA CountsNext == Counts /\ [Next]_vars => Counts'
<1> SUFFICES ASSUME Counts, [Next]_vars PROVE Counts'
  OBVIOUS
<1> USE BoundsAssumption
<1>1. ASSUME head' \in {head, head + 1}, head' \in 0 .. MaxChanges,
             seen' = seen \/ seen' = head', synced' = synced \/ synced' = seen,
             failures' \in 0 .. MaxFailures, toggles' \in 0 .. MaxToggles
      PROVE  Counts'
  BY <1>1 DEF Counts
<1>2. CASE TimerFires \/ DomEvent \/ StoreChanged \/ \E s \in 1 .. MaxStreams : StreamEvent(s)
  <2>1. Wake /\ UNCHANGED <<head, synced, failures, toggles>>
    BY <1>2, Zenon DEF TimerFires, DomEvent, StoreChanged, StreamEvent, world
  <2> QED BY <1>1, <2>1, WakeSees DEF Counts
<1>3. CASE LocalEdit \/ RemoteChange
  <2>1. /\ head < MaxChanges /\ head' = head + 1 /\ (Wake \/ seen' = seen)
        /\ synced' = synced /\ failures' = failures /\ toggles' = toggles
    BY <1>3, Zenon DEF LocalEdit, RemoteChange, world
  <2> QED BY <1>1, <2>1, WakeSees DEF Counts
<1>4. CASE SyncSucceeds
  <2>1. /\ head' = head /\ (seen' = seen \/ seen' = head') /\ (synced' = synced \/ synced' = seen)
        /\ failures' = failures /\ toggles' = toggles
    BY <1>4, Zenon DEF SyncSucceeds, Begin, world
  <2> QED BY <1>1, <2>1 DEF Counts
<1>5. CASE SyncFails
  <2>1. failures < MaxFailures /\ failures' = failures + 1 /\ UNCHANGED work /\ toggles' = toggles
    BY <1>5, Zenon DEF SyncFails, world
  <2> QED BY <1>1, <2>1 DEF work, Counts
<1>6. CASE Hide \/ Show \/ Turn \/ Rebind
  <2>1. toggles < MaxToggles /\ toggles' = toggles + 1 /\ UNCHANGED <<work, failures>>
    BY <1>6, Zenon DEF Hide, Show, Turn, Rebind, Toggle
  <2> QED BY <1>1, <2>1 DEF work, Counts
<1>7. CASE Stop \/ UNCHANGED vars \/ \E s \in 1 .. MaxStreams : StreamEnds(s)
  <2>1. UNCHANGED <<work, failures, toggles>>
    BY <1>7, Zenon DEF Stop, vars, world, StreamEnds
  <2> QED BY <1>1, <2>1 DEF work, Counts
<1> QED BY <1>2, <1>3, <1>4, <1>5, <1>6, <1>7, Zenon DEF Next, Settles

LEMMA TypeNext == TypeOK /\ [Next]_vars => TypeOK'
<1>1. TypeOK' <=> Flags' /\ Streams' /\ Counts'
  BY Zenon DEF TypeOK, Flags, Streams, Counts
<1> QED BY <1>1, Halves, FlagsNext, StreamsNext, CountsNext, Zenon

\* The scheduler keeps its types: it never holds, awaits or aborts a stream that
\* was not opened, and never takes over a change that was not made.
THEOREM TypeCorrect == Spec => []TypeOK
BY TypeInit, TypeNext, PTL DEF Spec

-----------------------------------------------------------------------------

LEMMA WakeStartsNothing ==
  ASSUME Wake, stopped
  PROVE  running' = running /\ seen' = seen
BY Zenon DEF Wake, Halted

\* Whatever comes after stop(), the answer of a cycle, a timer, an event or the
\* end of a stream, starts no cycle and opens no stream.
THEOREM NothingStarts == Spec => NothingStartsStopped
<1>1. [Next]_vars =>
        [stopped => (running' => running) /\ seen' = seen /\ opened' = opened]_vars
  <2> SUFFICES ASSUME Next, stopped
               PROVE  (running' => running) /\ seen' = seen /\ opened' = opened
    BY Zenon
  <2>1. ASSUME Wake, UNCHANGED streams
        PROVE  (running' => running) /\ seen' = seen /\ opened' = opened
    <3>1. running' = running /\ seen' = seen
      BY <2>1, WakeStartsNothing, Zenon
    <3>2. opened' = opened
      BY <2>1, Zenon DEF streams
    <3> QED BY <3>1, <3>2, Zenon
  <2>2. CASE TimerFires
    BY <2>1, <2>2, Zenon DEF TimerFires
  <2>3. CASE DomEvent
    BY <2>1, <2>3, Zenon DEF DomEvent
  <2>4. CASE LocalEdit
    BY <2>1, <2>4, Zenon DEF LocalEdit
  <2>5. ASSUME NEW s \in 1 .. MaxStreams, StreamEvent(s)
        PROVE  (running' => running) /\ seen' = seen /\ opened' = opened
    BY <2>1, <2>5, Zenon DEF StreamEvent
  <2>6. ASSUME NEW s \in 1 .. MaxStreams, StreamEnds(s)
        PROVE  (running' => running) /\ seen' = seen /\ opened' = opened
    BY <2>6, Zenon DEF StreamEnds, work
  <2>7. CASE SyncSucceeds
    BY <2>7, Zenon DEF SyncSucceeds, Halted, streams
  <2>8. CASE SyncFails
    BY <2>8, Zenon DEF SyncFails, streams, work
  <2>9. CASE RemoteChange
    <3>1. UNCHANGED <<flags, streams, seen>>
      BY <2>9, Zenon DEF RemoteChange
    <3> QED BY <3>1, Zenon DEF flags, streams
  <2>10. CASE Hide \/ Show \/ Turn \/ Rebind
    <3>1. UNCHANGED <<flags, streams, work>>
      BY <2>10, Zenon DEF Hide, Show, Turn, Rebind
    <3> QED BY <3>1, Zenon DEF flags, streams, work
  <2>11. CASE Stop
    BY <2>11, Zenon DEF Stop, work
  <2>12. CASE StoreChanged
    BY <2>1, <2>12, Zenon DEF StoreChanged
  <2> QED BY <2>2, <2>3, <2>4, <2>5, <2>6, <2>7, <2>8, <2>9, <2>10, <2>11, <2>12,
      Zenon DEF Next, Settles
<1> QED BY <1>1, PTL DEF Spec, NothingStartsStopped
-----------------------------------------------------------------------------
(* The page. *)

\* Every step of a tab with its page is one of its scheduler, or leaves it alone.
LEMMA PageStep == [PageNext]_pageVars => [Next]_vars
<1> SUFFICES ASSUME [PageNext]_pageVars PROVE Next \/ UNCHANGED vars
  BY Zenon
<1>1. CASE UNCHANGED pageVars
  BY <1>1, Zenon DEF pageVars
<1>2. CASE Load
  <2>1. LoadStep
    BY <1>2, Zenon DEF Load, Probe, BeginRead, ReadPart, Validate, Publish
  <2> QED BY <2>1, Zenon DEF LoadStep
<1>3. CASE EditHere \/ EditInOtherTab \/ EditElsewhere \/ CycleCommits \/ Told
  <2>1. LocalEdit \/ RemoteChange \/ StoreChanged
    BY <1>3, Zenon DEF EditHere, EditInOtherTab, EditElsewhere, CycleCommits, Told
  <2> QED BY <2>1, Zenon DEF Next
<1>4. CASE Refresh
  BY <1>4, Zenon DEF Refresh
<1>5. CASE HearsEvent \/ Away \/ Back \/ TurnOffline \/ Close
  <2>1. DomEvent \/ Hide \/ Show \/ Turn \/ Stop
    BY <1>5, Zenon DEF HearsEvent, Away, Back, TurnOffline, Close
  <2> QED BY <2>1, Zenon DEF Next
<1>6. CASE Schedule
  <2>1. TimerFires \/ SyncFails \/ Rebind \/ SyncSucceeds
        \/ \E s \in 1 .. MaxStreams : StreamEvent(s) \/ StreamEnds(s)
    BY <1>6, Zenon DEF Schedule
  <2> QED BY <2>1, Zenon DEF Next, Settles
<1> QED BY <1>1, <1>2, <1>3, <1>4, <1>5, <1>6, Zenon DEF PageNext

\* A tab with its page implements the scheduler, so that what is proved of the
\* scheduler holds of the tab.
THEOREM PageSchedules == PageSpec => Spec
<1>1. PageInit => Init
  BY Zenon DEF PageInit
<1> QED BY <1>1, PageStep, PTL DEF PageSpec, Spec

Loads ==
  [phase : {"idle", "probe", "begin", "read", "publish"}, begun : Nat, parts : Seq(Nat),
   attempt : Nat]

AllAt(parts, r) == \A k \in 1 .. Len(parts) : parts[k] = r

\* What the reads of a load say: they were made at the revision it began with,
\* or the store has moved on since.
LoadInv ==
  /\ revision \in Nat
  /\ load \in Loads
  /\ load.begun \in Nat /\ load.begun <= revision
  /\ load.phase \in {"read", "publish"} =>
       load.begun # revision \/ AllAt(load.parts, load.begun)
  /\ load.phase = "publish" => Len(load.parts) = Parts /\ AllAt(load.parts, load.begun)

\* The snapshot shown is of the revision r, which no load under way is older than.
Shows(r) ==
  /\ r \in Nat /\ r <= revision /\ shown = Whole(r)
  /\ load.phase \in {"read", "publish"} => r <= load.begun

PageInv == LoadInv /\ \E r \in Nat : Shows(r)

LEMMA NoParts == <<>> \in Seq(Nat) /\ \A r \in Nat : AllAt(<<>>, r)
BY DEF AllAt

LEMMA Records ==
  /\ Idle.phase = "idle" /\ Idle.begun = 0 /\ Idle.parts = <<>> /\ Idle.attempt = 1
  /\ Loading.phase = "probe" /\ Loading.begun = 0 /\ Loading.parts = <<>> /\ Loading.attempt = 1
  /\ {Idle, Loading} \subseteq Loads
<1>1. <<>> \in Seq(Nat)
  BY NoParts
<1>2. Loading = [phase |-> "probe", begun |-> 0, parts |-> <<>>, attempt |-> 1]
  BY DEF Loading, Idle
<1> QED BY <1>1, <1>2 DEF Idle, Loads

\* A load that is left alone, or that starts or ends, while the store moves on.
LEMMA LoadStays ==
  ASSUME LoadInv, NEW r \in Nat, Shows(r), load' \in {load, Idle, Loading},
         revision' \in {revision, revision + 1}, shown' = shown
  PROVE  LoadInv' /\ Shows(r)'
<1>1. CASE load' = load
  BY <1>1 DEF LoadInv, Shows
<1>2. CASE load' \in {Idle, Loading}
  BY <1>2, Records DEF LoadInv, Shows
<1> QED BY <1>1, <1>2

LEMMA EndsLoad ==
  ASSUME LoadEnds
  PROVE  load' \in {Idle, Loading}
BY Zenon DEF LoadEnds

LEMMA PullLoads ==
  ASSUME Pull \/ Fetch \/ UNCHANGED refreshes
  PROVE  load' \in {load, Loading}
BY Zenon DEF Pull, Fetch, refreshes

\* Whatever is not a step of a load.
LEMMA WorldStep ==
  ASSUME PageNext, ~Load
  PROVE  /\ load' \in {load, Loading} /\ shown' = shown
         /\ revision' \in {revision, revision + 1}
<1>1. CASE EditHere \/ CycleCommits \/ Told
  <2>1. Pull /\ shown' = shown /\ (Commit \/ revision' = revision)
    BY <1>1, Zenon DEF EditHere, CycleCommits, Told
  <2> QED BY <2>1, PullLoads, Zenon DEF Commit
<1>2. CASE EditInOtherTab
  BY <1>2, Zenon DEF EditInOtherTab, Commit, page, refreshes
<1>3. CASE EditElsewhere \/ Away \/ Back \/ TurnOffline \/ Schedule
  <2>1. UNCHANGED <<store, page>>
    BY <1>3, Zenon DEF EditElsewhere, Away, Back, TurnOffline, Schedule
  <2> QED BY <2>1, Zenon DEF store, page, refreshes
<1>4. CASE Refresh
  BY <1>4, PullLoads, Zenon DEF Refresh, store
<1>5. CASE HearsEvent
  BY <1>5, PullLoads, Zenon DEF HearsEvent, store
<1>6. CASE Close
  BY <1>6, Zenon DEF Close, page, refreshes
<1> QED BY <1>1, <1>2, <1>3, <1>4, <1>5, <1>6, Zenon DEF PageNext

LEMMA BeginInv ==
  ASSUME LoadInv, NEW r \in Nat, Shows(r), BeginRead
  PROVE  LoadInv' /\ Shows(r)'
<1>1. /\ load' = [load EXCEPT !.phase = "read", !.begun = revision, !.parts = <<>>]
      /\ revision' = revision /\ shown' = shown
  BY Zenon DEF BeginRead, LoadStep, store
<1>2. /\ load'.phase = "read" /\ load'.begun = revision /\ load'.parts = <<>>
      /\ load' \in Loads
  BY <1>1, NoParts DEF LoadInv, Loads
<1>3. LoadInv'
  BY <1>1, <1>2, NoParts DEF LoadInv
<1> QED BY <1>1, <1>2, <1>3 DEF LoadInv, Shows

LEMMA ReadInv ==
  ASSUME LoadInv, NEW r \in Nat, Shows(r), ReadPart
  PROVE  LoadInv' /\ Shows(r)'
<1>1. /\ load.phase = "read" /\ load' = [load EXCEPT !.parts = Append(load.parts, revision)]
      /\ revision' = revision /\ shown' = shown
  BY Zenon DEF ReadPart, LoadStep, store
<1>2. /\ load'.phase = "read" /\ load'.begun = load.begun
      /\ load'.parts = Append(load.parts, revision) /\ load' \in Loads
  <2>1. Append(load.parts, revision) \in Seq(Nat)
    BY DEF LoadInv, Loads
  <2> QED BY <1>1, <2>1 DEF LoadInv, Loads
<1>3. ASSUME load.begun = revision, NEW k \in 1 .. Len(load'.parts)
      PROVE  load'.parts[k] = load.begun
  <2>1. load.parts \in Seq(Nat) /\ revision \in Nat
    BY DEF LoadInv, Loads
  <2>2. CASE k \in 1 .. Len(load.parts)
    BY <1>1, <1>2, <1>3, <2>1, <2>2 DEF LoadInv, AllAt
  <2>3. CASE k = Len(load.parts) + 1
    BY <1>2, <1>3, <2>1, <2>3
  <2> QED BY <1>2, <2>1, <2>2, <2>3
<1>4. load.begun = revision => AllAt(load'.parts, load.begun)
  BY <1>3 DEF AllAt
<1>5. LoadInv'
  BY <1>1, <1>2, <1>4 DEF LoadInv
<1> QED BY <1>1, <1>2, <1>5 DEF Shows

LEMMA ValidateInv ==
  ASSUME LoadInv, NEW r \in Nat, Shows(r), Validate
  PROVE  LoadInv' /\ Shows(r)'
<1>1. load.phase = "read" /\ Len(load.parts) = Parts /\ revision' = revision /\ shown' = shown
  BY Zenon DEF Validate, LoadStep, store
<1>2. CASE Valid /\ load' = [load EXCEPT !.phase = "publish"]
  <2>1. /\ load'.phase = "publish" /\ load'.begun = load.begun /\ load'.parts = load.parts
        /\ load' \in Loads
    BY <1>2 DEF LoadInv, Loads
  <2>2. LoadInv'
    BY <1>1, <1>2, <2>1 DEF Valid, LoadInv
  <2> QED BY <1>1, <2>1, <2>2 DEF Shows
<1>3. CASE load' = [Loading EXCEPT !.phase = "begin", !.attempt = load.attempt + 1]
  <2>1. load'.phase = "begin" /\ load'.begun = 0 /\ load' \in Loads
    <3>1. load' = [phase |-> "begin", begun |-> 0, parts |-> <<>>, attempt |-> load.attempt + 1]
      BY <1>3 DEF Loading, Idle
    <3>2. load.attempt + 1 \in Nat
      BY DEF LoadInv, Loads
    <3> QED BY <3>1, <3>2, NoParts DEF Loads
  <2>2. LoadInv'
    BY <1>1, <2>1 DEF LoadInv
  <2> QED BY <1>1, <2>1, <2>2 DEF Shows
<1>4. CASE LoadEnds
  <2>1. load' \in {load, Idle, Loading}
    BY <1>4, EndsLoad
  <2> QED BY <1>1, <2>1, LoadStays
<1> QED BY <1>2, <1>3, <1>4, Zenon DEF Validate

\* A snapshot that is published is whole, and not older than what was shown.
LEMMA PublishInv ==
  ASSUME LoadInv, NEW r \in Nat, Shows(r), Publish
  PROVE  /\ LoadInv'
         /\ \/ shown' = shown /\ Shows(r)'
            \/ /\ ~stopped /\ r <= load.begun /\ load.begun <= revision /\ revision' = revision
               /\ shown' = Whole(load.begun) /\ load'.phase \notin {"read", "publish"}
<1>1. /\ load.phase = "publish" /\ revision' = revision /\ load' \in {Idle, Loading}
      /\ shown' = shown \/ (~stopped /\ shown' = load.parts)
  BY EndsLoad, Zenon DEF Publish, PublishSnapshot, LoadStep, store
<1>2. LoadInv'
  BY <1>1, Records DEF LoadInv
<1>3. load.parts = Whole(load.begun)
  <2>1. load.parts \in Seq(Nat) /\ Len(load.parts) = Parts
        /\ \A k \in 1 .. Parts : load.parts[k] = load.begun
    BY <1>1 DEF LoadInv, Loads, AllAt
  <2> QED BY <2>1 DEF Whole
<1>4. r <= load.begun /\ load.begun \in Nat /\ load.begun <= revision
  BY <1>1 DEF LoadInv, Loads, Shows
<1>5. CASE shown' = shown
  BY <1>1, <1>2, <1>5, Records DEF Shows
<1>6. CASE ~stopped /\ shown' = load.parts
  <2>1. load'.phase \notin {"read", "publish"}
    BY <1>1, Records
  <2>2. shown' = Whole(load.begun)
    BY <1>3, <1>6, Zenon
  <2> QED BY <1>1, <1>2, <1>4, <1>6, <2>1, <2>2, Zenon
<1> QED BY <1>1, <1>5, <1>6

\* Every step keeps what is shown, or shows a later revision of an open page.
LEMMA PageInvStep ==
  ASSUME LoadInv, NEW r \in Nat, Shows(r), [PageNext]_pageVars
  PROVE  /\ LoadInv'
         /\ \/ shown' = shown /\ Shows(r)'
            \/ \E q \in Nat : /\ ~stopped /\ Shows(q)' /\ r <= q /\ q <= revision
                              /\ shown' = Whole(q)
<1>1. CASE UNCHANGED pageVars
  <2>1. load' = load /\ revision' = revision /\ shown' = shown
    BY <1>1, Zenon DEF pageVars, page, refreshes, store
  <2> QED BY <2>1, LoadStays
<1>2. CASE PageNext /\ ~Load
  BY <1>2, WorldStep, LoadStays
<1>3. CASE Probe
  <2>1. CASE LoadEnds /\ shown' = shown /\ revision' = revision
    BY <2>1, EndsLoad, LoadStays
  <2>2. CASE load' = [load EXCEPT !.phase = "begin"] /\ shown' = shown /\ revision' = revision
    <3>1. /\ load'.phase = "begin" /\ load'.begun = load.begun /\ load'.parts = load.parts
          /\ load' \in Loads
      BY <2>2 DEF LoadInv, Loads
    <3> QED BY <2>2, <3>1 DEF LoadInv, Shows
  <2> QED BY <1>3, <2>1, <2>2, Zenon DEF Probe, LoadStep, store
<1>4. CASE BeginRead
  BY <1>4, BeginInv, Zenon DEF BeginRead
<1>5. CASE ReadPart
  BY <1>5, ReadInv, Zenon DEF ReadPart
<1>6. CASE Validate
  BY <1>6, ValidateInv, Zenon DEF Validate
<1>7. CASE Publish
  <2>1. load.begun \in Nat
    BY DEF LoadInv, Loads
  <2>2. CASE shown' = shown /\ Shows(r)'
    BY <1>7, <2>2, PublishInv
  <2>3. CASE /\ ~stopped /\ r <= load.begun /\ load.begun <= revision /\ revision' = revision
             /\ shown' = Whole(load.begun) /\ load'.phase \notin {"read", "publish"}
    <3>1. PICK q \in Nat : q = load.begun
      BY <2>1
    <3>2. /\ ~stopped /\ r <= q /\ q <= revision /\ shown' = Whole(q)
          /\ revision' = revision /\ load'.phase \notin {"read", "publish"}
      BY <2>3, <3>1
    <3>3. Shows(q)'
      BY <3>2 DEF Shows
    <3>4. LoadInv'
      BY <1>7, PublishInv
    <3> QED BY <3>2, <3>3, <3>4
  <2> QED BY <1>7, <2>2, <2>3, PublishInv, Zenon
<1> QED BY <1>1, <1>2, <1>3, <1>4, <1>5, <1>6, <1>7, Zenon DEF Load

LEMMA PageInvNext == PageInv /\ [PageNext]_pageVars => PageInv'
<1> SUFFICES ASSUME LoadInv, NEW r \in Nat, Shows(r), [PageNext]_pageVars PROVE PageInv'
  BY Zenon DEF PageInv
<1> QED BY PageInvStep, Zenon DEF PageInv

LEMMA PageInvInit == PageInit => PageInv
<1> SUFFICES ASSUME PageInit PROVE PageInv
  OBVIOUS
<1>1. revision = 1 /\ load = Loading /\ shown = Whole(0)
  BY Zenon DEF PageInit
<1>2. LoadInv
  BY <1>1, Records DEF LoadInv
<1>3. Shows(0)
  BY <1>1, Records DEF Shows
<1> QED BY <1>2, <1>3 DEF PageInv

\* What the page shows is the workspace at one moment, after what it showed
\* before, however many commits come between the reads; and a closed page shows
\* nothing any more.
THEOREM PageShowsWhole == PageSpec => ShowsWhole
<1>1. PageInv /\ [PageNext]_pageVars =>
        [shown' # shown =>
           ~stopped /\ \E r \in shown[1] + 1 .. revision : shown' = Whole(r)]_pageVars
  <2> SUFFICES ASSUME LoadInv, NEW r \in Nat, Shows(r), [PageNext]_pageVars, shown' # shown
               PROVE  ~stopped /\ \E q \in shown[1] + 1 .. revision : shown' = Whole(q)
    BY Zenon DEF PageInv
  <2>1. PICK q \in Nat : ~stopped /\ r <= q /\ q <= revision /\ shown' = Whole(q)
    BY PageInvStep, Zenon
  <2>2. shown = Whole(r) /\ r # q
    BY <2>1 DEF Shows
  <2>3. shown[1] = r
    BY <2>2, PageAssumption DEF Whole
  <2>4. q \in shown[1] + 1 .. revision
    BY <2>1, <2>2, <2>3 DEF LoadInv
  <2> QED BY <2>1, <2>4
<1> QED BY <1>1, PageInvInit, PageInvNext, PTL DEF PageSpec, ShowsWhole
=============================================================================
