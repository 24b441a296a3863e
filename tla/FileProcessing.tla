--------------------------- MODULE FileProcessing ---------------------------
(***************************************************************************)
(* Background extraction of the files of a local workspace: the worker     *)
(* loop of the shell (wakeFileProcessing), FileProcessingService, the      *)
(* leases of the processing journal in IndexedDB, and the extraction jobs  *)
(* a tab's background work and its previews share                          *)
(* (FileExtractionCoordinator).                                            *)
(*                                                                         *)
(* Several tabs work on one database; a tab may close or reload at any     *)
(* moment and comes back with nothing but the database.  Each action is    *)
(* one IndexedDB transaction, or what a tab does between two awaits.       *)
(*                                                                         *)
(* Abstractions.  A lease is the number of its claim: it is its id and,    *)
(* since every lease lasts 60 s, the rank of its leaseUntil; the clock is  *)
(* how many leases have expired.  The bytes of a file never change, so its *)
(* version stands for version and contentHash.  Only files that can be     *)
(* read and are small enough are files here.  No caller gives process() a  *)
(* signal, so an attempt is never CANCELED and no record is ever PENDING.  *)
(***************************************************************************)
EXTENDS Integers

CONSTANTS
  Tabs, Files,
  NoFile,        \* not a file
  Remote,        \* the files that other devices of the account also change
  Viewers,       \* the tabs where the page of a file may be open
  Limit,         \* files a drain processes before it pauses (8 in the code)
  MaxVersion,    \* bound: versions of a file
  MaxCrashes,    \* bound: tabs closed or reloaded
  MaxSlow,       \* bound: leases that expire while their worker is only slow
  MaxFailures,   \* bound: infrastructure failures
  MaxRetries,    \* bound: retries asked for by the user
  MaxReads,      \* bound: originals opened by the user
  MaxPreviews    \* bound: pages that preview a file

ASSUME FilesAssumption ==
  NoFile \notin Files /\ Remote \subseteq Files /\ Viewers \subseteq Tabs
ASSUME BoundsAssumption ==
  /\ Limit \in Nat \ {0} /\ MaxVersion \in Nat \ {0}
  /\ MaxCrashes \in Nat /\ MaxSlow \in Nat /\ MaxFailures \in Nat /\ MaxRetries \in Nat
  /\ MaxReads \in Nat /\ MaxPreviews \in Nat

VARIABLES
  file,      \* the row of each file; version 0: it does not exist
  blob,      \* the files whose bytes are in the local blob store
  record,    \* the processing journal
  doc,       \* version the stored extraction of each file was made of (0: none)
  leases,    \* leases granted so far
  past,      \* how many of them have expired
  up,        \* the open tabs
  starting,  \* the tabs that have just opened: setTimeout(wakeFileProcessing, 0)
  requested, \* processingRequested
  job,       \* processingJob: none, or where it is
  timer,     \* processingRecovery: the lease it waits for, or NoTimer
  todo,      \* the listed files that a pass has not looked at yet
  processed, \* files processed in this drain
  earliest,  \* the earliest lease this nextRecovery has seen, or NoTimer
  attempt,   \* the process() call of a drain, and of a retry by the user
  preview,   \* the file and version whose preview an open page waits for
  extraction,\* the coordinator's pending extractions
  orphans,   \* abandoned extractions that are past their last abort check
  downloading, \* the originals each tab is downloading
  spent      \* how often each bounded event has happened

store == <<file, blob, record, doc>>
clock == <<leases, past>>
loop == <<requested, job, timer>>
pass == <<todo, processed, earliest>>
work == <<attempt, preview, extraction, orphans, downloading>>
tabs == <<up, starting>>
vars == <<store, clock, tabs, loop, pass, work, spent>>

NoTimer == 0
Versions == 1 .. MaxVersion
Keys == Files \X Versions        \* the coordinator's key: a file and a version
NoKey == <<NoFile, 0>>
Workers == Tabs \X {"drain", "retry"}
Stages == {"none", "reading", "parsing", "publishing"}
Jobs == {"none", "list", "drain", "pause", "scan", "recovery"}
Outcomes == {"none", "ready", "failed", "conflict", "broken"}
NoAttempt == [stage |-> "idle", key |-> NoKey, lease |-> 0, outcome |-> "none"]
NoRecord == [version |-> 0, state |-> "NONE", lease |-> 0]
Allowed == [crash |-> MaxCrashes, slow |-> MaxSlow,
            fail |-> MaxFailures, retry |-> MaxRetries, read |-> MaxReads, view |-> MaxPreviews]

FileType == [version : 0 .. MaxVersion, live : BOOLEAN]
RecordType == [version : 0 .. MaxVersion, state : {"NONE", "RUNNING", "READY", "FAILED"},
               lease : Nat]
AttemptType == [stage : {"idle", "get", "available", "claim", "extract", "finish"},
                key : Keys \cup {NoKey}, lease : Nat, outcome : Outcomes]

StoreOK ==
  /\ file \in [Files -> FileType]
  /\ \A f \in Files : file[f].live => file[f].version # 0
  /\ blob \subseteq Files
  /\ record \in [Files -> RecordType]
  /\ doc \in [Files -> 0 .. MaxVersion]
ClockOK == leases \in Nat /\ past \in Nat /\ past <= leases
TabsOK == up \subseteq Tabs /\ starting \subseteq up
LoopOK ==
  /\ requested \in [Tabs -> BOOLEAN] /\ job \in [Tabs -> Jobs]
  /\ timer \in [Tabs -> Nat]
PassOK ==
  /\ todo \in [Tabs -> SUBSET Keys]
  /\ processed \in [Tabs -> 0 .. Limit]
  /\ earliest \in [Tabs -> Nat]
WorkOK ==
  /\ attempt \in [Workers -> AttemptType]
  /\ preview \in [Tabs -> Keys \cup {NoKey}]
  /\ extraction \in [Tabs -> [Keys -> Stages]]
  /\ orphans \subseteq Tabs \X Keys
  /\ downloading \in [Tabs -> SUBSET Files]

\* Every variable keeps its type, in particular no drain counts more files than
\* its limit.
TypeOK ==
  /\ StoreOK /\ ClockOK /\ TabsOK /\ LoopOK /\ PassOK /\ WorkOK
  /\ spent \in [DOMAIN Allowed -> Nat]

-----------------------------------------------------------------------------
\* The store.

\* A file row is there, not deleted, and of the version the caller read.
IsCurrent(k) == file[k[1]].live /\ file[k[1]].version = k[2]

\* The record get and claim see: one of another version counts as none, and so
\* does READY without a stored extraction.
Matching(f) ==
  IF record[f].version = file[f].version /\ (record[f].state = "READY" => doc[f] # 0)
  THEN record[f].state ELSE "NONE"

ClaimableAnyway(f, retry) ==   \* mutant: a running lease is not respected
  Matching(f) # "READY" /\ (Matching(f) = "FAILED" => retry)
\* Whether an attempt may take the file: nobody has settled it and nobody
\* holds an unexpired lease; only a retry takes up a failure.
Claimable(f, retry) ==
  /\ Matching(f) # "READY"
  /\ Matching(f) = "FAILED" => retry
  /\ Matching(f) = "RUNNING" => record[f].lease <= past

HoldsVersion(w) ==   \* mutant: any result of this version will do
  record[attempt[w].key[1]].version = attempt[w].key[2]
\* finish() accepts the result only of the lease that is RUNNING.
HoldsLease(w) ==
  LET a == attempt[w] IN
  record[a.key[1]] = [version |-> a.key[2], state |-> "RUNNING", lease |-> a.lease]

\* The pages of a tab can be used: the wake of bootstrap, a timer of 0 ms set
\* while the shell is put together, fires before a page is shown.
Shown(t) == t \in up \ starting

\* One of the bounded events happens.
Spend(kind) ==
  spent[kind] < Allowed[kind] /\ spent' = [spent EXCEPT ![kind] = @ + 1]

-----------------------------------------------------------------------------
\* Extractions shared within a tab.

\* The attempts of tab t that observe extraction k.
Observing(t, k) ==
  {w \in Workers : w[1] = t /\ attempt[w].stage = "extract" /\ attempt[w].key = k}

\* An observer joins the pending extraction of its key or starts one.
Join(t, k) ==
  extraction' = [extraction EXCEPT ![t][k] = IF @ = "none" THEN "reading" ELSE @]

\* The extraction ends; every observer gets its outcome.
Settle(t, k, outcome) ==
  /\ extraction' = [extraction EXCEPT ![t][k] = "none"]
  /\ attempt' = [w \in Workers |->
       IF w \in Observing(t, k)
       THEN [attempt[w] EXCEPT !.stage = "finish", !.outcome = outcome]
       ELSE attempt[w]]
  /\ preview' = [preview EXCEPT ![t] = IF @ = k THEN NoKey ELSE @]

\* The file is read again and checked; a stored extraction of this version is
\* reused, otherwise the bytes are read and parsed.
ExtractRead(t, k) ==
  /\ extraction[t][k] = "reading"
  /\ \/ ~IsCurrent(k) /\ Settle(t, k, "conflict")
     \/ IsCurrent(k) /\ doc[k[1]] = k[2] /\ Settle(t, k, "ready")
     \/ /\ IsCurrent(k) /\ doc[k[1]] # k[2]
        /\ extraction' = [extraction EXCEPT ![t][k] = "parsing"]
        /\ UNCHANGED <<attempt, preview>>
  /\ UNCHANGED <<store, clock, tabs, loop, pass, orphans, downloading, spent>>

\* Any file may fail to parse (TIMEOUT at least); after parsing the file is
\* checked once more.
ExtractParse(t, k) ==
  /\ extraction[t][k] = "parsing"
  /\ \/ Settle(t, k, "failed")
     \/ ~IsCurrent(k) /\ Settle(t, k, "conflict")
     \/ /\ IsCurrent(k)
        /\ extraction' = [extraction EXCEPT ![t][k] = "publishing"]
        /\ UNCHANGED <<attempt, preview>>
  /\ UNCHANGED <<store, clock, tabs, loop, pass, orphans, downloading, spent>>

PublishUnchecked(t, k) ==   \* mutant: the last transaction trusts the check before the index was built
  /\ extraction[t][k] = "publishing"
  /\ \/ Settle(t, k, "failed") /\ UNCHANGED doc
     \/ Settle(t, k, "ready") /\ doc' = [doc EXCEPT ![k[1]] = k[2]]
  /\ UNCHANGED <<file, blob, record, clock, tabs, loop, pass, orphans, downloading, spent>>
\* The index is built in a worker (which may fail); then one transaction checks
\* the file and writes the extraction and its search rows.
ExtractPublish(t, k) ==
  /\ extraction[t][k] = "publishing"
  /\ \/ Settle(t, k, "failed") /\ UNCHANGED doc
     \/ ~IsCurrent(k) /\ Settle(t, k, "conflict") /\ UNCHANGED doc
     \/ /\ IsCurrent(k)
        /\ Settle(t, k, "ready")
        /\ doc' = [doc EXCEPT ![k[1]] = k[2]]
  /\ UNCHANGED <<file, blob, record, clock, tabs, loop, pass, orphans, downloading, spent>>

\* An infrastructure failure (a transaction aborted) rejects the extraction.
ExtractBreak(t, k) ==
  /\ extraction[t][k] # "none"
  /\ Spend("fail")
  /\ Settle(t, k, "broken")
  /\ UNCHANGED <<store, clock, tabs, loop, pass, orphans, downloading>>

\* An abandoned extraction that was being published still is, for nobody.
OrphanPublish(t, k) ==
  /\ <<t, k>> \in orphans
  /\ orphans' = orphans \ {<<t, k>>}
  /\ doc' = IF IsCurrent(k) THEN [doc EXCEPT ![k[1]] = k[2]] ELSE doc
  /\ UNCHANGED <<file, blob, record, clock, tabs, loop, pass, attempt, preview,
                 extraction, downloading, spent>>

\* A page previews a file (its signal aborts the wait when the page closes).
Preview(t, f) ==
  LET k == <<f, file[f].version>> IN
  /\ Shown(t) /\ t \in Viewers /\ preview[t] = NoKey
  /\ file[f].live /\ f \in blob
  /\ preview' = [preview EXCEPT ![t] = k]
  /\ Join(t, k)
  /\ Spend("view")
  /\ UNCHANGED <<store, clock, tabs, loop, pass, attempt, orphans, downloading>>

AbandonShared(t) ==   \* mutant: the abort does not ask whether others observe
  LET k == preview[t] IN
  /\ k # NoKey
  /\ preview' = [preview EXCEPT ![t] = NoKey]
  /\ extraction' = [extraction EXCEPT ![t][k] = "none"]
  /\ orphans' = orphans \cup {<<t, k>>}
  /\ UNCHANGED <<store, clock, tabs, loop, pass, attempt, downloading, spent>>
\* The page is closed: its observer leaves, and the last one to leave aborts
\* the extraction.
LeavePreview(t) ==
  LET k == preview[t] IN
  /\ k # NoKey
  /\ preview' = [preview EXCEPT ![t] = NoKey]
  /\ \/ Observing(t, k) # {} /\ UNCHANGED <<extraction, orphans>>
     \/ /\ Observing(t, k) = {}
        /\ extraction' = [extraction EXCEPT ![t][k] = "none"]
        /\ orphans' = IF extraction[t][k] = "publishing"
                      THEN orphans \cup {<<t, k>>} ELSE orphans
  /\ UNCHANGED <<store, clock, tabs, loop, pass, attempt, downloading, spent>>

-----------------------------------------------------------------------------
\* One attempt: FileProcessingService.process.

\* process() returns: a drain goes on with its next file and counts this one.
Return(w, counted) ==
  /\ attempt' = [attempt EXCEPT ![w] = NoAttempt]
  /\ \/ w[2] = "retry" /\ UNCHANGED <<todo, processed>>
     \/ /\ w[2] = "drain"
        /\ todo' = [todo EXCEPT ![w[1]] = @ \ {attempt[w].key}]
        /\ processed' = [processed EXCEPT ![w[1]] = @ + counted]

\* store.get
Get(w) ==
  LET k == attempt[w].key IN
  /\ attempt[w].stage = "get"
  /\ \/ /\ IsCurrent(k) /\ Claimable(k[1], w[2] = "retry")
        /\ attempt' = [attempt EXCEPT ![w].stage = "available"]
        /\ UNCHANGED <<todo, processed>>
     \/ ~(IsCurrent(k) /\ Claimable(k[1], w[2] = "retry")) /\ Return(w, 0)
  /\ UNCHANGED <<store, clock, tabs, loop, earliest, preview, extraction, orphans,
                 downloading, spent>>

\* source.available: only originals whose bytes are on the device.
Available(w) ==
  /\ attempt[w].stage = "available"
  /\ \/ /\ attempt[w].key[1] \in blob
        /\ attempt' = [attempt EXCEPT ![w].stage = "claim"]
        /\ UNCHANGED <<todo, processed>>
     \/ attempt[w].key[1] \notin blob /\ Return(w, 0)
  /\ UNCHANGED <<store, clock, tabs, loop, earliest, preview, extraction, orphans,
                 downloading, spent>>

\* store.claim, then source.extract joins or starts the extraction.
Claim(w) ==
  LET k == attempt[w].key IN
  /\ attempt[w].stage = "claim"
  /\ \/ /\ ~(IsCurrent(k) /\ Claimable(k[1], w[2] = "retry"))
        /\ Return(w, 0)
        /\ UNCHANGED <<record, leases, extraction>>
     \/ /\ IsCurrent(k) /\ Claimable(k[1], w[2] = "retry")
        /\ leases' = leases + 1
        /\ record' = [record EXCEPT ![k[1]] =
             [version |-> k[2], state |-> "RUNNING", lease |-> leases']]
        /\ attempt' = [attempt EXCEPT ![w].stage = "extract", ![w].lease = leases']
        /\ Join(w[1], k)
        /\ UNCHANGED <<todo, processed>>
  /\ UNCHANGED <<file, blob, doc, past, tabs, loop, earliest, preview, orphans,
                 downloading, spent>>

\* process() rejects: the extraction was broken, or finish() finds none at all
\* to call READY.
Unusable(w) ==
  LET k == attempt[w].key IN
  IF attempt[w].outcome = "ready"
  THEN IsCurrent(k) /\ HoldsLease(w) /\ doc[k[1]] = 0
  ELSE attempt[w].outcome = "broken"

\* store.finish records the result if the lease still holds; a result that
\* comes too late is dropped.  READY is written only beside its extraction; one
\* of another version is MALFORMED, a failure.
Finish(w) ==
  LET k == attempt[w].key IN
  /\ attempt[w].stage = "finish" /\ attempt[w].outcome \in {"ready", "failed"}
  /\ \/ ~(IsCurrent(k) /\ HoldsLease(w)) /\ Return(w, 0) /\ UNCHANGED record
     \/ /\ IsCurrent(k) /\ HoldsLease(w) /\ ~Unusable(w)
        /\ record' = [record EXCEPT ![k[1]].state =
             IF attempt[w].outcome = "ready" /\ doc[k[1]] = k[2] THEN "READY" ELSE "FAILED"]
        /\ Return(w, 1)
  /\ UNCHANGED <<file, blob, doc, clock, tabs, loop, earliest, preview, extraction,
                 orphans, downloading, spent>>

\* NOT_FOUND or VERSION_CONFLICT from the extraction: nothing is recorded.
Skip(w) ==
  /\ attempt[w].stage = "finish" /\ attempt[w].outcome = "conflict"
  /\ Return(w, 0)
  /\ UNCHANGED <<store, clock, tabs, loop, earliest, preview, extraction, orphans,
                 downloading, spent>>

\* The error leaves process(): a retry reports it, a drain ends the job with
\* it.  The lease stays, and no timer is armed.
Raise(w) ==
  /\ attempt' = [attempt EXCEPT ![w] = NoAttempt]
  /\ \/ w[2] = "retry" /\ UNCHANGED <<job, pass>>
     \/ /\ w[2] = "drain"
        /\ job' = [job EXCEPT ![w[1]] = "none"]
        /\ todo' = [todo EXCEPT ![w[1]] = {}]
        /\ processed' = [processed EXCEPT ![w[1]] = 0]
        /\ UNCHANGED earliest
  /\ UNCHANGED <<store, clock, tabs, requested, timer, preview, extraction, orphans,
                 downloading>>

\* Its error leaves process().
ExtractionBroken(w) ==
  /\ attempt[w].stage = "finish" /\ Unusable(w)
  /\ Raise(w)
  /\ UNCHANGED spent

\* A transaction of the attempt aborts.
StoreBroken(w) ==
  /\ attempt[w].stage \in {"get", "available", "claim", "finish"}
  /\ attempt[w].outcome # "broken"
  /\ Spend("fail")
  /\ Raise(w)

\* retryFileProcessing: the page offers it for a failure.
Retry(t, f) ==
  LET w == <<t, "retry">> IN
  /\ Shown(t) /\ t \in Viewers /\ attempt[w].stage = "idle"
  /\ file[f].live /\ Matching(f) = "FAILED"
  /\ Spend("retry")
  /\ attempt' = [attempt EXCEPT ![w] =
       [NoAttempt EXCEPT !.stage = "get", !.key = <<f, file[f].version>>]]
  /\ UNCHANGED <<store, clock, tabs, loop, pass, preview, extraction, orphans, downloading>>

-----------------------------------------------------------------------------
\* The worker loop: wakeFileProcessing.

\* A wake cancels the recovery timer; it starts a job, or asks the running one
\* for another pass.
Wake(t) ==
  /\ timer' = [timer EXCEPT ![t] = NoTimer]
  /\ \/ /\ job[t] = "none"
        /\ job' = [job EXCEPT ![t] = "list"]
        /\ requested' = [requested EXCEPT ![t] = FALSE]
     \/ /\ job[t] # "none"
        /\ requested' = [requested EXCEPT ![t] = TRUE]
        /\ UNCHANGED job

\* The wake of bootstrap.
Start(t) ==
  /\ t \in starting
  /\ starting' = starting \ {t}
  /\ Wake(t)
  /\ UNCHANGED <<store, clock, up, pass, work, spent>>

\* The recovery timer fires.
TimerFires(t) ==
  /\ timer[t] # NoTimer /\ timer[t] <= past
  /\ Wake(t)
  /\ UNCHANGED <<store, clock, tabs, pass, work, spent>>

\* The files a pass lists: those that are not deleted, in their version now.
Listed == {<<f, file[f].version>> : f \in {g \in Files : file[g].live}}

\* drain lists the files.
List(t) ==
  /\ job[t] = "list"
  /\ job' = [job EXCEPT ![t] = "drain"]
  /\ todo' = [todo EXCEPT ![t] = Listed]
  /\ processed' = [processed EXCEPT ![t] = 0]
  /\ UNCHANGED <<store, clock, tabs, requested, timer, earliest, work, spent>>

\* drain takes its next file.
DrainNext(t) ==
  /\ job[t] = "drain" /\ attempt[<<t, "drain">>].stage = "idle"
  /\ processed[t] < Limit
  /\ \E k \in todo[t] :
       attempt' = [attempt EXCEPT ![<<t, "drain">>] =
         [NoAttempt EXCEPT !.stage = "get", !.key = k]]
  /\ UNCHANGED <<store, clock, tabs, loop, pass, preview, extraction, orphans,
                 downloading, spent>>

DrainEndsAnyway(t) ==   \* mutant: a request made meanwhile is not looked at
  /\ job[t] = "drain" /\ attempt[<<t, "drain">>].stage = "idle"
  /\ todo[t] = {} \/ processed[t] = Limit
  /\ requested' = [requested EXCEPT ![t] = FALSE]
  /\ job' = [job EXCEPT ![t] = IF processed[t] = Limit THEN "pause" ELSE "scan"]
  /\ todo' = [todo EXCEPT ![t] = {}]
  /\ processed' = [processed EXCEPT ![t] = 0]
  /\ UNCHANGED <<store, clock, tabs, timer, earliest, work, spent>>
FullDrainEnds(t) ==   \* mutant: a full drain does not ask for another
  /\ job[t] = "drain" /\ attempt[<<t, "drain">>].stage = "idle"
  /\ todo[t] = {} \/ processed[t] = Limit
  /\ job' = [job EXCEPT ![t] = IF requested[t] THEN "list" ELSE "scan"]
  /\ requested' = [requested EXCEPT ![t] = FALSE]
  /\ todo' = [todo EXCEPT ![t] = {}]
  /\ processed' = [processed EXCEPT ![t] = 0]
  /\ UNCHANGED <<store, clock, tabs, timer, earliest, work, spent>>
\* drain ends: a full one asks for another pass after a pause; a request made
\* meanwhile starts another pass at once; otherwise the leases are scanned.
DrainEnd(t) ==
  /\ job[t] = "drain" /\ attempt[<<t, "drain">>].stage = "idle"
  /\ todo[t] = {} \/ processed[t] = Limit
  /\ \/ /\ processed[t] = Limit
        /\ job' = [job EXCEPT ![t] = "pause"]
        /\ requested' = [requested EXCEPT ![t] = TRUE]
     \/ /\ processed[t] < Limit /\ requested[t]
        /\ job' = [job EXCEPT ![t] = "list"]
        /\ requested' = [requested EXCEPT ![t] = FALSE]
     \/ /\ processed[t] < Limit /\ ~requested[t]
        /\ job' = [job EXCEPT ![t] = "scan"]
        /\ UNCHANGED requested
  /\ todo' = [todo EXCEPT ![t] = {}]
  /\ processed' = [processed EXCEPT ![t] = 0]
  /\ UNCHANGED <<store, clock, tabs, timer, earliest, work, spent>>

\* The pause of 50 ms ends.
PauseEnd(t) ==
  /\ job[t] = "pause"
  /\ job' = [job EXCEPT ![t] = "list"]
  /\ requested' = [requested EXCEPT ![t] = FALSE]
  /\ UNCHANGED <<store, clock, tabs, timer, pass, work, spent>>

\* nextRecovery lists the files.
Scan(t) ==
  /\ job[t] = "scan"
  /\ job' = [job EXCEPT ![t] = "recovery"]
  /\ todo' = [todo EXCEPT ![t] = Listed]
  /\ earliest' = [earliest EXCEPT ![t] = NoTimer]
  /\ UNCHANGED <<store, clock, tabs, requested, timer, processed, work, spent>>

\* nextRecovery looks at the record of one file.
ScanNext(t) ==
  /\ job[t] = "recovery"
  /\ \E k \in todo[t] :
       /\ todo' = [todo EXCEPT ![t] = @ \ {k}]
       /\ earliest' = [earliest EXCEPT ![t] =
            IF /\ IsCurrent(k) /\ Matching(k[1]) = "RUNNING"
               /\ @ = NoTimer \/ record[k[1]].lease < @
            THEN record[k[1]].lease ELSE @]
  /\ UNCHANGED <<store, clock, tabs, loop, processed, work, spent>>

JobEndSleeps(t) ==   \* mutant: no timer waits for the leases of others
  /\ job[t] = "recovery" /\ todo[t] = {}
  /\ job' = [job EXCEPT ![t] = "none"]
  /\ earliest' = [earliest EXCEPT ![t] = NoTimer]
  /\ UNCHANGED <<store, clock, tabs, requested, timer, todo, processed, work, spent>>
\* nextRecovery returns: a timer waits for the earliest lease, and the job is
\* over, whatever was requested since the drain ended.
JobEnd(t) ==
  /\ job[t] = "recovery" /\ todo[t] = {}
  /\ job' = [job EXCEPT ![t] = "none"]
  /\ timer' = [timer EXCEPT ![t] = earliest[t]]
  /\ earliest' = [earliest EXCEPT ![t] = NoTimer]
  /\ UNCHANGED <<store, clock, tabs, requested, todo, processed, work, spent>>

\* A transaction of a listing or of the scan aborts: the job ends with it.
JobBreaks(t) ==
  /\ job[t] \in {"list", "scan", "recovery"}
  /\ Spend("fail")
  /\ job' = [job EXCEPT ![t] = "none"]
  /\ todo' = [todo EXCEPT ![t] = {}]
  /\ earliest' = [earliest EXCEPT ![t] = NoTimer]
  /\ UNCHANGED <<store, clock, tabs, requested, timer, processed, work>>

-----------------------------------------------------------------------------
\* The workspace: edits of the tabs, changes of other devices, the clock.

\* The row of f becomes its next version.
Revise(f, live) ==
  /\ file[f].version < MaxVersion
  /\ file' = [file EXCEPT ![f] = [version |-> @.version + 1, live |-> live]]

\* uploadFile, uploadProjectFile: the bytes and the row, then a wake.
Upload(t, f) ==
  /\ Shown(t) /\ f \notin Remote /\ file[f].version = 0
  /\ Revise(f, TRUE)
  /\ blob' = blob \cup {f}
  /\ Wake(t)
  /\ UNCHANGED <<record, doc, clock, tabs, pass, work, spent>>

\* renameFile, setFilePolicy, and deleteFile(.., false): a new version and a wake.
Edit(t, f) ==
  /\ Shown(t) /\ file[f].version > 0
  /\ Revise(f, TRUE)
  /\ Wake(t)
  /\ UNCHANGED <<blob, record, doc, clock, tabs, pass, work, spent>>

\* deleteFile(.., true) wakes nobody.
Delete(t, f) ==
  /\ Shown(t) /\ file[f].live
  /\ Revise(f, FALSE)
  /\ UNCHANGED <<blob, record, doc, clock, tabs, loop, pass, work, spent>>

\* Synchronisation brings in another device's file or its new version: the row
\* only, and no wake.
Pull(f) ==
  /\ f \in Remote
  /\ \E live \in BOOLEAN : Revise(f, live)
  /\ UNCHANGED <<blob, record, doc, clock, tabs, loop, pass, work, spent>>

\* readFileBytes: first the wake; bytes that are not on the device are then
\* downloaded.
ReadBytes(t, f) ==
  /\ Shown(t) /\ file[f].live /\ f \notin downloading[t]
  /\ Spend("read")
  /\ Wake(t)
  /\ downloading' = [downloading EXCEPT ![t] = IF f \in blob THEN @ ELSE @ \cup {f}]
  /\ UNCHANGED <<store, clock, tabs, pass, attempt, preview, extraction, orphans>>

\* hydrateLocalFileBytes stores the bytes unless the file is gone by then.
Hydrate(t, f) ==
  /\ f \in downloading[t]
  /\ downloading' = [downloading EXCEPT ![t] = @ \ {f}]
  /\ blob' = IF file[f].live THEN blob \cup {f} ELSE blob
  /\ UNCHANGED <<file, record, doc, clock, tabs, loop, pass, attempt, preview,
                 extraction, orphans, spent>>

\* A lease expires; one whose worker is still at it only so often.
ClockPasses ==
  /\ past < leases
  /\ past' = past + 1
  /\ IF \E w \in Workers : attempt[w].lease = past'
     THEN Spend("slow") ELSE UNCHANGED spent
  /\ UNCHANGED <<store, leases, tabs, loop, pass, work>>

\* A tab opens, with nothing but the database.
Open(t) ==
  /\ t \notin up
  /\ up' = up \cup {t} /\ starting' = starting \cup {t}
  /\ UNCHANGED <<store, clock, loop, pass, work, spent>>

\* A tab is closed, reloaded or dies at any moment.
Crash(t) ==
  /\ t \in up
  /\ Spend("crash")
  /\ up' = up \ {t} /\ starting' = starting \ {t}
  /\ requested' = [requested EXCEPT ![t] = FALSE]
  /\ job' = [job EXCEPT ![t] = "none"]
  /\ timer' = [timer EXCEPT ![t] = NoTimer]
  /\ todo' = [todo EXCEPT ![t] = {}]
  /\ processed' = [processed EXCEPT ![t] = 0]
  /\ earliest' = [earliest EXCEPT ![t] = NoTimer]
  /\ attempt' = [w \in Workers |-> IF w[1] = t THEN NoAttempt ELSE attempt[w]]
  /\ preview' = [preview EXCEPT ![t] = NoKey]
  /\ extraction' = [extraction EXCEPT ![t] = [k \in Keys |-> "none"]]
  /\ orphans' = {o \in orphans : o[1] # t}
  /\ downloading' = [downloading EXCEPT ![t] = {}]
  /\ UNCHANGED <<store, clock>>

-----------------------------------------------------------------------------
Init ==
  /\ file = [f \in Files |-> [version |-> 0, live |-> FALSE]]
  /\ blob = {} /\ doc = [f \in Files |-> 0]
  /\ record = [f \in Files |-> NoRecord]
  /\ leases = 0 /\ past = 0
  /\ up = {} /\ starting = {}
  /\ requested = [t \in Tabs |-> FALSE] /\ job = [t \in Tabs |-> "none"]
  /\ timer = [t \in Tabs |-> NoTimer] /\ earliest = [t \in Tabs |-> NoTimer]
  /\ todo = [t \in Tabs |-> {}] /\ processed = [t \in Tabs |-> 0]
  /\ attempt = [w \in Workers |-> NoAttempt]
  /\ preview = [t \in Tabs |-> NoKey]
  /\ extraction = [t \in Tabs |-> [k \in Keys |-> "none"]]
  /\ orphans = {} /\ downloading = [t \in Tabs |-> {}]
  /\ spent = [kind \in DOMAIN Allowed |-> 0]

Attempt(w) == Get(w) \/ Available(w) \/ Claim(w) \/ Finish(w) \/ Skip(w) \/ ExtractionBroken(w)
Extract(t, k) == ExtractRead(t, k) \/ ExtractParse(t, k) \/ ExtractPublish(t, k)
Job(t) == \/ List(t) \/ DrainNext(t) \/ DrainEnd(t) \/ PauseEnd(t)
          \/ Scan(t) \/ ScanNext(t) \/ JobEnd(t)
Users(t) == \/ LeavePreview(t)
            \/ \E f \in Files : \/ Upload(t, f) \/ Edit(t, f) \/ Delete(t, f) \/ ReadBytes(t, f)
                                \/ Retry(t, f) \/ Preview(t, f)

Next ==
  \/ \E w \in Workers : Attempt(w) \/ StoreBroken(w)
  \/ \E t \in Tabs :
       \/ Open(t) \/ Crash(t) \/ Start(t) \/ TimerFires(t) \/ Job(t) \/ JobBreaks(t) \/ Users(t)
       \/ \E f \in Files : Hydrate(t, f)
       \/ \E k \in Keys : Extract(t, k) \/ ExtractBreak(t, k) \/ OrphanPublish(t, k)
  \/ \E f \in Files : Pull(f)
  \/ ClockPasses

Spec == Init /\ [][Next]_vars

\* Fairness: an open tab runs its timers and the continuations of its promises,
\* downloads end, and the clock goes on.  Users, other devices, crashes and
\* failures owe nothing, and nobody has to open a tab.
Fairness ==
  /\ \A t \in Tabs : WF_vars(Start(t)) /\ WF_vars(TimerFires(t)) /\ WF_vars(Job(t))
  /\ \A w \in Workers : WF_vars(Attempt(w))
  /\ \A t \in Tabs, k \in Keys : WF_vars(Extract(t, k)) /\ WF_vars(OrphanPublish(t, k))
  /\ \A t \in Tabs, f \in Files : WF_vars(Hydrate(t, f))
  /\ WF_vars(ClockPasses)

FairSpec == Spec /\ Fairness

-----------------------------------------------------------------------------
\* Properties.

\* The journal says the file, as it is now, is processed or cannot be.
Settled(f) == Matching(f) \in {"READY", "FAILED"}

\* A file that can be processed: here, not deleted, its bytes on the device.
OnDevice(k) == IsCurrent(k) /\ k[1] \in blob

\* What the journal calls READY can be searched: the stored extraction is of
\* the very version the row has now.  It holds when the result is recorded and
\* no late publication of another worker, window or page replaces it.
ReadyIsIndexed ==
  \A f \in Files :
    file[f].live /\ record[f].version = file[f].version /\ record[f].state = "READY"
      => doc[f] = file[f].version

\* Two workers, of one window or of two, never work on the same version of a
\* file under leases that have not expired.
OneWorker ==
  \A v, w \in Workers :
    v # w /\ attempt[v].key = attempt[w].key
      => attempt[v].lease <= past \/ attempt[w].lease <= past

\* Preview and background work share an extraction, and a page that goes away
\* takes nobody else's extraction with it: whoever waits, waits for one that
\* is still under way.
CancelsOnlyItsOwn ==
  /\ \A w \in Workers :
       attempt[w].stage = "extract" => extraction[w[1]][attempt[w].key] # "none"
  /\ \A t \in Tabs : preview[t] # NoKey => extraction[t][preview[t]] # "none"

\* A result stands until the file changes: neither a late worker nor a new
\* claim takes it back, except a retry the user asked for after a failure.
ResultStands ==
  [][\A f \in Files :
       Settled(f) /\ file'[f] = file[f] /\ record'[f] # record[f]
         => /\ record[f].state = "FAILED"
            /\ \E t \in Tabs : attempt'[<<t, "retry">>].lease = record'[f].lease]_vars

\* Once a window opens, the files on the device at that moment are settled,
\* whatever was left behind under a lease, if it stays open and the store works.
Broken == spent["fail"] > 0
RestartResumes ==
  \A t \in Tabs, k \in Keys :
    t \in starting /\ OnDevice(k)
      ~> t \notin up \/ ~IsCurrent(k) \/ Settled(k[1]) \/ Broken

\* A wake that comes while a drain runs is not lost: the files on the device
\* at that moment are settled, if the window stays open and the store works.
WakeDuringDrain ==
  \A t \in Tabs, k \in Keys :
    requested[t] /\ job[t] \in {"list", "drain", "pause"} /\ OnDevice(k)
      ~> t \notin up \/ ~IsCurrent(k) \/ Settled(k[1]) \/ Broken
=============================================================================
