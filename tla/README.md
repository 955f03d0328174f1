# A verification project for BTQ

BTQ keeps the operational records of a cleaning business: captures (voice, photos,
notes) become *jobs*, jobs are drained from a queue by a processor, and the
processor writes *canonical documents* into the CouchDB database `btq_vault`.
This directory models the part of the program that brings captures in and the part that moves
and applies jobs, checks both with TLC and proves their central properties with TLAPS. Paths below are relative to
the repository root (`src/project/...`), abbreviated to the part after `project/`.

## 1. Inventory

| Component | State it keeps | Operations | Interacts with | What makes it correct |
|---|---|---|---|---|
| **Processor lock** `queue_processor/processor_lock.py` | one file `temp/processor.lock` holding a pid | `acquire`, `release`, `read_lock`, `process_is_alive` | every process that drains: daemon, command line, legacy file watcher | at most one drain at a time; a dead owner never blocks the next start |
| **Canonical document write** `btq_vault/couch_store.py`, `queue_processor/canonical_rmw.py` | documents with `_rev`, `btq_job_ids` | `update_doc`, `put_with_rev`, `apply_canonical_rmw`, `canonical_job_already_applied` | all job handlers; other programs writing the same documents | a job enters a document once, its marker tells the truth, no acknowledged edit is lost |
| **Spool processor** `queue_processor/main.py`, `processed_index.py` | `queue/`, `processed/`, `failed/`, `processed_index.jsonl` | `process_all`, `process_job`, `_archive_job_file`, `_job_has_applied_marker` | lock, handlers, canonical store, producers of files | no job is applied twice, none is lost, what is recorded as processed was applied, the spool empties |
| **Queue transport** `event_pipeline/couchdb_listener.py`, `couchdb_worker.py`, `queue_processor/couchdb_queue_watcher.py` | `btq_queue` documents (`btq_state`), the feed position, the drain mutex | `listen`, `_claim_if_pending`, `mark_processing`, `process_one`, `_materialized_job_outcome`, `sweep_stale_processing`, `run_maintenance_cycle` | producers (`btq_client`), spool, launchd | every document gets one outcome and keeps it; `complete` means applied |
| **Job handlers** `queue_processor/handlers/*` | none of their own | one per `job_type` | canonical write; spool | see §3; each applies its mutation to all its targets or can be run again |
| **Unknown captures** `handlers/unknowns.py` | `unknown_capture` documents: `status`, `retry_count` | record, count an attempt, author event jobs, resolve | spool (as its last part and as a producer), canonical write | a capture is resolved with all of its jobs, and no job is authored twice |
| **Job-draft emission** `field_capture/job_draft_emission.py` | `job_draft` documents (created) | `collect_job_drafts`, `upsert_job_draft` | capture pipeline watcher and transcription pipeline (both call it); review | one draft per proposed job; a draft that exists is left alone |
| **Review** `field_capture/job_draft_review.py`, `approval_routes.py` | `review_status`, payload, route of a draft | `apply_job_draft_review`, `edit_job_draft_payload`, `build_approval_route_job` | dashboard and inbox; drafts | one decision per draft, on what the operator saw, and final |
| **Job-draft watcher** `queue_processor/job_draft_queue_watcher.py`, `event_pipeline/couchdb_job_draft_writer.py` | `queue_materialized_at`, `queue_materialize_error` of a draft | `process_pass`, `process_one`, the three marks | `btq_client.enqueue`; review | one queue document per draft, of the payload that was approved; no approval forgotten |
| **Queue client** `event_pipeline/btq_client.py`, `queue_spec.py` | none | `enqueue` | `btq_queue` | the same job twice is one document |
| **Field app queue** (iOS) `FieldCaptureModel.swift`, `CaptureAPIClient.swift`, `BackgroundUploadSupport.swift` (under `src/apple/BTQFieldCapture`) | rows in memory and SQLite, media files, background transfers and their receipts | `drainPendingSync`, `submit`, `reconcileBackgroundUploads`, `retryCapture`, `uploadSurvivingMedia`, `deleteCapture` | `/api/submit`; iOS's background URL session | "synced" is true; evidence leaves the phone only when it is on the server; every upload ends |
| **Web page queue** `unified_capture/public/app.js`, `shared_pwa/sw.js.template`, `shared_pwa/db.js` | one IndexedDB row per capture, with its media | `drainQueue` of the page and of the service worker, `requeueFailedCaptures` | `/api/submit`; each other, through the row only | the same |
| **Capture submission** `unified_capture/server.py`, `capture_ingest.py`, `event_pipeline/couchdb_capture_writer.py` | media files, `field_capture` document | `handle_submit`, `prepare_idempotent_retry`, `write_capture_media`, `put_field_capture_document` | both queues; CouchDB; the watcher, through the document | the same submission twice is one capture; a partial one is completed; a submission that misses media is refused |
| **Field-capture watcher** `field_capture/couchdb_watcher.py`, `event_pipeline/couchdb_capture_adapter.py`, `pull_bundle.py` | `processing_state`, local copies, the intake file | the change loop, `import_couchdb_capture` | the document; the submit host over ssh; the capture pipeline, which reads the intake | `complete` means imported; the intake never shrinks |
| **Capture pipeline** `event_pipeline/*`, `event_to_queue/*`, `transcription_pipeline/*` | files in stage directories | claim, transform, emit | the queue | each input reaches the queue |
| **Pure rules** `btq_vault/facility_hours.py`, `operational_calendar.py`, `event_pipeline/visit_coverage.py`, `supply_orders.py` | none | date and budget arithmetic | handlers, UI | agreement with their definitions |
| **Projection, repair, replay, digests, servers, UI, vision** | exports, reports | read-mostly | all of the above | outside the core (see §7) |

Processes and threads: the Couch-primary daemon has a *change loop* thread (claim,
materialize, drain, settle) and a *periodic maintenance* thread (sweep, drain) that
share `_PROCESS_PASS_LOCK`; the command line and the legacy watcher may drain from
other processes and are excluded only by `temp/processor.lock`. launchd restarts the
daemon (`KeepAlive`, `field_capture/launchagents/com.btq.couchdb-queue-watcher.plist`);
a restarted daemon sweeps, drains and reads the changes feed from sequence 0.

What is hard here: several writers of one canonical document with optimistic
concurrency; crashes between two durable steps (write / archive / index); the same
job arriving again under the same or another name, requeued by an operator, or through
a sweep that overtook a slow daemon; requests that are stored although the caller saw
an error; two threads and another process draining the same directory; two clients' loops (page and
service worker, drain and reconciliation) over one row with an await between looking and writing;
a request that its client gave up and that the server still serves, beside its own retry. `PROJECT.json`
lists each of these hazards at its line with the property that covers it.

## 2. Modules

| Module | Models | Composition |
|---|---|---|
| `ProcessorLock` | `processor_lock.py`, one system call per action | its result (drains exclude each other) is the guard `LockFree` of `QueueSpool` and `draining = {}` of `QueueTransport` |
| `CanonicalLedger` | abstract: what the canonical store promises the queue | implemented by `CanonicalRMW` |
| `CanonicalRMW` | `apply_canonical_rmw` over `update_doc`, one HTTP request per action | justifies the atomic `Apply` step of `QueueSpool` |
| `CanonicalRMW_proofs` | theorems about `CanonicalRMW` | |
| `QueueSpool` | `process_all` / `process_job`, one durable effect per action | its file outcomes (processed, failed, stays) are the `Archive` and `Reject` actions of `QueueTransport` |
| `UnknownCaptures` | `process_unknowns` at the end of `process_all`: attempt, job lookup, one file per action, resolution | extends `QueueSpool`: the same passes, lock and directories, with the capture's jobs as jobs of the spool |
| `QueueTransport` | documents, change loop, maintenance thread, sweep, drains | |
| `JobDrafts` | emission, review and materialization of job drafts, one HTTP request per action | its `queue` holds the documents that `QueueTransport`'s `Enqueue` puts before the daemon |
| `CaptureBase` | what clients and server share: the media of one `capture_id`, connections, answers | extended by the three below |
| `CaptureUpload` | the field app's queue: drain, background session, reconciliation, user | |
| `CaptureWeb` | the web page's queue: page and service worker over one row | |
| `CaptureIngress` | handler threads of `/api/submit` and the field-capture watcher, one request or file per action | its watcher is the change loop of `QueueTransport` with `import_couchdb_capture` as its work |
| `CapturePath` | the composition: a client, the network, the server, the watcher | `CaptureUpload`, `CaptureWeb` and `CaptureIngress` over the connections `Conns` |
| `ProcessorLock_proofs`, `QueueSpool_proofs`, `QueueTransport_proofs`, `JobDrafts_proofs`, `CapturePath_proofs` | theorems about those modules | |
| `UnknownCaptures_proofs` | theorems about `UnknownCaptures` | extends `QueueSpool_proofs`: the spool's invariant is kept by the attempt's steps too |
| `CaptureImport_proofs` | theorems about the import in `CapturePath` | extends `CapturePath_proofs` |
| `MC*` | model values for TLC | |

### State and actions against the code

**ProcessorLock.** `file` is the inode at the lock path: `creator` (who made it) and
`written` (whether the pid is in it yet) — creation (line 111) and the pid's write
(line 127) are different system calls and different actions. `pc[p]` walks
`opening → writing → holding` or `opening → reading → probing → unlinking → opening`,
and `holding → checking → removing → idle` for `release`. `UnlinkStale` acts on the
path, so it removes whatever is there by then; `WriteLock` acts on the descriptor, so it
is lost if the inode was unlinked. `Crash` may hit between any two calls. `raced` is a
history variable: two live processes were inside `acquire()` at once.

**CanonicalRMW.** A document is a record of its `_rev` (a counter), the set of markers
`btq_job_ids`, how often each job's mutation is in the body (`content`), and how many
edits by other programs (`edits`). `Check` is `apply_canonical_rmw`'s own GET, `Fetch`
is `update_doc`'s GET with the second marker test (`_CanonicalSkip`), `Put` and
`PutConflict` are the PUT, accepted or answered 409 (one refetch, then an error). `Put`
may end in `Fail`: stored, answer lost. A handler's targets are a sequence; `Return` goes
to the next. `StopsShort` is an error, a rejected transform or a crash at any request.

**QueueSpool.** The three directories are functions from names to contents. A *name* is a
base and, for `_revision_queue_job_path`, the digest of the content. `times[j][i]` counts
how often part `i` of job `j` was applied. Each processor walks `process_job`: load,
recognise as handled before (index or archive lookup; same content in `processed/`; the
marker behind an archived name), handler guard, one `Apply` per target, evidence, move,
index append, and the `except` branch `fail`. The lookup `known[p]` is taken once per pass.

**UnknownCaptures.** One capture. `Recording` is the job that records it, applied by the spool like any other;
`capture` is the document's `status` and `retry_count`, which only grows, and whether its text names a site (`signal`),
which lifts the limit of attempts. `ScanUnknowns` is `process_unknowns` finding it due, in the
pass that holds the lock, after the pass's last file; `attempt[p]` then walks `reclassify_unknown`: `BumpAttempt`
(the count is stored first) → `LookForJobs` (any file of the capture in any of the three directories; otherwise
the extraction) → `Author` per event, whose file name is the same in every attempt → `AuthorEnds` → `Resolve`.
An error leaves the pass with the request stored or not. `cut` is history: an attempt ended after the first of
its files and before the last.

**QueueTransport.** `state[d]` is `btq_state`; `unseen` the pending changes the feed has
not delivered; `fresh` whether the `_rev` the change loop carries is the stored one;
`found[d]` the sweep's copy. The change loop's `pc` follows `listen → claim → mark →
materialize → drain → lookup → exists → settle`; any error the code lets through ends the
daemon (`Exit`). `BeginDrain(a) … EndDrain(a)` is a `process_all` pass by the change loop,
the maintenance thread or the command line.

**JobDrafts.** `docs[d]` is the draft document: revision (0 while there is none), `review_status`,
`job_type`, payload, `route`, and whether it carries `queue_materialized_at` or
`queue_materialize_error`. A payload is its base and whether an approval route rebuilt it.
`queue` is `btq_queue` by the deterministic id `<job_type>.<draft_id>`. An emitter walks
`EmissionStart` (absent) → `UpsertGet` → `UpsertPut` or `UpsertConflict`; a reviewer
`ReviewSubmit`/`EditSubmit` (what the screen shows) → `ReviewRead` (first read, validation, route
payload) → `ReviewReread` (the writer's own read) → `ReviewPut`; a watcher `PassStart` (the query's
documents, as they were) → `ProcessOne` (enqueue) → `MarkRead` → `MarkPut` per draft.
`approvals` and `clobbered` are history: every approved type and payload a draft ever carried, and
the drafts an emission rewrote.

**CaptureUpload.** One saved capture. `row` is its entry in memory, `saved` the entry in SQLite,
`evidence` the media files on the phone; `connected` says that `canSubmitCaptures` holds and the keychain has a
token. `drain` walks `drainPendingSync`: `DrainList` (its guards, and the rows of a round) → `DrainBegin` (uploading,
persisted) or `DrainSkip` → `Send` or `PrepareFails` → `TaskEnds` → `Confirm` (persisted) → `Release`, or
`Unconfirmed` → `DrainEnd`, which also begins the next round when one was asked for. A 401 is `TokenRejected`: the row
goes back to pending, `requireReconnect` deletes the token, the drain stops, and no other begins until `Reconnect`.
`TokenRefused` is `requireReconnect` for a request of another screen. The store may fail at each persist of a drain or
a reconciliation (`BeginUnsaved`, `ConfirmUnsaved`, `EndUnsaved`, `RecUnsaved`). A transfer is a member of `live`,
lives on through `Relaunch`, and leaves a *receipt* when it succeeds. `rec` is a reconciliation: `RecSnapshot` (what
the session answered) and `RecApply` are apart, because the main actor does other things between them.

**CaptureWeb.** `item` is the row's status, `agent[d]` where a loop over it stands: what its last listing showed it
(`List`, `RequeueList`), and then the blind patch (`PatchListed`, `Upload`, `Record`) or the deletion (`DeleteDone`).
The loops are the drains of the page and of the service worker, and a retry of failed captures, which does not look
at `isDraining` and so runs beside the page's own drain. `token` is the page's: without it the page does not drain
(`TokenCleared`, `PasteToken`), while the worker, which has a copy, does. `AgentDies` closes the page, with its drain
and its retry, or ends the service worker, each with the fetch it waits for.

**CaptureIngress.** `doc` is the `field_capture` document, `files` the media under `upload_dir`, `fresh`
those whose last read `_rev` is still the current one. A handler walks `Lookup` (new document, replay,
conflict, repair) → `WriteMedia` → `GetRev` → `PutDoc` (once again after a conflict) → `Reply`; the
watcher `TakeChange` → `Claim` → `MarkProcessing` → `CopyMedia` per file → `WriteIntake` → `Finish`.
`local` says whether a local copy is absent, partial or whole.

**CapturePath.** A connection is a client's transfer, a request and a handler thread. `Arrive` hands the
request over, `Deliver` the answer back; `Disconnect` and `LoseAnswer` end the client's side only, and
the handler goes on: submissions of one capture overlap.

## 3. What is checked

Passing runs:

| Run | Instance | What it shows |
|---|---|---|
| `lock` | 3 pids, 2 passes each | `UncontendedExclusion`: as long as two processes were never inside `acquire()` together, at most one holds the lock, through every crash, stale recovery and a release that overlaps an acquire. `NoKnowingTheft`: nobody removes a live process's file after reading that process's pid in it. `AcquireTerminates`: a stale or empty file never blocks a start. |
| `rmw` | 3 writers (two of the same job), 2 documents (one creatable, one required), 2 runs per writer, 1 foreign edit per document | `AppliedAtMostOnce`, `MarkerMatchesContent`, `NoLostEdit`, `DoneIsComplete`, `ConflictNeedsTwoWrites`, and the refinement `ImplementsLedger`. |
| `spool` | `UnknownCaptures` with its spool: 2 processors, 2 file names and 2 jobs of producers (one an unkeyed `add_person`, one records a capture), 2 more jobs from the capture's events, 3 files put in all, 1 crash | `AppliedAtMostOnce`, `RecordedIsApplied`, `NoJobLost`, `ArchiveKept`, `SpoolDrains`, for the producers' jobs and the capture's. `ResolvedIsServed`: a resolved capture had all of its jobs written, unless an attempt was cut in the middle. `AuthoredOnce`: however often attempts fail and repeat, no job of the capture is written a second time, wherever the first one went. `AttemptsLimited`: a text that names no site is not attempted more often than `should_retry` allows. |
| `transport` | 2 documents, 3 actors, 1 fault, 1 overrun | `CompleteIsApplied`, `OnlyFaultsStrand`, `FailedKeepsJob`, `SettledStaysSettled`, `Resolves`, `ProcessingEnds`. |
| `drafts` | 1 draft (2 job types, valid and invalid payload), 2 emitters, 2 reviewers, 2 watchers, 1 edit | `QueuedWasApproved`, `MarkedIsQueued`, `OneJobPerDraft`, `DecisionIsFinal`, `ShownIsDecided`. |
| `drafts_settle` | 2 drafts (one approved at birth), 1 emitter, 1 reviewer, 2 watchers, 1 failure | `ApprovalSettles`: stale batches, a second watcher, a crash between enqueue and mark, or an error on one draft only delay the mark. |
| `captures` | 1 capture with 2 media files, in the app or on the page; 2 connections; 1 lost request or answer and 1 failure (a 401 is one), on the page one of the two | `EvidenceKept`: a photo or memo that neither the user nor the phone itself removed is in the client or in a file the server's document lists. `DoneIsStored`: synced is true. `CompleteIsImported`: a document marked complete is in the intake and its files are whole. `IntakeKept`: whatever revision is imported later, the intake loses nothing. `Settles`: every upload ends done, failed or deleted, provided the user gives a client that lost its token another one. |

Runs that show a statement of the repository violated by the code (each is a finding in
`PROJECT.json`, with the lines quoted):

| Run | Statement | What happens |
|---|---|---|
| `lock_adr` | `MutualExclusion`: the lock refuses live concurrent processors (ADR-001, failure modes) | a second start reads the file before the pid is in it, takes it for stale and replaces it |
| `spool_parts` | `NoJobLost` for a job of two documents: a failing job's file is in `failed/` for the operator | the marker of the first document makes the failing job count as handled, and the archive collision removes its file |
| `transport_feed` | `NoChangeMissed`: reconnecting from `_last_seq` misses no change | the position moves past a change before the claim; a 5xx of the claim loses it until a restart |
| `transport_outcome` | `FailedIsNotProcessed`: the document's state reflects the real outcome | the command line's drain holds `processor.lock`, the worker's own drain is refused, and the job is archived between the two reads of the outcome check. A maintenance drain cannot do it: the worker's pass comes first, under `_PROCESS_PASS_LOCK` |
| `drafts_emit` | `ReviewStatusKept`: the exists-skip guard never rewrites a draft (test double of the emission) | two emissions find the draft absent; the slower one's upsert takes the current revision and rewrites the decided draft as pending |

### Bounds, and why they suffice

| Bound | Value | Why |
|---|---|---|
| `MaxPasses` | 2 | a process that released may contend again with a stale decision of its own behind it |
| `MaxRuns` | 2 | a first run and the re-run after an error or a crash; with two writers of the same job that is four executions of it |
| `MaxEdits` | 1 per document | with another writer this is the second write a failed retry needs; the theorems have no such bound |
| `MaxPuts` | 3 | a job, the same job again or a second one under its name, and a requeue: collisions in `processed/`, `failed/` and both. In `spool` the capture's files count too: its recording and its two jobs are three |
| events of the capture in `spool` | 2 | a first and a last, with an error or a crash between them |
| `MaxRetries`, `MaxAttempts` | 1, 3 | the code's limit is 3; the theorem has any. A text that names a site has no limit in the code: the bound cuts its attempts off at 3, a first one, one after it and one after that. What an attempt finds depends on the files, not on the count |
| `MaxCrashes` | 1 | every later crash leaves a state of the same shape; nothing remembers crashes |
| `MaxFaults` | 1 | shared by failed requests, failed file writes and crashes of the daemon; properties that hold only without faults say `faults > 0` |
| drafts of `drafts` | 1, and `MaxFaults` 0 | every safety property speaks of one draft; drafts meet only in a watcher's batch, which `drafts_settle` has. A crash only forgets a process's copies. The theorems have neither bound |
| `MaxEdits` of `drafts` | 1 | an edit between what a second operator sees and submits |
| `MaxOverruns` | 1 | one sweep of a document still being worked on |
| media and connections of `captures` | 2 and 2 | one photo that is in a partial document or survives and one that is not; a submission its client gave up and the next one. `Truncated` lets the run also begin with the partial document of an upload that an earlier version cut short |
| `MaxDrops`, `MaxFaults` of `captures` | 1 and 1 | a lost answer and a failure of any part together; a third submission overlaps no more than two do. The theorems have no such bound |
| `MaxOfPage`, `MaxOfCut` | 1, 0 | drops and failures of a capture saved on the page. Its two drains and the retry interleave without any failure; one is enough to have a retry beside its first attempt, a page closed between any two steps, or a token lost under a fetch. Beside the partial document of an upload cut short only the interleavings are explored, and the app's captures with all their failures |
| `MaxBeside` | 1 | loops over the page's row beside the page's own drain, which the bound never holds back: the service worker's or a retry. What a loop does depends on what the row was when it looked, not on who changed it since; the theorems have all three at once |
| `MarkAttempts`, `DrainAttempts` | 3 | the code's own values |

`CHECK_DEADLOCK FALSE` appears in every configuration, because the bounded systems really stop:
all passes, runs and files are used up.

### Fairness

* `ProcessorLock`: a running process's calls are executed and its drain ends
  (`WF` of `AcquireStep`, `ReleaseStep`); nothing makes a process start or crash.
* `QueueSpool`: some processor keeps running, because the daemon drains periodically and
  launchd restarts it (`WF` on a step of some processor). `UnknownCaptures` is the same with the attempt's steps.
* `QueueTransport`: weak fairness of the change loop, the restart, a drain's steps and the
  sweep. Strong fairness only of the change loop's wait for `_PROCESS_PASS_LOCK`: the other
  holder sleeps a whole interval between two drains, so the lock is free again and again.
  Requests fail at most `MaxFaults` times; the sweep's own requests are retried
  every cycle and are taken to succeed in the end.
* `JobDrafts`: weak fairness of each watcher's steps (`run` polls for ever and launchd keeps it alive);
  nobody has to emit or to review. Failures are bounded by `MaxFaults`.
* `CapturePath`: the app's drain, the page's, transfers and handlers go on (`WF` of a step of one of them); the app comes
  to the foreground again and again, which is when it reconciles (`WF` of `RecStep`), and the page is opened again and
  again. No drain begins without a token, and after a 401 there is none: the app deletes it, sets `requiresReconnect`
  and can only ask for another. That the user gives a client a token again is therefore an assumption of its own,
  `UserReconnects` (`WF` of `NewToken`); without it TLC finds the row that waits for ever. Nothing else is assumed
  of the user, so a failed capture may stay failed, and nothing of the service worker, the watcher or any failure.
* `CanonicalRMW` states no fairness: only safety is claimed of it.

`Resolves` excuses exactly two outcomes that the code does not recover from on its own: a
document left in `claimed` by a failed claim (`Stranded`; no sweep looks for it) and one
whose claim met a server error (`skipped`; behind the feed until the daemon restarts).
`SpoolDrains` excuses a file whose name is taken in `failed/`: the code leaves it in `queue/`.

## 4. What is proved

Every invariant and every action property of the passing runs is also a theorem. The theorems
hold for every value of the constants; the assumptions they use are the
`ASSUME`s of the modules: pids differ from `None`, a job has at least one target,
bounds are naturals, retry loops have at least one try, a capture's event has a file name of its own.
Every inductive invariant was first checked by TLC on the instances of §3.

**`CanonicalRMW_proofs`** — any number of writers, jobs, documents, runs and edits.
None of the safety properties is inductive alone, because a PUT replaces the whole document by
a body computed from an older copy. `SnapsAreOld` says what that copy can be: an older revision
(then the PUT conflicts), or exactly the stored document, without the writer's marker.
`EarlierTargetsMarked` carries the multi-target handlers across a restart.

* `Invariant`, `TypeCorrect`: `IInv = TypeOK /\ SnapsAreOld /\ Safe /\ EarlierTargetsMarked /\ DoneIsComplete`.
* `AppliedOnce`: `AppliedAtMostOnce`; `MarkerTrue`: `MarkerMatchesContent`; `NothingOverwritten`: `NoLostEdit`.
* `Completion`: `DoneIsComplete`.
* `Refinement`: the protocol implements `CanonicalLedger` (each PUT enters one job or stutters).
* `ConflictTolerance`: `ConflictNeedsTwoWrites`, from `RetriesSawWrites` (a retry began after a write of somebody else).

**`ProcessorLock_proofs`** — any number of processes and passes. The argument compares the one
process inside `acquire()` with the holder: it reads the holder's pid (`ProbeSeesHolder`), a
holder is alive (`OnlyAliveRun`), so it is refused and nobody is about to unlink while the lock
is held (`UnlinkMeansFree`). These parts hold until two starts overlap; what is known of dead
pids (`UnlinkerSawDead`, with pids never reused) holds always.

* `Exclusion`: `UncontendedExclusion`; `NoTheft`: `NoKnowingTheft`; `TypeCorrect`. `HolderIsNamed`, that the file then names
  the holder, has no run of its own.

**`QueueSpool_proofs`** — any number of processors, names, jobs, documents per job, files and crashes. The
code never looks at a file again after it loaded it: `HandOK` says why it may not need to. Under the lock
one processor runs (`OneRuns`), producers use free names only, so what a processor has in hand lies in `queue/`
until it moves it itself, and `add_person`'s check for a duplicate, made before its first write, still holds at
every later one. `RecordedMarked` makes the index, the archive and a pass's lookup (`known`) true: each names
jobs whose marker is in the vault. `RevisedNames` is why a rename loses nothing: a name that carries a job's digest
holds that job or none. `Accounted` adds that every job put is marked or still has a file.

* `Invariant`, `TypeCorrect`; `AppliedOnce`: `AppliedAtMostOnce`; `ArchiveStays`: `ArchiveKept`, for any jobs.
* `RecordedTrue`: `RecordedIsApplied`, and `NothingLost`: `NoJobLost`, when every job writes one document
  (`SingleDocument`). The hypothesis is needed: all the code asks for is one marker, and `spool_parts` shows
  a job of two documents lost. `SingleKept` says the same of each job that writes one document, whatever
  the other jobs beside it write.

**`UnknownCaptures_proofs`** — any number of events, retries, errors and crashes on top. Nothing remembers which of the
capture's jobs were authored but their files. `OwnFiles` says they are enough: an event's job lies under its own name, in
`queue/`, `processed/` or `failed/`, from the step that authors it, since no other job uses the name and a
move between directories keeps it. So an attempt that finds no file has authored nothing (`AttemptOK`: what it has left
to author is what was not accepted yet), and only one that was cut leaves some but not all (`Begun`). The limit of attempts
is no cap in the model, where the count is incremented without a test as in the code: it holds because the copy
`should_retry` tested is still what is stored when the attempt is counted (`AttemptOK` at `bump`), both being under the lock.

* `UnknownInvariant`, `UnknownTypes`; `Served`: `ResolvedIsServed`; `AttemptLimit`: `AttemptsLimited`; `Authoring`: `AuthoredOnce`.
* `UnknownAppliedOnce`, `UnknownRecordedTrue`, `UnknownNothingLost`, `UnknownArchiveStays`: the spool's properties
  again, for passes that also author jobs (`UnknownRecordedTrue` and `UnknownNothingLost` under `SingleDocument`).

**`QueueTransport_proofs`** — any number of documents, faults, overruns and attempts. `FreshIsStored`
and `CopiesAreProcessing` describe the two copies of a document that outlive a request (the
change loop's and the sweep's): while current, the document is in the state it was in when
the copy was taken, so no conditional write touches a settled document. `LoopWaits` ties the
drain to the change loop's position; without it even the types are not inductive.
`AppliedFirst` and `JobDeposited` follow the job through the spool; `ClaimsHeld` says that without
faults a claimed document is the one the loop is marking.

* `OutcomeIsFinal`, `CompleteSound`, `FailedSound`, `StrandingNeedsFault`, `TypeCorrect`.

**`JobDrafts_proofs`** — any number of drafts, job types, payloads, emitters, reviewers, watchers,
edits and faults. Reviewers and watchers act on copies that are several requests old. `Snapshot`
and `ReviewOK` say what such a copy can be: of an older revision, or in agreement with the
document; and, as long as no emission rewrote the draft, a watcher's copy of an approved draft
agrees with it on type, payload and route for ever (`SameDecision`). That holds because every step moves a document
only forward (`DocsProgress`: revisions grow, a decision stays unless the draft is clobbered),
which is proved first and then carries each copy across every other process's step. `QueuedOK`
ties the queue to the approvals.

* `Invariant`, `TypeCorrect`; `ApprovedOnly`: `QueuedWasApproved`; `MarkTrue`: `MarkedIsQueued`;
  `OneJob`: `OneJobPerDraft`; `DecisionFinal`: `DecisionIsFinal`; `ShownDecided`: `ShownIsDecided`.

**`CapturePath_proofs`** — any media, connections, drops, faults and partial documents. What a client
knows of the server is always an old observation: an answer on its way, a receipt the background
session stored, a status in a row. `ReportedIsStored` and `PageIsStored` say that any of them is
still true, which takes `OnDoc`: the document lists the medium *and* no handler that is about to
PUT, perhaps for a client that gave up long ago, would write a document without it. `OnDoc` is
never undone (`ServerSafe`), because a handler that looks a document up either has all of its media or
refuses, and because the watcher's copy has the document's media while its revision is current
(`Held`). `OnDoc` is true when a handler answers success because every request prepared, sent or served
carries at least what the row consists of (`Carried`): rows only shrink (a survivors' upload), and
requests only come from the row. `Kept` then compares what was released, or is about to be, with `OnDoc`;
`Backed` makes it a file. `OneClient` keeps the two clients' captures apart.

* `Invariant`, `TypeCorrect`; `Evidence`: `EvidenceKept`; `Synced`: `DoneIsStored`; `IntakeGrows`: `IntakeKept`.

**`CaptureImport_proofs`** — the same constants. The watcher imports a copy of the document while submissions replace it,
and leaves one intake file for all of them. `Revisions` are the contents of the stored document, of the
watcher's copy and of every document about to be PUT; a step hands one on or gives it up, and only a
handler's lookup makes a new one. `Lineage` compares them: each has all the media that were not lost (`Full`), or is
the partial document of an upload cut short, and then the `Root` that all the others and the intake file extend, with
its note. So an intake file the watcher keeps, because the document is no expansion of it, has what the
document lists. `RequestsFull` is what makes a new revision full: a request lacks a medium only if that was
lost, or is in the document, which then refuses the request. `CopiesWhole` excuses repaired revisions
only, since the first import checks sizes; `Progress` ties both to where the watcher stands.

* `ImportInvariant`; `Imported`: `CompleteIsImported`.

Only model-checked: all liveness (`AcquireTerminates`, `SpoolDrains`, `Resolves`,
`ProcessingEnds`, `ApprovalSettles`, `Settles`), which the prover cannot handle. The violations of §3 are
counterexamples of TLC.

## 5. Abstractions

* A pid is never reused and all processors run on one host.
* `_claim_if_pending`'s GET and PUT are one step: while a document is `pending` no other
  actor writes it (one daemon; producers only create).
* A pass takes its files in any order; the code's order is sorted by name, one of these.
* A drain in `QueueTransport` applies a job in one step; that this is right across retries
  and crashes is what `QueueSpool` shows. Its `draining = {}` guard takes the lock to work: the
  contended case, where it does not, is the subject of `lock_adr`.
* A crash inside the daemon is one action that ends both threads. The maintenance thread may
  outlive a loop that ended by up to its one-second join; it then behaves as the command line's drain.
* `run_processing_pass` returning after an unexpected exception of `process_all` is covered
  by the refused drain (the outcome is looked up all the same).
* The temporary `.name.json.tmp` of a materialization may be picked up by a concurrent
  pass; the rename then fails, which is `MaterializeFails`.
* `should_retry`'s delay of hours may be over at any time. One capture, so an attempt that ends ends the pass. Extraction
  gives all of the capture's events or none: its text does not change between attempts. An event's file
  carries the capture's own name (`EventFileAssumption`), so no producer uses it, and content is compared as a value. The marks of
  the capture's document are single steps (`update_doc` is the subject of `CanonicalRMW`), stored or not.
* `processed_index.jsonl` is never corrupt; an append either happens or is swallowed.
* `mutation.skip`, and a target with neither `allow_create` nor `require_existing`, occur in no
  handler and are left out. `append_to_note`'s skip on content already present archives the
  job with nothing to apply and is left out.
* A routed payload is valid, because `build_approval_route_job` validates what it built. `Valid` joins a
  draft's `validation_error` and the failure of `validate_job`; they differ only for drafts nobody reviews.
* Only the inbox offers routes, and it always sends the displayed `_rev`; the dashboard's form may not.
* The read after an `AlreadyDecided` of the draft watcher belongs to the step that met it. The query's
  limit of 100 documents and the one-time migration of action candidates are left out.
* `--once`, `--dry-run` and `--materialize-only` are operator modes and are left out.
* One `capture_id`: captures share no row, document or file. A capture without media (a note only) is the
  case of empty media after `UploadSurviving`.
* Time is left out of the queues: back-off, the page's 24 hours, two minutes and five minutes, and the
  sweep may each be due at any moment. A listing that finds nothing leaves no trace and is no step.
* The app's store runs saves in the order they are asked (`SQLiteFieldCaptureStore` is an actor), so a persist is one
  step. Reconciliations are taken one at a time, and what the session answers one is one step. A failed persist of a
  reconciliation and the rollback it causes are one step too; that the rollback also undoes changes that others made
  to the rows while the save was running is left out. `requireReconnect` and `connect` may fail to save and go on; their
  saves are taken to succeed.
* One account. `connected` joins what `canSubmitCaptures` tests (`requiresReconnect`, the session) with the token in the
  keychain; `requireReconnect` clears both and `connect` sets both, and across a relaunch the missing token is what
  remains. While a client has no token, a request sent with the old one may be answered 401 or still be served.
* One retry of failed captures at a time on the page. The service worker's copy of the token is never lost.
* A failed completion stored by the background session is only ever discarded, so only successful ones are kept.
* Connections are anonymous; a request takes any free one. Handler threads that nobody waits for end in `Unheard`.
* The names of media files, the note and the site are one value of the capture; `noted` is the loss note
  that a survivors' upload adds, the one thing about the note that two submissions can differ in.
* Local copies and the intake file are never deleted while the capture is on its way.

## 6. Plan

Order, most important first. Stages 1 to 7 are on disk.

1. `ProcessorLock`: who may drain.
2. `CanonicalLedger`, `CanonicalRMW`, `CanonicalRMW_proofs`: one job into one document.
3. `QueueSpool`: one job through the spool.
4. `QueueTransport`: one document through the daemon.
5. `JobDrafts`: what reaches the queue was approved.
6. `CaptureBase`, `CaptureUpload`, `CaptureWeb`, `CaptureIngress`, `CapturePath`: a capture from the client to
   the intake file.
7. `UnknownCaptures`: retry counter, fan-out of jobs, resolution, crash between them, inside the spool's pass.
8. Handlers whose write is not the common skeleton (content replacement, upserts of visits and people). They
   read and write apart from each other, but always inside a drain: what keeps two of them from interleaving
   is the lock, `UncontendedExclusion`. A torn line of the processed index as a fault of `QueueSpool`.
9. Voice memos: the same page's queue before another intake (section 7).
10. The transcription claim by rename; the pure rules (facility hours, operational calendar) as operators
    against a reference definition over bounded weeks.

Proofs planned after these: a reduction for `QueueTransport`'s one-step drain (the steps of `QueueSpool` by which a job
leaves `queue/` map to `Archive` and `Reject`), which today rests on §5's argument.

## 7. Not modelled, and why

* Legacy action candidates and their migration: the predecessor of job drafts.
* Vault projection, backup and exports: one-way output that nothing reads back.
* Extraction, enrichment, vision and transcription: model inference and pure text; their effect is a
  job put in the queue.
* Repair, replay, reconciliation, governance: reports over files the processor left, with
  operator-approved repairs.
* Servers, dashboards, digests: request handling and presentation; their writes go through
  `enqueue` or `update_doc`, which are modelled (`Enqueue`, `ForeignEdit`).
* Validation of job payloads (`queue_spec.py`): a file is loaded or rejected (`Loads`).
* Evidence and manifest contents: only that writing evidence can fail.
* Voice memos. The product has the web page's queue, but its intake removes the audio file when the PUT of its
  document is answered with an error (`voice_memo/core.py:310-312`). If that PUT was applied, the
  retry is answered as a replay and the client sweeps its copy: the comment "Idempotent uploads (capture_id
  dedup) make a requeue-vs-foreground race harmless" (`shared_pwa/sw.js.template:31`) holds for captures, as
  `captures` shows, and not there.
* Screens, drafts before saving, the inbox and the settings of both clients.
* The `reclassify_unknown` job, whose handler runs the loop of `process_unknowns` in the middle of a pass, and the
  one-time backfill of older captures.

### What `UnknownCaptures` excuses

`job_already_exists_for_unknown` (`handlers/unknowns.py:239`) takes any one file of a capture for all of them. An attempt that
a crash or an error ends after the first file and before the last is therefore taken for a finished one
by the next attempt, which resolves the capture (line 323): the other events get no job. No document or test promises
otherwise, so this is no finding; `ResolvedIsServed` states it with the exception `cut`, and shows that it is the only
way to lose an event. `SpoolDrains` speaks of files; that a capture is resolved in the end is not claimed, since the
code gives up after three attempts at a text that names no site.

### What the capture models excuse

Reading the code for `CapturePath` showed behaviours that no property claims away, and that the run contains:

* A reconciliation whose answer was taken before the drain's task existed puts the uploading row back to pending
  (`FieldCaptureModel.swift:1594-1600`) and persists it. A relaunch then starts a second transfer beside the live
  first one, which the comment at lines 1104-1107 means to exclude, and the user may delete the capture while
  it is being uploaded. `EvidenceKept` and `DoneIsStored` hold all the same, because the server takes the two
  for one capture.
* A submission fetches the revision for its PUT after its lookup (`couchdb_capture_writer.py:108`). A survivors'
  upload that is overtaken by the full one it replaces writes the document back to the survivors: the files
  stay, the document forgets them. Only media the phone had lost is concerned, which is why
  `CompleteIsImported` speaks of the media that was not lost.
* An import that finds an intake file takes any local file for whole (`couchdb_capture_adapter.py:305`), also the
  partial one an earlier interrupted expansion left; hence `doc.repaired` in `CompleteIsImported`.
* A document left in claimed or processing by a watcher that stopped is not found again, and a claim answered
  with a server error loses the change until the restart; hence no liveness is claimed of the watcher.
