# VLog: specifications, model checking and proofs

VLog is a self-hosted video platform: an admin API takes uploads, transcoding
workers on other machines claim jobs from a Worker API and upload the encoded
segments, and a public API serves them. The parts share one PostgreSQL (or
SQLite) database, a directory tree and, optionally, Redis. This directory holds
TLA+ modules that model its core logic, the TLC configurations that check them,
and TLAPS proofs. Paths are relative to the repository's root.

Modelled are the **lease a worker holds on a job**, the protocol between remote
workers, the Worker API, its background tasks and the admin; the **library**,
what becomes of a video's rows and files under the admin's requests and the
local worker; a **remote worker's job**, from the segments of one quality to its
processes and commands; the **delivery of webhooks**; and the **services**
beside transcoding: sprite sheets, transcripts, settings, re-encoding, custom
fields, the public list, the job queue, chapters, playback. What is left out, and
why, stands under [Not modelled](#not-modelled).

## Inventory

| Component | Keeps | Operations | What is hard | What makes it correct |
|---|---|---|---|---|
| Worker API, jobs (`api/worker_api.py`) | rows of `transcoding_jobs`, `videos.status`, `workers` | heartbeat, claim, progress, complete, fail | every handler reads a row, awaits, then writes; requests time out at the worker and commit later | one holder at a time, claims can lapse, videos agree with jobs |
| Worker API, background (`check_stale_jobs`, `lifespan`) | position in its loop over rows | mark stale workers offline, release their expired claims, release everything at shutdown | row by row without a transaction, next to the handlers; killed half-way | nothing is left that nobody looks at |
| Worker API, files (`upload_*`, `finalize_*`, orphan cleaner) | directories of segments, `quality_progress` | upload, verify, finalize, remove orphans | check of the claim, then slow I/O, then the write | a finished quality has all its segments; none is removed under a worker |
| Worker API, re-encoding (`/api/reencode/*`) + `worker/reencode_worker.py` | `reencode_queue`, the video's directory and its backup | queue, claim, encode, swap, patch status | the swap is two moves; status updates always fail (`api/admin.py:6677`), so that videos are queued again | a video's files survive every failed swap |
| Derived states (`api/job_state.py`) | none | predicates on a row | nullable columns written by many handlers | every row has a state |
| Remote worker (`worker/remote_transcoder.py`) | the job in hand, upload state | poll, transcode, renew, complete, report failure | 409/403/timeouts at every call; heartbeats from another task | gives a lost job up, reports failures, polls on |
| API client (`worker/http_client.py`) | circuit breaker, retries | request | two tasks share the breaker; timeouts hide commits | no request while open; it closes again |
| Admin API (`api/admin.py`) | all tables, uploads | upload, delete, restore, retry, re-upload, re-transcode, purge; enable, disable and delete workers; dead letters | runs next to claims and completions | no operation takes a job from under its worker unnoticed |
| Redis job queue (`api/job_queue.py`, `api/redis_client.py`) | streams, pending entries, breaker | publish, claim, recover, acknowledge, reject | at-least-once delivery; a hint only, the database decides | no job waits for a lost message |
| Webhooks (`api/webhook_service.py`, retry and switch in `api/admin.py`) | `webhook_deliveries`, `webhooks.active`, a breaker per webhook in memory | trigger, fetch a batch, send, retry, give up, clean up | the row stays pending and due while it is sent; the admin resets it meanwhile; restarts between sending and recording; the breaker puts deliveries off without counting | bounded attempts, nothing sent again once settled, every delivery ends |
| Streaming upload (`worker/streaming_upload.py`, `worker/segment_watcher.py`) | queue of segments, state file | watch, upload, reconcile, flush | ffmpeg still writing; restarts | every segment uploaded once complete |
| Local transcoder (`worker/transcoder.py`) | checkpoints, progress rows | recover interrupted jobs, encode | restart in the middle | resumes or starts over, never skips |
| Sprites, transcription (`worker/sprite_generator.py`, `worker/transcription.py`) | queue / status column, files | poll, claim, recover, finish; the admin's requests | nothing is locked, no write looks at what it overwrites; crash in the middle | what is announced is there, work ends |
| Database retries (`api/db_retry.py`) | none | retry on lock or deadlock | a retried block must be repeatable | bounded, last error raised |
| Settings (`api/settings_service.py`) | a row, a cache per process, copies of it | get, set, delete, refresh | an edit between a refresh's read and its write; two processes | every process comes to the stored value |
| Custom fields (`api/admin.py`) | values per video and field | set, clear, delete a field | look-then-write inside transactions; opposite orders | the values are those of one request |
| Public list (`api/public.py`, `api/pagination.py`, `api/analytics_cache.py`) | a cache of pages | read by cursor | pages from different moments | each video once |
| Playback (`api/public.py`) | sessions; download slots per address | heartbeat, end; serve an original | a retried update; a forgotten slot | nothing counted twice |
| Chapter detection (`api/chapter_detection.py`) | none | markers, transcript, filter | rounding, order, limits | distances kept, nothing lost needlessly |
| Worker processes, commands, pub/sub (`worker/command_listener.py`, `api/pubsub.py`) | the process's version, its row, one pending command | start, heartbeat, version check, restart | deployments in any order, lost connections, kills | no outdated process gets a job; the fleet comes up with the deployed code |
| Audit, metrics, schemas, CLI, web interface, deployment | – | – | – | not modelled: no protocol of their own |

Components interact through the database (Worker API, admin API, local
transcoder), through HTTP (workers and Worker API), through Redis streams and
pub/sub (both APIs to workers), and through the file tree. There is no locking
across processes apart from row locks inside single transactions.

`PROJECT.json` lists every component with its status, and the hazards that a
property looks for, each at its line. The hazards without a property are listed
below, under "Hazards without a property".

## Modules

| Module | Models | Checked through |
|---|---|---|
| `Lease` | What leases promise, without rows or clocks: acquired only when free or lapsed, renewed only by the holder, finished for ever. | `JobLease` |
| `JobLease`, `JobState`, `JobLeaseStates` | The protocol as the code runs it; the predicates of `api/job_state.py`; these on the rows of `JobLease`, and sentences of the documentation the code does not keep. | `MCJobLease` |
| `WebhookDelivery` | Webhook deliveries: trigger, background task, circuit breakers, admin, restarts. | `MCWebhookDelivery` |
| `VideoLibrary` | Rows, job, source and directory of a video under the admin's requests. | `LocalTranscoder` |
| `LocalTranscoder` | `VideoLibrary` with the local worker: recovery, claims, processing, purge, shutdown, crashes. | `MCLocalTranscoder` |
| `LocalQualities` | The qualities of one video in `worker/transcoder.py`, over several attempts. | `MCLocalTranscoder` |
| `SegmentUpload` | One quality, uploaded segment by segment while it is encoded. | `MCUploads` |
| `RemoteJob` | `process_job`: one job in the hands of a remote worker. | `MCUploads` |
| `CircuitBreaker` | The retries and the breaker of the worker's HTTP client. | `MCUploads` |
| `WorkerControl` | The processes of a fleet: versions, heartbeats, commands. | `MCUploads` |
| `OrphanCleanup` | The task that removes directories of qualities nobody lists. | `MCUploads` |
| `SpriteQueue`, `Transcription`, `Settings`, `Reencode`, `CustomFields`, `VideoListing`, `Dispatch`, `ChapterDetection`, `Playback` | One service each. | `MCServices` |
| `JobLeaseProofs`, `WebhookDeliveryProofs`, `WorkerControlProofs`, `OrphanCleanupProofs`, `LibraryProofs`, `SegmentUploadProofs`, `RemoteJobProofs`, `ServicesProofs` | Theorems, for any constants. | `tlapm` |

`MCLocalTranscoder`, `MCUploads` and `MCServices` check several modules in one
run: a variable `part` picks one of them in the initial state, and the others do
not begin. These modules share no state, so that nothing is lost by it; each
property of a run is about its own part. Names that would collide (`Init`,
`Next`, `TypeOK`) carry the module's subject (`SpriteInit`). A comment
`Mutant: ...` marks a definition that no specification uses: the body of the
definition below it, with a plausible mistake, against which the properties are
tried. The type invariants of `JobLease` and `WebhookDelivery` are checked and
proved, those of `WorkerControl`, `OrphanCleanup`, `RemoteJob`, `Transcription`,
`SpriteQueue` and `Reencode` proved; where the proofs need more than a module's
`TypeOK` says, the inductive invariant has its own (`LibraryTypes`,
`SegmentTypes`, ...). `CircuitBreaker`, `Settings` and `Dispatch`, which only
promise that something happens, state theirs for the reader. The runs are kept for
the properties that a mistake in the code would break.

### JobLease

`transcoding_jobs.video_id` is unique, so one element of `Jobs` stands for a
job and its video.

| Variable | Code |
|---|---|
| `job` | the columns of `transcoding_jobs` a lease depends on; nullable timestamps become booleans, `claim_expires_at` is `"none"`, `"live"` or `"expired"` |
| `video` | `videos.status` |
| `worker` | `workers.status` (`active`, `idle` and `busy` are one value, `"up"`), whether the heartbeat is recent, `current_job_id` |
| `client` | where the main loop of each remote worker stands, and its job |
| `pending` | handlers that have read and checked the job row and not yet run their transaction |
| `checker` | the program counter and locals of `_detect_and_release_stale_jobs`, or of the shutdown hook, which runs the same loop for no worker |

A request is two actions: `SendComplete(w)` is the authentication, the read of
the row and every early return on it (403, 409, "already completed");
`CommitComplete(r)` is the transaction, in which nothing is checked again. In
between other handlers commit, the claim lapses, the worker gives up waiting
(`GiveUpWaiting`) and goes on to report a failure, or dies. The same holds for
progress and failure (`CommitFail` writes the attempt number computed by
`SendFail`). `claim_job` reads inside its transaction; that is `CommitClaim`:
reset what has lapsed, take a claimable job, point the worker at it, and, for a
re-transcode, leave the deferred clean-up (`CleanUpRetranscode`) as a pending
step, because it runs after the commit and its errors are swallowed. The
checker takes one step for each statement it awaits.

Abstractions, all of them named where they occur:

- Time is what the code compares. A deadline lapses at any moment
  (`ClaimExpires`); a handler may have read the clock before it did, hence the
  `SUBSET Lapsed` in `CommitClaim` and the `SUBSET late` in `FetchExpiredJobs`.
- A transaction is one step. The database runs READ COMMITTED; what two
  transactions do to each other statement by statement is left out.
- `verify_worker_key`'s read of the worker's row and the heartbeat's write are
  one step, as are `disable_worker`'s read and its transaction.
- Requests of the same worker with the same contents are one member of the set
  `pending`.
- The completion token in Redis appears only through the wrong answer it can
  give, `ToldCompleted`; `RemoteJob` has the token itself.
- The order of jobs in the queue, progress, quality records, files, sprites and
  metadata are left out; refusals of a claim (GPU deferral, minimum version)
  leave the state as it is.
- One API process runs. New uploads and re-transcodes exist from the start.

### WebhookDelivery

An element of `Deliveries` is an event and a webhook, and stands for the row of
`webhook_deliveries` made for them.

| Variable | Code |
|---|---|
| `event` | where `trigger_webhook_event` stands with an event, and the webhooks it read |
| `webhook` | a row of `webhooks`: active, inactive, deleted |
| `delivery` | `status`, `attempt_number`, and whether `next_retry_at` has passed |
| `batch` | the deliveries `process_pending_deliveries` fetched whose task has not begun |
| `sending` | the locals of `send_webhook_delivery`: waiting for the answer or about to record it, with the attempt number it read |
| `circuit` | `_circuit_breaker_state`: failures (up to the threshold) and whether it is open |
| `retrying` | the admin's `retry_webhook_delivery` requests between read and update |
| `sent` | history: requests of the present series of attempts, less those a restart or a failing write made the API forget |

A delivery is sent in three steps: `Look` reads row, webhook and circuit and
refuses, puts off or goes on; `Post` is the request until its answer; then
`RecordDelivered` or `RecordFailure` writes what was computed from the row as
it was read. In between the admin resets the row (`ReadForRetry`,
`WriteRetry`), deletes or disables the webhook, and other deliveries of the
batch open or close the circuit. A batch is only fetched when the last one is
over, because `asyncio.gather` waits for all of it. The circuit breakers are in
the memory of the admin API, where the task runs: `AdminEvents` are raised there
and skip webhooks whose circuit is open, other events are raised by the Worker
API, the transcoder and the transcription worker, whose circuits stay closed.
`Restart` covers kills and shutdowns: `stop_webhook_delivery_worker` cancels the
task, and with it the requests that are out. `recover_in_flight_deliveries`
changes nothing the model sees, since what it makes due has been due for an hour.

Abstractions: the rows read at the start of `send_webhook_delivery` are read in
one step with what it decides from them; times, payloads, signatures, response
bodies and statistics are left out; settings do not change; a batch holds
everything that is due (`delivery_batch_size` is 50); each event happens once,
so that the number of deliveries is finite.

### VideoLibrary, LocalTranscoder

| Variable | Code |
|---|---|
| `video`, `job` | the rows of `videos` and `transcoding_jobs`: status, `deleted_at`, published; id, owner, claim, attempt, age of the checkpoint |
| `source`, `files` | the file in `UPLOADS_DIR` or in the archive; the video's directory in `VIDEOS_DIR` and in `ARCHIVE_DIR`, absent, in part, whole, or what a request that failed half-way has left (`"torn"`) |
| `request` | what each request of the admin is at |
| `pc`, `todo`, `at` | the local worker: the phase of its loop, the rest of the list it has read, the video it is at |
| `deployment` | which operations are used, whether remote workers take jobs, whether requests may fail half-way, whether archived videos are deleted again |

A request of the admin holds no lock between its statements, so each `await` of a
handler ends a step: `MarkDeleted` writes `deleted_at`, `MoveToArchive` moves the
files. `MoveToArchiveFails` writes `deleted_at` back whatever has become of the
files: the failing move may have done nothing, have copied the directory in part or
removed it in part (`ToArchiveFails`); or the directory was moved, the source was
not, and the move back succeeds or fails in one of these ways (`NotDeleted`).
Restoration is the same in the other direction. `BeginReupload` empties the
directory and deletes the source, and may fail at that (`BeginReuploadFails`);
`WriteReupload` is the transaction, which may fail too (`ReuploadFails`): both leave
the row as it was, of a video whose files are gone. The bulk operations are as many
single requests. The local worker works through snapshots: `Start`, `CheckStaleJobs`,
`FindPendingVideos` and `FindExpiredArchives` read a list, and one action for
each entry acts on it later (`ResetForRetry`, `GiveUp`, `SourceFound`, ...).
`process_video_resumable` is `ClaimLocally`, `MarkProcessing`, `Probed`,
`Encoded`, `MarkReady`, `MarkJobCompleted` and the ways they fail, one per
statement, with `Crash` and `ShutDown` in between. What a remote worker does is
one step for the claim and one for its result here: `JobLease` has the rest.

`NothingStranded`: a video that is not deleted has no source and no directory in
the archive, except a directory torn by a move that failed, which the code forgets.
`ReadyIsWhole`: what is ready has all its files, except in a directory that a failed
request has damaged (`DamagedByFailure`) and nobody has made anew: the code shows
such a video as before. Nothing in the code repairs either, so that the properties
say how far the damage goes and that nothing but a failure does it. `UploadsAreLeftAlone`: the worker
never probes a file that is still being saved. `JobsEnd`: what the worker began,
it ends, after any crashes.

Left out of the failures: a copy of the source file that a failed move left in the
other place, a statement that fails while a move is undone, and a removal of purged
files that fails. The first leaves a file nobody looks for, the second a row that
stays deleted, the third files without a row.

Assumptions: while the worker or a request is between two statements that follow
each other at once, no claim lapses, no checkpoint ages and no upload ends
(`Hurried`). Without it a claim of ten minutes could lapse between two lines. The
runs have one request at a time: with two requests for one video TLC finds all
three properties violated, which is a hazard without a property. A deletion of what
is archived already (`again`) is left out of the runs as well: with a remote
worker that has made a new directory meanwhile, a failing move restores the row
and leaves the old files in the archive. The theorems about this module state
these restrictions as hypotheses.

### LocalQualities

The rows of `quality_progress`, the files of each quality and the encoder's
batches over several attempts of one job. An attempt skips what a row calls
completed without a look at the files (`SkipCompleted`), adopts a playlist with
an end marker (`AdoptPlaylist`), and encodes the rest in batches that alternate
between high and low resolutions (`Batch`). `RecoverAttempt` and `RetryAttempt`
are the two ways to a new attempt, with and without `cleanup_partial_output`.
`ShownIsWhole` has two exceptions that the code has: completed qualities that
are not to be kept leave their rows behind, and an ffmpeg that is told to stop
closes its playlist (`cutShort`). `CompletedIsKept` is an action property: no
step touches the files of a completed quality.

### SegmentUpload, RemoteJob, CircuitBreaker

`SegmentUpload` has the four tasks of one event loop: the encoder
(`Grow`), the watcher (`Poll`, `Put`, `PutTimesOut`), the uploader (`Take`,
`ReadAndPost`, `Store`, `Confirmed`, `Save`, ...) and the main task, which ends
the others in order (`WatcherStopped`, `FlushOne`, `Joined`, `PostPlaylist`,
`Finalize`). `Crash` and `Begin` start over in the directory that was left. The
server is `Admit`, `Store` and `Complete`. `NoSegmentIsLost` promises the
segment itself, and its being whole only for a first run with an encoder that
does not pause, because a file whose size rests for some polls is taken for
complete. `SuccessIsAccounted`: when a quality is reported, each segment is
stored or was tried as often as it may be. A 409 to the uploader while the queue
is full ends the uploader and makes the flush wait for ever: `QualityEnds`
excludes that case (`uploader.step = "raised"`).

`RemoteJob` is `process_job`: existing qualities, the remux of the source,
batches, the final manifests, completion with its retries and its token,
verification, the removal of the work directory. Each call may fail, and may
have been carried out all the same. A quality whose upload failed is reported as
successful by the code; `WorkIsNotThrownAway` says that its files are then still
in the work directory, and that this directory goes only when the job is
completed with all its files on the server.

`CircuitBreaker` lets several tasks share one client, as they do: the
half-open circuit lets all of them through, and the end of a request that was
sent before it opened is recorded as any other. `BreakerCloses` says that an API
that answers again is reached again.

### WorkerControl, OrphanCleanup

A worker's process is down, starting, idle, at a job or leaving. `Connect` is
the first heartbeat, which stores the version and does not look at the answer;
`Heartbeat` the later ones, which do; `ClaimJob` compares the version in the
row. Commands reach the processes that listen at that moment (`PublishCommand`)
and wait for the end of a job. `DeployApi` and `DeployWorkers` come in any order.
Commands to single workers reach nobody (`Subscribers`): a worker subscribes
under an identifier it made up. Each worker has a row of its own: replicas that
share a key (`k8s/worker-deployment.yaml`) share the row as well, and the check
means nothing for them.

`OrphanCleanup` reads rows, then jobs, then walks the directories, while
qualities are delivered and jobs begin and end. `OnlyOrphansAreRemoved` states
its exception: a job completed between the two reads loses those of its
qualities that are older than the minimal age. Removals that fail are left to
the next scan, and are left out.

### The services

| Module | State | Actions | Property |
|---|---|---|---|
| `SpriteQueue` | rows of `sprite_queue`, `sprite_sheet_status`, the sheets, each worker and request | claim, reset, encode, swap, complete, fail, stale recovery, crash; queue, cancel, retry and clear; the directory emptied or replaced by a re-upload, a re-encode or a clean-up (`FilesReplaced`) | `ReadyHasSheets` (unless they were replaced since, which resets no status; with two workers at once the status may also come before the sheets), `SpriteJobsEnd` |
| `Transcription` | the row, the captions file, the worker, requests | find, begin, work, complete, fail, shutdown, death; trigger, reset, edit, delete, and a second statement that fails; the directory emptied or replaced (`CaptionsReplaced`) | `CompletedHasCaptions` (unless they were lost that way since they were written), `TranscriptionEnds` (unless the worker died with a row in processing, which nothing takes up) |
| `Settings` | the stored value; per process a cache, a refresh under way and a reader's copy; the edits | refresh in two steps, a refresh that fails (`RefreshFails`: the database; `RefreshRefuses`: a stored value that cannot be coerced), expiry, set, create, delete, each as a write of the row and one of the cache | `SettingsSpread`: after the last edit everybody comes to the stored value, unless it is one that cannot be coerced |
| `Reencode` | rows, the directory, the backup of each row, workers | queue-all, claim, encode, the two moves and their failures, death | `FilesAreKept`: no file is lost (for one worker at a time), and a failed move gives the directory back (unless a worker died) |
| `CustomFields` | definitions, values, row locks, requests | look, write, commit, abort, deletion of a field; PostgreSQL's locks are external | `ValuesAreWhole` (when none clears), `FieldRequestsEnd` |
| `VideoListing` | dates of publication, cached pages, a reader | publish, unpublish, expiry, reading a page | `ListedOnce`, for videos that do not change meanwhile, with the sort by date |
| `Dispatch` | jobs, messages, worker loops, whether Redis was found | publish, deliver, recover, confirm, claim, acknowledge; lost calls, crashes | `JobsAreDispatched`, with the acknowledgement of every message that was delivered |
| `ChapterDetection` | one request and its video | markers, transcript, time-out, filter | `TranscriptDividesVideo`, `FilterKeepsMost` (against the best of all choices) |
| `Playback` | the row of a session, calls | read, write, lost answer and repetition, refusal | `WatchIsCountedOnce` |

Neither a re-upload nor the swap of a re-encode tells `sprite_sheet_status` or the
transcription that it took their files: `losses` and `dropped` remember that, until a
worker makes new ones, and the two properties say that sheets and captions go in no
other way.

In `Settings` one row stands for the table: a value that cannot be coerced to its
type (`Misfits`) gets in through a process that has not cached the type
(`service[p].typed`), because `set` validates only then, and from then on every
refresh of every process fails for all settings. Values that the coercion takes but
the validation would not are ordinary values here.

`ChapterDetection` counts in whole ticks where the code has binary fractions. In
hundredths of a second the two differ in two places, and both are constants:
`RoundedDown`, the ties between two hundredths that the code rounds down, and
`Short`, the pairs of times that are the minimum apart and whose difference comes
out as less. A video of 600.05 s in ten parts with a minimum of 60 s has such a pair:
its third and fourth chapters begin at 120.01 and 180.01, which the code finds
59.99999999999999 s apart, and it drops the fourth. `TranscriptDividesVideo`
therefore names what may be missing: what is over the limit of a video, one of such a
pair after a chapter that is kept, and a last one that the rounding, or such a pair
with the end, brings too near to it. In the run a tick is half a hundredth and a
second has eight of them, so that the ties and pairs of the few durations can be
named; the theorem holds for any of them. Whole seconds are exact in the code, which
is the one assumption made of `Short`.

### What the runs check

| Run | Specification and bounds | Shows |
|---|---|---|
| `lease_stops` | `SpecWithStops`: handlers, checker, admin, failing checks, graceful shutdown, kill. 2 workers, 1 job that begins as a re-transcode, 2 attempts, 1 handler in flight | `TypeOK`; `EveryClaimHasADeadline`; `EveryRowHasAState`; `VideoAgreesWithJob` |
| `lease_overlap` | `HandlingSpec`: handlers and checker. 2 workers, 1 job, 2 attempts, 2 handlers in flight. States that differ only in `workers.current_job_id` count as one (`ViewWithoutAdmin`): only `DisableWorker`, which this run leaves out, reads it | `ImplementsLease`: each step of the code is a step of `Lease` or none; `ProcessingIsClaimedOrReleased`: no video is left in processing without a claim |
| `lease_live` | `FairSpec`: handlers without checker and admin. 2 workers, 1 job, 2 attempts, 2 handlers in flight | `AbandonedJobIsTakenUp`: the job of a worker that died or never heard of its claim is worked on again or ends |
| `webhook_live` | `FairSpec` of `WebhookDelivery`. 2 events, one raised by the admin API, 1 webhook, 3 attempts, 2 at once, circuit opens at 2 failures | `SeriesAreBounded`: a series of attempts sends at most `max_retries` requests; `NoSendAfterTheEnd`: what is settled is not sent again; `EveryDeliveryEnds`: every delivery is delivered, given up or deleted |
| `library_live` | `MCSpec`: 1 video, 1 request at a time, 2 jobs, 2 attempts; a local deployment with deletion, restoration, purge and re-upload that may fail half-way, a local one with re-transcodes as well, and one with remote workers, retries and publication. `LocalQualities` with 3 qualities in batches of 2, 2 attempts, 1 stop or crash | `NothingStranded`, `ReadyIsWhole`, `UploadsAreLeftAlone`, `JobsEnd`; `ShownIsWhole`, `CompletedIsKept` |
| `uploads_live` | 2 segments, queue of 1, 1 retry, an encoder that pauses or 2 runs; 3 qualities, 2 claims, 2 calls of completion with 2 requests each; 2 callers, 1 retry, threshold 2; 2 workers, 1 deployment of each kind, 2 commands, 2 mishaps; 2 known qualities, 2 jobs | the properties of `SegmentUpload`, `RemoteJob`, `CircuitBreaker`, `WorkerControl`, `OrphanCleanup` |
| `services_live` | two rows, workers or requests of each service and one or two faults; see `Services_live.cfg` | the properties of the table above |
| `delivered_again` (violation) | `Spec` of `WebhookDelivery`, as above | a delivered webhook becomes pending again |
| `released_live` (violation) | `HandlingSpec`, 1 worker, 1 job, 1 attempt | the checker releases a claim that is live |
| `completed_by_other` (violation) | `HandlingSpec`, 2 workers, 1 job, 1 attempt, 2 handlers in flight | a worker completes a job that another one holds by now |
| `ready_unready` (violation) | `HandlingSpec`, 1 worker, 1 job, 2 attempts | a ready video goes back to pending: the worker whose completion timed out but was committed reports a failure with an attempt left. Its completed job can never be claimed |
| `video_stuck` (violation) | `FairSpecWithStops`, 1 worker, 1 job, 1 attempt | a video stays in processing for ever after the API stopped in the middle of a release |

Why the bounds are enough for what is asked: the hazards of a lease need two
workers (one that had the job, one that has it) and one job, because jobs only
meet in `claim_job`'s choice and in `workers.current_job_id`; two handlers in
flight are the late one and the one it meets; two attempts are one that may be
retried and one that may not. A re-transcode becomes an ordinary job when its
clean-up succeeds, so one job of that kind covers both. What these bounds leave
out is what the proofs are for: they hold for any number of workers, jobs,
attempts and handlers. Workers are symmetric in the runs without liveness.

For webhooks two deliveries to one webhook are what a circuit breaker and a
batch need: one that fails and one that is put off by it. Webhooks only meet in
the insertion of an event's rows. Three attempts with a threshold of two let the
circuit open and close in the middle of a series.

In the library, videos do not meet: the lists the worker reads are processed one
entry at a time, and with one video a list can be old just as well. Two jobs are
the one a list was read with and the one that is there by then. Three qualities
in batches of two make a batch that is full, one that is not, and one after a
shutdown. Of segments, two are one in the queue and one that finds it full; one
poll makes a size stable, since more polls only take longer; either the encoder
pauses or the job is begun twice, which together with lapsed claims is what the
run has time for. Two workers of a fleet are one with old and one with new code,
and two mishaps are enough to kill a process and cut a connection. For services,
two rows of one video, two workers and one or two faults are the collisions that
their hazards name; three videos make two pages of two. In `MCServices` some
initial choices are pinned together (an edit or a failing refresh, cancelled rows
or losses, markers or sentences), to keep the run within minutes.

Fairness (`Fairness` in `JobLease`). Workers keep polling in a loop around
`try`/`except`, and a claim keeps being answered: strong fairness, since the
database may fail a transaction now and then but not for ever. A job is worked
on for a finite time (`EndWork`): ffmpeg runs under a timeout and every request
has one. A handler that is in flight ends. A deadline passes once nobody works
on the job and no renewal is under way. And from some time on no worker dies
and no request times out: with a worker that dies on every job nothing can be
promised. The run leaves the checker out (heartbeats stay recent): it shows that
the clean-up inside `claim_job` is enough by itself, which is what matters when
a worker restarts under the same name before it is stale. `video_stuck` adds
weak fairness of the checker, an endless loop, so that its counterexample is
not the absence of the checker.

In `WebhookDelivery` the task is a loop around `try`/`except`, requests have a
timeout, and times that were set pass: weak fairness of each of its steps. From
some time on the process is not restarted, the database does not fail and the
admin asks for no more retries. Without the first two a delivery may be sent
over and over; the third starts new series.

Elsewhere the same kinds of assumption are made, each beside its specification:
loops that poll go on, a step that was begun ends, times that were set pass.
Strong fairness stands where another action of the same loop may keep coming
first: the worker's list of pending videos and its stale check, the ageing of
claims and checkpoints between hurried steps, the reading of settings, the
recovery of messages, an API that answers some request again and again. Crashes
are bounded by constants, so that they end. `JobsEnd` assumes that the worker
stays up from some time on, and that only it transcodes. `WorkerControl` assumes
an external process manager that starts a process that has ended, and never that
there are jobs: `CommandsAreObeyed` promises an end only to workers that are
given jobs again and again, because the code looks for commands after a job
alone. In the MC modules fairness is restricted to the part that runs; of the
other parts no fair action is enabled.

## Proofs

`JobLeaseProofs` proves, for every value of the constants (assuming only that
`None` is neither a worker nor a job, `Retranscodes \subseteq Jobs`, a positive
attempt limit and a natural bound on handlers in flight):

| Theorem | States |
|---|---|
| `TypeCorrect` | `SpecWithStops => []TypeOK` |
| `ClaimsHaveDeadlines` | `SpecWithStops => []EveryClaimHasADeadline` |
| `StatesAreTotal` | `SpecWithStops => []EveryRowHasAState` |
| `VideosAgreeWithJobs` | `SpecWithStops => []VideoAgreesWithJob` |
| `ProcessingHasAReason` | `Spec => []ProcessingIsClaimedOrReleased` |
| `LeaseRefinement` | `SpecWithStops => ImplementsLease` |

The argument goes through one lemma, `RowSteps`: whatever the step, each row
and its video change in one of a handful of ways (`RowStep`: the row alone, the
video's reset, claimed, completed, retried, failed). The invariants and the
refinement are then facts about a row, and no action is looked at again. Type
correctness is inductive by itself. `EveryClaimHasADeadline` is inductive with
it: a late progress request may set a deadline on a row without a claim, but
every step that claims sets both columns and every step that clears the deadline
clears the claim. `EveryRowHasAState` follows from it. `VideoAgreesWithJob` needs
`CleanUpFollowsClaim`: the clean-up of a re-transcode removes the mark that made
a ready video with an open job legitimate, and is harmless because it is only
under way when the video left that state. `ProcessingIsClaimedOrReleased` is
proved for `Spec`, where no step of the API is cut short; `video_stuck` shows
why it must be. For the refinement, a row that is completed by two handlers, or
fails after it was completed, maps to a stutter.

`WebhookDeliveryProofs` proves, for any events, webhooks and positive limits:

| Theorem | States |
|---|---|
| `TypeCorrect` | `Spec => []TypeOK` |
| `SeriesBounded` | `Spec => []SeriesAreBounded` |
| `SettledNotSent` | `Spec => NoSendAfterTheEnd` |

Again one lemma, `DeliverySteps`, says in which ways a step can change a
delivery. `SeriesInv` relates three counts of the same thing: the history
`sent`, the attempt number the sender remembers, and that of the row. It is
needed because the bound alone is not inductive: a failure writes the sender's
number plus one over whatever the admin wrote. `PlaceInv` says that what is in
a batch is not being sent and what is settled is neither; fetching keeps it
because it waits for the last batch, which is what `SettledNotSent` rests on.
It also says that a delivery has no row before its event is recorded.

`WorkerControlProofs` proves, for any fleet and any bounds:

| Theorem | States |
|---|---|
| `ControlTypeCorrect` | `ControlSpec => []ControlTypeOK` |
| `ClaimsCurrent` | `ControlSpec => ClaimsAreCurrent` |

The claim compares the row, the property speaks of the process. What joins them
is `RowsAreCurrent`: the row of a process in its main loop has the version of
that process, since `Connect` stores it before the loop begins and a process
keeps its code. A claim lets a row without a version in; by the invariant there
is none.

`OrphanCleanupProofs` proves, for any qualities and any number of jobs:

| Theorem | States |
|---|---|
| `ScanIsSound` | `OrphanSpec => []ScanInv` |
| `OrphansOnly` | `OrphanSpec => OnlyOrphansAreRemoved` |

`ScanInv` says what a scan knows at each step: between its two reads all the
rows, unless a job was completed meanwhile; during the walk all the rows of
qualities that were old when it began, because what is delivered later is young.
The bound alone is not inductive: rows are added by `CompleteJob`, and only that
what it adds was delivered during the walk keeps them away from it.

`LibraryProofs` proves, for any videos, jobs, requests, qualities, attempts and
crashes:

| Theorem | Hypotheses | States |
|---|---|---|
| `ShownQualitiesAreWhole` | none | `QualitySpec => []ShownIsWhole` |
| `CompletedQualitiesAreKept` | none | `QualitySpec => CompletedIsKept` |
| `FirstUploadsAreLeftAlone` | `OneAtATime` | `Spec => []UploadsAreLeftAlone` |
| `NothingIsStranded` | `OneAtATime`, `NeverAgain` | `Spec => []NothingStranded` |
| `ReadyVideosAreWhole` | `OneAtATime`, `NeverAgain`, `Orderly` | `Spec => []ReadyIsWhole` |

For `LocalQualities`, `QualityInv` says that a row `completed` tells the truth
(`CompletedInv`) and that a quality of the present batch is left, running or
ended, one of the three (`BatchInv`). What `Batch` chooses is left open in the
proof: each action asks for itself whether a quality is one of the video's, so the
theorems do not depend on the alternation between resolutions.

For `LocalTranscoder` each action is first reduced to its effect (`AfterOpenFile`,
..., `AfterSourceMissing`): which fields of one video's row, job, source and
directories change, and to what. The invariants are proved from the effects
alone. `RowsInv` says that a job belongs to a stored row, and that neither a request
nor the worker is at an id that is not used yet. `UploadInv` adds that a video whose
first upload is under way has no job, is not ready and is not the one the worker is
at. `ArchiveInv` says whose files may be in the archive: a deleted video's, unless
the deletion has still to move them, and one's that is being restored. `ReadyInv`
says that a ready video is `Restorable`, whole in its directory, whole in the archive
with no directory, or damaged by a failure, except in the middle of a re-upload, and
that the worker does not encode while one is under way. What a failing move may leave,
and what its undoing may, is computed once, in `FailedDeletion` and
`FailedRestoration`. The hypotheses
are about the deployment and the admin, each is needed, and the run's deployments
satisfy all of them (and have a video, `Videos # {}`, which the proofs assume as
well):

- `OneAtATime`, one request at a time. With two, TLC finds each of the three
  properties violated.
- `NeverAgain`, no deletion of what is deleted. With it, failing moves and remote
  workers, TLC finds files stranded.
- `Orderly`: re-uploads happen neither where failed videos are retried nor where
  remote workers take jobs, nor do re-transcodes where remote workers take jobs.
  For each of the three combinations TLC finds a ready video without its files.

`SegmentUploadProofs` proves, for any number of segments, retries and runs, any
queue, and any crashes:

| Theorem | States |
|---|---|
| `NoSegmentLost` | `SegmentSpec => []NoSegmentIsLost` |
| `EverySegmentAccounted` | `SegmentSpec => []SuccessIsAccounted` |

`SegmentInv` is a conjunction. `PhasesInv` says what is left of each task in each
phase of the main task; `EncoderInv` what the encoder has written; `SafeInv` that
what counts as uploaded or stands in the state file is on the server, and that what
was written is on the disk or on the server; `AccountInv` that a segment the watcher
has queued, and every segment once the watcher has ended, is stored, was tried as
often as allowed, or is still in somebody's hands (`Items`: watcher, queue, uploader
or the list of failures); `FirstRunInv` that in a first run with a steady encoder
whatever is in somebody's hands is whole. The two properties follow from the last
three, which rest on the phases: the main task goes on only when nobody holds an
item any more.

`RemoteJobProofs` proves, for any qualities, batches and bounds on failures:

| Theorem | States |
|---|---|
| `NothingIsThrownAway` | `RemoteSpec => [](RemoteTypeOK /\ WorkIsNotThrownAway)` |

The invariant adds two things to the property: `WorkInv`, that while a job goes on
the work directory is there, and a quality that counts as successful or is being
uploaded is in it or on the server; and `BeforeBatches`, that no quality but the
original is begun before the batches, so that a later stage finds none half done.

`ServicesProofs` proves, for any requests, workers, rows, videos, retries and
crashes:

| Theorem | States | By |
|---|---|---|
| `CaptionsAreThere` | `TranscriptSpec => [](TranscriptTypeOK /\ CompletedHasCaptions)` | `CaptionsInv`: a worker that is about to complete the row that is there has written its file, and it is there, or was lost since (`dropped`), or a deletion is between file and row |
| `SheetsAreThere` | `SpriteSpec => [](SpriteTypeOK /\ ReadyHasSheets)` | `SheetsInv`: while one worker at a time is at the video, it announces what it moved, and what it replaces is no longer announced (`OneByOne`); with several, what is announced was made, and is there, or was lost, or is about to be moved in by another (`MadeBefore`) |
| `FilesSurvive` | `ReencodeSpec => [](ReencodeTypeOK /\ FilesAreKept)` | `FilesInv`: what a worker has in its hands is what is in the directory or in its row's backup (`SwapInv`), so that whole files are somewhere (`WholeSomewhere`); without deaths an absent directory is about to be moved in (`DirectoryThere`) |
| `WatchCounts` | `PlaybackSpec => []WatchIsCountedOnce` | `NeverMore`: what a call will write is at most what is counted by then; `OneAtATime`: it is exactly that, as long as calls did not overlap |
| `ValuesStayWhole` | `FieldSpec => []ValuesAreWhole` | `FieldInv`: the fields that a request has been through in its order are locked by it or gone (nobody clears) |
| `VideosAreListedOnce` | `ListingSpec => []ListedOnce` | `PagesInv`: a cached page has, of the videos that did not change since, those from its cursor to the next; `ReaderInv`: the reader saw those as far as its cursor, once each |
| `ChaptersAreRight` | `ChapterSpec => []TranscriptDividesVideo` | `ChapterInv`, with lemmas on rounding (`PartsAreApart`, whichever way ties go) and on the filter (`DividedIsKept`, whichever differences come out short) |
| `FilterIsBest` | `ChapterSpec => []FilterKeepsMost` | `KeptIsMost`: the chapters one pass keeps are as many as any choice with its first chapter |

The filter is a loop over a sequence. `LoopHasValues` gives its values after each
turn and `TurnsKeep` says that a property which every turn keeps holds
after all of them; both argue by the least turn that would break it
(`LeastNumber`), and so need no induction
theorem with an operator as a parameter. `KeptOf` is that property for
the filter: the chapters kept so far are a selection of those passed, in their
order, with the distances, and every chapter passed over is too near to
the last one kept before it. The lemmas on division (`Quotient`, `ProductsInOrder`, ...) bound
what rounding to hundredths does to the parts of a transcript.

Every safety invariant and safety action property that a passing run checks is
thus a theorem for all values of the constants. Only model-checked are the
liveness properties (`AbandonedJobIsTakenUp`, `EveryDeliveryEnds`, `JobsEnd`,
`QualityEnds`, `JobIsSettled`, `BreakerCloses`, `CommandsAreObeyed`,
`OrphansAreRemoved`, `SpriteJobsEnd`, `TranscriptionEnds`, `SettingsSpread`,
`FieldRequestsEnd`, `JobsAreDispatched`), because fairness and `ENABLED` are out of
the prover's reach, and the five violations, which are counterexamples.

## What the violations say of the code

1. **A live claim is released** (`api/worker_api.py:757`). The checker's
   docstring promises that only expired claims are; it clears the row by id some
   awaits after it read the deadline.
2. **A job is completed by a worker that lost it** (`api/worker_api.py:1966`).
   Owner and deadline are verified before the transaction, not in it.
3. **A ready video goes back to pending** (`api/worker_api.py:2123`). The worker
   timed out on a completion that was committed, retries, and reports a failure;
   `fail_job` does not look at `completed_at`, and the row still names the
   worker. The job is completed, so nothing will ever transcode the video again.
4. **A video stuck in processing** (`api/worker_api.py:757`). Claim and video are
   reset in two statements; if the process stops in between, neither `claim_job`
   nor the checker looks at a job without a claim.
5. **A delivered webhook is sent again** (`api/admin.py:9702`). The admin's retry
   refuses delivered ones, on a status it read before it updates the row by id.

Each is recorded with its documentation in `PROJECT.json`, and is a known
behaviour of the model: the passing properties hold in spite of it.

## Hazards without a property

What the code is exposed to besides, and no run covers yet:

- **Claims.** `claim_job` resets videos by one statement and rows by the next
  (`worker_api.py:1469`), so that a progress request may commit in between; its
  transaction is run again when the connection broke after the commit, and the
  worker is given a second job (`:1612`); lapsed claims never raise
  `attempt_number`, so that a job that always kills its worker is handed out for
  ever, ahead of all others (`:1493`); the final failure sets `completed_at`,
  which everything else reads as success (`:2131`); the checker marks disabled
  workers offline, which lets their heartbeats through again (`:675`).
- **Workers.** Replicas that share one API key share one row
  (`worker_api.py:1401`), so that one's heartbeat vouches for the other's
  version; periodic heartbeats overwrite the metadata (`:1252`); heartbeats stop
  at a shutdown while the job goes on (`remote_transcoder.py:317`); a worker
  subscribes under an identifier that the admin does not publish to (`:1477`);
  `delete_worker` reads `current_job_id` outside its transaction
  (`admin.py:4808`).
- **Messages.** The delivery count of a recovered message is never looked at
  (`job_queue.py:239`); one transaction inserts the deliveries of an event for
  all webhooks and fails for all (`webhook_service.py:310`); events raised while
  a circuit is open are not recorded (`:275`).
- **The library.** Two requests may delete and restore one video at once
  (`admin.py:2594`), and the API may stop between the row and the files (`:2593`);
  `cleanup_expired_archives` removes what was restored since it read
  (`transcoder.py:3018`); a crash between PROCESSING and the first checkpoint
  leaves a video that no recovery finds (`:2182`); `retry_video` clears neither
  `completed_at` nor the qualities (`admin.py:3213`); two requests for the tags of
  one video leave their union (`:2063`); the event stream reads before it
  subscribes (`:5326`); a served original keeps its download slot for the life of
  the process, as a comment admits (`public.py:2487`).

## Not modelled

- **Playlists, stored chapters, tags.** Their positions and sets are changed by
  textual statements whose values are passed as a dictionary beside `sa.text`,
  and by `SELECT MAX(position) ... FOR UPDATE`, which PostgreSQL refuses: what
  they do is decided by the `databases` library and the database, outside the
  repository.
- **Re-encoding through the worker API**, `upload_hls`, `reject_job` and the
  dead-letter queue: nothing reaches them, or their statements name columns that
  the tables do not have.
- **The API's startup and registration, the GPU deferral, deletion and
  revocation of workers**: the first refuse or insert a row, the last release a
  job in the way `DisableWorker` does in `JobLease`.
- **Transactions statement by statement** (`claim_job` under READ COMMITTED),
  apart from `CustomFields`, and the statistics, logs and audit that handlers
  write besides.
- **Downloads of originals, thumbnails, alerts, the event stream, search, rate limits, sessions and
  login, partitions, metrics, schemas, hardware detection, the command line, the
  web interface, migrations**: read-only, advisory, formatting, or the machine's.

## Plan

1. `claim_job`'s transaction, statement by statement, against the one step of
   `JobLease`, and that it implements that step.
2. Worker deletion and shared rows in `WorkerControl`.
3. A theorem for what two requests for one video still keep in `VideoLibrary`.
