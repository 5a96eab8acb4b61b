----------------------------- MODULE RemoteJob -----------------------------
(***************************************************************************)
(* process_job of worker/remote_transcoder.py, the calls it makes through  *)
(* worker/http_client.py and the endpoints of api/worker_api.py that       *)
(* answer them: a claimed job is downloaded, encoded, uploaded quality by  *)
(* quality, completed, verified, and its work directory removed. Any call  *)
(* may fail, and may have been carried out all the same. How a claim lives *)
(* is in JobLease; here it may lapse, and pass to another worker, whenever *)
(* nobody extends it.                                                      *)
(***************************************************************************)
EXTENDS Naturals, FiniteSets

CONSTANTS Qualities,        \* "original" and the applicable presets
          Original,         \* the quality that is only remuxed
          Parallel,         \* get_recommended_parallel_sessions
          CompleteRetries,  \* COMPLETE_JOB_MAX_RETRIES
          Requests,         \* max_retries + 1 of WorkerAPIClient
          MaxClaims         \* bound: how often this worker claims the job

ASSUME RemoteJobAssumption ==
  /\ Original \in Qualities /\ IsFiniteSet(Qualities)
  /\ Parallel \in Nat \ {0} /\ CompleteRetries \in Nat \ {0} /\ Requests \in Nat \ {0} /\ MaxClaims \in Nat

VARIABLES stage,       \* where process_job is
          claims,      \* how often the job was claimed by this worker
          step,        \* how far each quality is
          existing,    \* existing_qualities of the claim response
          successful,  \* successful_qualities
          failures,    \* failed_qualities
          calls,       \* calls of complete_job so far, and requests of the last one
          verified,    \* completion_verified
          work,        \* qualities with files in the work directory
          workDir,     \* whether there is a work directory
          job,         \* the row: open, completed or failed for good
          lease,       \* whose the row is
          token,       \* the completion token of the call is in Redis
          listed,      \* video_qualities
          present,     \* qualities whose files are in the video's directory
          manifests    \* the master playlist is there

runVars == <<step, existing, successful, failures, calls, verified>>
workVars == <<work, workDir>>
rowVars == <<job, lease, token, listed>>
fileVars == <<present, manifests>>
remoteVars == <<stage, claims, runVars, workVars, rowVars, fileVars>>

NoCalls == [made |-> 0, sent |-> 0]

RemoteInit ==
  /\ stage = "idle" /\ claims = 0
  /\ step = [q \in Qualities |-> "todo"] /\ existing = {} /\ successful = {} /\ failures = {}
  /\ calls = NoCalls /\ verified = FALSE
  /\ work = {} /\ workDir = FALSE
  /\ job = "open" /\ lease = "none" /\ token = FALSE
  /\ listed \in {{}, {Original}, Qualities} /\ present = listed /\ manifests = (listed # {})

GoTo(s) == stage' = s
\* Where the exceptions of process_job lead.
Abandon == stage' = "verify" /\ verified' = TRUE   \* ClaimExpiredError
Report == stage' = "report" /\ verified' = verified
ServerUnchanged == UNCHANGED <<rowVars, fileVars>>

\* A call that changes nothing on the server raises what stops the job.
CallRaises ==
  \/ lease = "lapsed" /\ Abandon
  \/ Report

-----------------------------------------------------------------------------
(* The server's rows. *)

\* claim_job; the work directory is named after the job, and may be there.
Claim ==
  /\ stage = "idle" /\ claims < MaxClaims /\ job = "open" /\ lease \in {"none", "lapsed"}
  /\ lease' = "mine" /\ claims' = claims + 1
  /\ GoTo("prepare")
  /\ existing' = listed
  /\ step' = [q \in Qualities |-> IF q \in listed THEN "ended" ELSE "todo"]
  /\ successful' = {} /\ failures' = {} /\ calls' = NoCalls /\ verified' = FALSE
  /\ workDir' = TRUE
  /\ UNCHANGED <<work, job, token, listed, fileVars>>

LeaseLapses ==
  /\ job = "open" /\ lease = "mine" /\ lease' = "lapsed"
  /\ UNCHANGED <<stage, claims, runVars, workVars, job, token, listed, fileVars>>

OtherClaims ==
  /\ job = "open" /\ lease \in {"none", "lapsed"} /\ lease' = "others"
  /\ UNCHANGED <<stage, claims, runVars, workVars, job, token, listed, fileVars>>

OtherCompletes ==
  /\ job = "open" /\ lease = "others" /\ job' = "completed"
  /\ listed' = Qualities /\ present' = Qualities /\ manifests' = TRUE
  /\ UNCHANGED <<stage, claims, runVars, workVars, lease, token>>

-----------------------------------------------------------------------------
(* process_job. *)

\* download_source: the file, or the stream breaks off, or 404.
Downloaded == lease = "mine" /\ GoTo("original") /\ UNCHANGED verified

\* Download, probe, thumbnail.
Prepare ==
  /\ stage = "prepare"
  /\ Downloaded \/ CallRaises
  /\ UNCHANGED <<claims, step, existing, successful, failures, calls, workDir, work>> /\ ServerUnchanged

\* upload_quality on the server: the archive is unpacked when the claim held as
\* the handler was entered.
Stored(q) == lease = "mine" /\ present' = present \cup {q}

\* Only the answer removes the local files.
UploadAnswered(q) == Stored(q) /\ work' = work \ {q}

\* The request was lost, or only its answer.
UploadFails(q) == (Stored(q) \/ UNCHANGED present) /\ UNCHANGED work

SkipOriginal ==
  /\ stage = "original" /\ step[Original] = "ended"
  /\ GoTo("batches")
  /\ UNCHANGED <<claims, runVars, workVars>> /\ ServerUnchanged

\* The remuxed quality is a successful one before its playlist is validated: when
\* that fails, it is a failed one as well, and is not uploaded.
RemuxOriginal ==
  /\ stage = "original" /\ step[Original] = "todo"
  /\ \/ CallRaises /\ UNCHANGED <<step, successful, failures, work>>
     \/ /\ step' = [step EXCEPT ![Original] = "ended"]
        /\ failures' = failures \cup {Original} /\ GoTo("batches")
        /\ UNCHANGED <<successful, work, verified>>
     \/ /\ successful' = successful \cup {Original} /\ work' = work \cup {Original}
        /\ \/ step' = [step EXCEPT ![Original] = "upload"] /\ UNCHANGED <<stage, failures>>
           \/ /\ step' = [step EXCEPT ![Original] = "ended"] /\ GoTo("batches")
              /\ failures' = failures \cup {Original}
        /\ UNCHANGED verified
  /\ UNCHANGED <<claims, existing, calls, workDir>> /\ ServerUnchanged

\* 409, of the upload or of a progress call in its course, ends the job; any
\* other answer leaves the quality among the successful ones. An error of the
\* worker itself, such as a full disk, ends the job as well.
UploadOriginal ==
  /\ stage = "original" /\ step[Original] = "upload"
  /\ step' = [step EXCEPT ![Original] = "ended"]
  /\ \/ (UploadAnswered(Original) \/ UploadFails(Original)) /\ GoTo("batches") /\ UNCHANGED verified
     \/ CallRaises /\ UNCHANGED <<present, work>>
  /\ UNCHANGED <<claims, existing, successful, failures, calls, workDir, rowVars, manifests>>

Todo == {q \in Qualities : step[q] = "todo"}
Batch == {q \in Qualities : step[q] \notin {"todo", "ended"}}

\* The next batch, as large as there are encoding sessions. A shutdown is noticed
\* here, and ends the job with an error.
BeginBatch ==
  /\ stage = "batches" /\ Batch = {} /\ Todo # {}
  /\ \/ /\ \E b \in SUBSET Todo : /\ Cardinality(b) \in 1 .. Parallel
                                  /\ step' = [q \in Qualities |-> IF q \in b THEN "encode" ELSE step[q]]
        /\ UNCHANGED <<stage, verified>>
     \/ Report /\ UNCHANGED step
  /\ UNCHANGED <<claims, existing, successful, failures, calls, workVars>> /\ ServerUnchanged

Encode(q) ==
  /\ stage = "batches" /\ step[q] = "encode"
  /\ \/ step' = [step EXCEPT ![q] = "upload"] /\ work' = work \cup {q} /\ UNCHANGED failures
     \/ /\ step' = [step EXCEPT ![q] = "ended"] /\ failures' = failures \cup {q}
        /\ work' \in {work, work \cup {q}}
     \/ lease = "lapsed" /\ step' = [step EXCEPT ![q] = "expired"] /\ UNCHANGED <<work, failures>>
  /\ UNCHANGED <<stage, claims, existing, successful, calls, verified, workDir>> /\ ServerUnchanged

\* With WORKER_STREAMING_UPLOAD segments go as they are written: SegmentUpload says
\* what its success is worth. "Present" is what the server looks for, init.mp4. A
\* claim that lapsed is noticed on a resume only; later it is a failed quality.
Stream(q) ==
  /\ stage = "batches" /\ step[q] = "encode"
  /\ \/ /\ Stored(q) /\ work' = work \ {q}
        /\ step' = [step EXCEPT ![q] = "ended"] /\ successful' = successful \cup {q} /\ UNCHANGED failures
     \/ /\ Stored(q) \/ UNCHANGED present
        /\ step' = [step EXCEPT ![q] = "ended"] /\ failures' = failures \cup {q} /\ UNCHANGED <<successful, work>>
     \/ lease = "lapsed" /\ step' = [step EXCEPT ![q] = "expired"] /\ UNCHANGED <<present, work, successful, failures>>
  /\ UNCHANGED <<stage, claims, existing, calls, verified, workDir, rowVars, manifests>>

\* An error that is not the server's counts as a failed quality.
Upload(q) ==
  /\ stage = "batches" /\ step[q] = "upload"
  /\ \/ /\ UploadAnswered(q) \/ UploadFails(q)
        /\ step' = [step EXCEPT ![q] = "ended"] /\ successful' = successful \cup {q} /\ UNCHANGED failures
     \/ /\ step' = [step EXCEPT ![q] = "ended"] /\ failures' = failures \cup {q}
        /\ UNCHANGED <<successful, present, work>>
     \/ /\ lease = "lapsed" /\ step' = [step EXCEPT ![q] = "expired"]
        /\ UNCHANGED <<successful, failures, present, work>>
  /\ UNCHANGED <<stage, claims, existing, calls, verified, workDir, rowVars, manifests>>

\* gather has waited for the whole batch before the exception is looked at.
BatchExpired ==
  /\ stage = "batches" /\ Batch # {} /\ \A q \in Batch : step[q] = "expired"
  /\ Abandon
  /\ UNCHANGED <<claims, step, existing, successful, failures, calls, workVars>> /\ ServerUnchanged

AllEncoded ==
  /\ stage = "batches" /\ Batch = {} /\ Todo = {}
  /\ IF successful = {} /\ failures # {} THEN Report ELSE GoTo("finalize") /\ UNCHANGED verified
  /\ UNCHANGED <<claims, step, existing, successful, failures, calls, workVars>> /\ ServerUnchanged

\* upload_finalize on the server. When every quality was there, the manifests are.
ManifestsStored == lease = "mine" /\ manifests' = (manifests \/ successful # {})

FinalizeUpload ==
  /\ stage = "finalize"
  /\ \/ ManifestsStored /\ GoTo("complete") /\ UNCHANGED verified
     \/ CallRaises /\ (ManifestsStored \/ UNCHANGED manifests)
  /\ UNCHANGED <<claims, step, existing, successful, failures, calls, workVars, rowVars, present>>

-----------------------------------------------------------------------------
(* complete_job: up to CompleteRetries calls, each with a token of its own *)
(* and up to Requests requests. The next action is one request.            *)

Sent == calls' = [calls EXCEPT !.sent = @ + 1]
Answered == GoTo("verify") /\ verified' = TRUE /\ UNCHANGED calls
\* Mutant: complete_job is called until it succeeds.
CallAgain ==
  /\ calls' = [calls EXCEPT !.sent = 0] /\ UNCHANGED <<stage, verified>>
\* The call raises: another call, after a while, or the error is reported.
CallFails ==
  IF calls.made + 1 < CompleteRetries
  THEN calls' = [made |-> calls.made + 1, sent |-> 0] /\ UNCHANGED <<stage, verified>>
  ELSE Report /\ UNCHANGED calls
RequestFails ==
  IF calls.sent + 1 < Requests THEN Sent /\ UNCHANGED <<stage, verified>> ELSE CallFails
NewToken == token' = (token /\ calls'.made = calls.made /\ stage' = stage)

RunOnly == UNCHANGED <<claims, step, existing, successful, failures, workVars>>

\* The request or its answer is lost before anything was done, or the row is not
\* this worker's (403: not retried within the call, though by the next).
CompleteLost ==
  /\ stage = "complete"
  /\ IF lease \in {"mine", "lapsed"} THEN RequestFails ELSE CallFails
  /\ NewToken
  /\ RunOnly /\ UNCHANGED <<job, lease, listed, fileVars>>

\* Completed before, or the token was seen before, whatever became of its request:
\* "already completed", before the claim is looked at.
CompleteToldSo ==
  /\ stage = "complete" /\ lease \in {"mine", "lapsed"}
  /\ job # "open" \/ token
  /\ (Answered \/ RequestFails) /\ NewToken
  /\ RunOnly /\ UNCHANGED <<job, lease, listed, fileVars>>

\* 409; the token stays, but the job is given up.
CompleteExpired ==
  /\ stage = "complete" /\ lease = "lapsed" /\ job = "open" /\ ~token
  /\ Abandon /\ UNCHANGED calls
  /\ RunOnly /\ UNCHANGED <<rowVars, fileVars>>

\* The transaction fails: the token is removed when the database was locked, and
\* stays after any other error. Without Redis there is none.
CompleteErrs ==
  /\ stage = "complete" /\ lease = "mine" /\ job = "open" /\ ~token
  /\ RequestFails
  /\ token' \in {FALSE, calls'.made = calls.made /\ stage' = stage}
  /\ RunOnly /\ UNCHANGED <<job, lease, listed, fileVars>>

CompleteDone ==
  /\ stage = "complete" /\ lease = "mine" /\ job = "open" /\ ~token
  /\ job' = "completed" /\ listed' = listed \cup successful
  /\ Answered \/ RequestFails
  /\ token' = (stage' = stage /\ calls'.made = calls.made)
  /\ RunOnly /\ UNCHANGED <<lease, fileVars>>

-----------------------------------------------------------------------------
(* The end of process_job. *)

\* fail_job with retry: handed back, or failed for good after the last attempt.
\* Nobody looks whether the call succeeded.
ReportFailure ==
  /\ stage = "report" /\ GoTo("idle")
  /\ \/ UNCHANGED rowVars
     \/ /\ lease = "mine" /\ UNCHANGED <<token, listed>>
        /\ \/ job' = "open" /\ lease' = "none"
           \/ job' = "failed" /\ UNCHANGED lease
  /\ UNCHANGED <<claims, runVars, workVars, fileVars>>

\* verify_job_complete: asked by a worker whose row it is.
AllPresent ==
  /\ lease \in {"mine", "lapsed"} /\ job = "completed"
  /\ listed \subseteq present /\ present # {} /\ manifests

\* Mutant: what the upload task believes is enough.
CleanUpUnverified ==
  /\ stage = "verify" /\ verified
  /\ GoTo("idle") /\ workDir' = FALSE /\ work' = {}
  /\ UNCHANGED <<claims, runVars, rowVars, fileVars>>

\* The answer and rmtree; any other answer, and any error, leaves the directory.
CleanUp ==
  /\ stage = "verify" /\ verified /\ AllPresent
  /\ GoTo("idle") /\ workDir' = FALSE /\ work' = {}
  /\ UNCHANGED <<claims, runVars, rowVars, fileVars>>

KeepWork ==
  /\ stage = "verify"
  /\ GoTo("idle")
  /\ UNCHANGED <<claims, runVars, workVars, rowVars, fileVars>>

WorkerDies ==
  /\ stage # "idle" /\ GoTo("idle")
  /\ UNCHANGED <<claims, runVars, workVars, rowVars, fileVars>>

-----------------------------------------------------------------------------
ProcessJob ==
  \/ Prepare \/ SkipOriginal \/ RemuxOriginal \/ UploadOriginal \/ BeginBatch
  \/ \E q \in Qualities : Encode(q) \/ Stream(q) \/ Upload(q)
  \/ BatchExpired \/ AllEncoded \/ FinalizeUpload
  \/ CompleteLost \/ CompleteToldSo \/ CompleteExpired \/ CompleteErrs \/ CompleteDone
  \/ ReportFailure \/ CleanUp \/ KeepWork
RemoteNext == Claim \/ LeaseLapses \/ OtherClaims \/ OtherCompletes \/ ProcessJob \/ WorkerDies

\* Every call ends by a timeout. A claim that nobody extends lapses: it does when
\* the worker has left process_job.
RemoteFairness == WF_remoteVars(ProcessJob) /\ WF_remoteVars(stage = "idle" /\ LeaseLapses)
RemoteSpec == RemoteInit /\ [][RemoteNext]_remoteVars
RemoteFairSpec == RemoteSpec /\ RemoteFairness

-----------------------------------------------------------------------------
RemoteTypeOK ==
  /\ stage \in {"idle", "prepare", "original", "batches", "finalize", "complete", "report", "verify"}
  /\ claims \in 0 .. MaxClaims
  /\ step \in [Qualities -> {"todo", "encode", "upload", "expired", "ended"}]
  /\ existing \subseteq Qualities /\ successful \subseteq Qualities /\ failures \subseteq Qualities
  /\ calls \in [made : 0 .. CompleteRetries - 1, sent : 0 .. Requests - 1]
  /\ verified \in BOOLEAN /\ workDir \in BOOLEAN /\ work \subseteq Qualities
  /\ job \in {"open", "completed", "failed"} /\ lease \in {"none", "mine", "lapsed", "others"}
  /\ token \in BOOLEAN /\ listed \subseteq Qualities /\ present \subseteq Qualities /\ manifests \in BOOLEAN
  /\ Cardinality(Batch) <= Parallel

\* No quality that viewers are offered is lost: its files are on the server, or
\* still in the work directory, though a quality whose upload failed is reported
\* as successful, answers are lost, and a token may be taken for a completed job.
\* The work directory of a job that this worker worked on goes only when the job
\* was completed and everything that is offered is on the server: neither an
\* answer "already completed" nor a lapsed claim is enough.
WorkIsNotThrownAway ==
  /\ \A q \in listed : q \in present \/ q \in work
  /\ claims > 0 /\ ~workDir => job = "completed" /\ listed \subseteq present

\* A job that this worker claimed does not stay with it: it is completed, failed,
\* handed back or lapses, also when the worker was wrongly told that it is done.
JobIsSettled == []<>(job # "open" \/ lease # "mine")
=============================================================================
