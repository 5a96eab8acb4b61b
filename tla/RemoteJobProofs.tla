-------------------------- MODULE RemoteJobProofs --------------------------
(* That a remote worker's files are not thrown away: for any set of qualities, *)
(* any number of encoding sessions, retries and claims.                        *)
EXTENDS RemoteJob, FiniteSetTheorems, TLAPS

\* Before the batches, no quality but the original is begun.
BeforeBatches ==
  stage \in {"prepare", "original"} =>
    \A q \in Qualities \ {Original} : step[q] \in {"todo", "ended"}

TypesInv == RemoteTypeOK /\ BeforeBatches

\* While the worker is in process_job it has its work directory, and what it believes to
\* have uploaded, or is about to upload, is there as long as it is not on the server.
WorkInv ==
  stage # "idle" =>
    /\ workDir /\ claims > 0
    /\ \A q \in successful : q \in present \/ q \in work
    /\ \A q \in Qualities : step[q] = "upload" => q \in work

KeptInv == TypesInv /\ WorkInv /\ WorkIsNotThrownAway

\* A step that begins no quality keeps to the number of encoding sessions.
LEMMA NoneBegun ==
  ASSUME RemoteTypeOK, Batch' \subseteq Batch
  PROVE  Cardinality(Batch)' <= Parallel
<1>1. IsFiniteSet(Batch)
  BY RemoteJobAssumption, FS_Subset DEF Batch
<1>2. IsFiniteSet(Batch') /\ Cardinality(Batch') <= Cardinality(Batch)
  BY <1>1, FS_Subset
<1>3. Cardinality(Batch) \in Nat /\ Cardinality(Batch') \in Nat
  BY <1>1, <1>2, FS_CardinalityType
<1> QED BY <1>2, <1>3, RemoteJobAssumption DEF RemoteTypeOK

\* A worker that has claimed nothing yet has nothing to lose.
LEMMA KeptInit == RemoteInit => KeptInv
<1> SUFFICES ASSUME RemoteInit PROVE KeptInv
  OBVIOUS
<1> USE RemoteJobAssumption DEF RemoteInit
<1>1. Batch = {}
  BY DEF Batch
<1>2. Cardinality(Batch) <= Parallel
  BY <1>1, FS_EmptySet
<1>3. calls \in [made : 0 .. CompleteRetries - 1, sent : 0 .. Requests - 1]
  BY DEF NoCalls
<1>4. listed \subseteq Qualities
  OBVIOUS
<1>5. RemoteTypeOK
  <2>1. step \in [Qualities -> {"todo", "encode", "upload", "expired", "ended"}]
    OBVIOUS
  <2>2. /\ stage = "idle" /\ claims \in 0 .. MaxClaims /\ verified = FALSE /\ workDir = FALSE
        /\ job = "open" /\ lease = "none" /\ token = FALSE /\ manifests \in BOOLEAN
    OBVIOUS
  <2>3. existing = {} /\ successful = {} /\ failures = {} /\ work = {} /\ present \subseteq Qualities
    BY <1>4
  <2> QED BY <1>2, <1>3, <1>4, <2>1, <2>2, <2>3 DEF RemoteTypeOK
<1>6. BeforeBatches /\ WorkInv /\ WorkIsNotThrownAway
  BY <1>4 DEF BeforeBatches, WorkInv, WorkIsNotThrownAway
<1> QED BY <1>5, <1>6 DEF KeptInv, TypesInv

\* The server's rows change hands, and whoever takes the job over completes it with files.
LEMMA KeptByRows ==
  ASSUME KeptInv, Claim \/ LeaseLapses \/ OtherClaims \/ OtherCompletes PROVE KeptInv'
<1> USE RemoteJobAssumption
    DEF KeptInv, TypesInv, BeforeBatches, WorkInv, WorkIsNotThrownAway, RemoteTypeOK, GoTo, runVars, workVars, fileVars
<1>1. CASE Claim
  <2>1. Batch' = {}
    BY <1>1 DEF Claim, Batch
  <2>2. Cardinality(Batch') <= Parallel
    BY <2>1, FS_EmptySet
  <2>3. calls' \in [made : 0 .. CompleteRetries - 1, sent : 0 .. Requests - 1]
    BY <1>1 DEF Claim, NoCalls
  <2>4. RemoteTypeOK'
    <3>1. step' \in [Qualities -> {"todo", "encode", "upload", "expired", "ended"}]
      BY <1>1 DEF Claim
    <3>2. claims' \in 0 .. MaxClaims
      BY <1>1 DEF Claim
    <3>3. /\ stage' = "prepare" /\ existing' = listed /\ successful' = {} /\ failures' = {}
          /\ verified' = FALSE /\ workDir' = TRUE /\ lease' = "mine"
          /\ UNCHANGED <<work, job, token, listed, present, manifests>>
      BY <1>1 DEF Claim
    <3> QED BY <2>2, <2>3, <3>1, <3>2, <3>3
  <2>5. WorkInv' /\ BeforeBatches'
    BY <1>1 DEF Claim
  <2>6. WorkIsNotThrownAway'
    BY <1>1 DEF Claim
  <2> QED BY <2>4, <2>5, <2>6
<1>2. CASE LeaseLapses \/ OtherClaims \/ OtherCompletes
  <2>1. Batch' = Batch
    BY <1>2 DEF LeaseLapses, OtherClaims, OtherCompletes, Batch
  <2> QED BY ZenonT(60), <1>2, <2>1 DEF LeaseLapses, OtherClaims, OtherCompletes
<1> QED BY <1>1, <1>2

\* Preparation, and the original quality.
LEMMA KeptByOriginal ==
  ASSUME KeptInv, Prepare \/ SkipOriginal \/ RemuxOriginal \/ UploadOriginal PROVE KeptInv'
<1> USE RemoteJobAssumption
    DEF KeptInv, TypesInv, BeforeBatches, WorkInv, WorkIsNotThrownAway, RemoteTypeOK, GoTo, runVars, workVars,
        fileVars, rowVars, ServerUnchanged, CallRaises, Abandon, Report
<1>1. CASE Prepare
  <2>1. Batch' = Batch
    BY <1>1 DEF Prepare, Batch
  <2> QED BY <1>1, <2>1 DEF Prepare, Downloaded
<1>2. CASE SkipOriginal
  <2>1. Batch' = Batch
    BY <1>2 DEF SkipOriginal, Batch
  <2> QED BY <1>2, <2>1 DEF SkipOriginal
<1>3. CASE RemuxOriginal
  <2>1. Batch' \subseteq {Original}
    BY <1>3 DEF RemuxOriginal, Batch
  <2>2. Cardinality(Batch') <= Parallel
    <3>1. IsFiniteSet({Original}) /\ Cardinality({Original}) = 1
      BY FS_Singleton
    <3>2. IsFiniteSet(Batch') /\ Cardinality(Batch') <= 1
      BY <2>1, <3>1, FS_Subset
    <3> QED BY <3>2, FS_CardinalityType
  <2> QED BY ZenonT(60), <1>3, <2>2 DEF RemuxOriginal
<1>4. CASE UploadOriginal
  <2>1. Batch' \subseteq Batch
    BY <1>4 DEF UploadOriginal, Batch
  <2>2. Cardinality(Batch)' <= Parallel
    BY <2>1, NoneBegun
  <2> QED BY <1>4, <2>2 DEF UploadOriginal, UploadAnswered, UploadFails, Stored
<1> QED BY <1>1, <1>2, <1>3, <1>4

\* The batches: what is uploaded goes from one place to the other.
LEMMA KeptByBatches ==
  ASSUME KeptInv,
         \/ BeginBatch \/ BatchExpired \/ AllEncoded
         \/ \E q \in Qualities : Encode(q) \/ Stream(q) \/ Upload(q)
  PROVE  KeptInv'
<1> USE RemoteJobAssumption
    DEF KeptInv, TypesInv, BeforeBatches, WorkInv, WorkIsNotThrownAway, RemoteTypeOK, GoTo, workVars,
        fileVars, rowVars, ServerUnchanged, Abandon, Report
<1>1. CASE BeginBatch
  <2>1. CASE UNCHANGED step
    <3>1. Batch' = Batch
      BY <2>1 DEF Batch
    <3> QED BY <1>1, <2>1, <3>1 DEF BeginBatch
  <2>2. CASE ~UNCHANGED step
    <3>1. PICK b \in SUBSET Todo : /\ Cardinality(b) \in 1 .. Parallel
                                  /\ step' = [q \in Qualities |-> IF q \in b THEN "encode" ELSE step[q]]
      BY <1>1, <2>2 DEF BeginBatch
    <3>2. Batch' = b
      BY <1>1, <3>1 DEF BeginBatch, Batch, Todo
    <3>3. Cardinality(Batch') <= Parallel
      BY <3>1, <3>2
    <3> QED BY <1>1, <3>1, <3>3 DEF BeginBatch, Todo
  <2> QED BY <2>1, <2>2
<1>2. CASE BatchExpired \/ AllEncoded
  <2>1. Batch' = Batch
    BY <1>2 DEF BatchExpired, AllEncoded, Batch
  <2> QED BY <1>2, <2>1 DEF BatchExpired, AllEncoded
<1>3. ASSUME NEW q \in Qualities, Encode(q) PROVE KeptInv'
  <2>1. Batch' \subseteq Batch
    BY <1>3 DEF Encode, Batch
  <2>2. Cardinality(Batch)' <= Parallel
    BY <2>1, NoneBegun
  <2> QED BY <1>3, <2>2 DEF Encode
<1>4. ASSUME NEW q \in Qualities, Stream(q) PROVE KeptInv'
  <2>1. Batch' \subseteq Batch
    BY <1>4 DEF Stream, Batch
  <2>2. Cardinality(Batch)' <= Parallel
    BY <2>1, NoneBegun
  <2> QED BY <1>4, <2>2 DEF Stream, Stored
<1>5. ASSUME NEW q \in Qualities, Upload(q) PROVE KeptInv'
  <2>1. Batch' \subseteq Batch
    BY <1>5 DEF Upload, Batch
  <2>2. Cardinality(Batch)' <= Parallel
    BY <2>1, NoneBegun
  <2> QED BY <1>5, <2>2 DEF Upload, UploadAnswered, UploadFails, Stored
<1> QED BY <1>1, <1>2, <1>3, <1>4, <1>5

\* A request that fails leaves the calls within their number.
LEMMA CallsStay ==
  ASSUME RemoteTypeOK, stage = "complete", RequestFails \/ CallFails \/ Answered
  PROVE  /\ calls' \in [made : 0 .. CompleteRetries - 1, sent : 0 .. Requests - 1]
         /\ stage' \in {"complete", "report", "verify"} /\ verified' \in BOOLEAN
<1> USE RemoteJobAssumption DEF RemoteTypeOK, GoTo, Report
<1>1. CASE RequestFails
  BY <1>1 DEF RequestFails, Sent, CallFails
<1>2. CASE CallFails
  BY <1>2 DEF CallFails
<1>3. CASE Answered
  BY <1>3 DEF Answered
<1> QED BY <1>1, <1>2, <1>3

\* complete_job: what becomes of its requests decides where process_job goes on, and what
\* is offered from then on is what was successful.
LEMMA KeptByCompletion ==
  ASSUME KeptInv, FinalizeUpload \/ CompleteLost \/ CompleteToldSo \/ CompleteExpired \/ CompleteErrs \/ CompleteDone
  PROVE  KeptInv'
<1>0. ASSUME stage = "complete", RequestFails \/ CallFails \/ Answered
      PROVE  /\ calls' \in [made : 0 .. CompleteRetries - 1, sent : 0 .. Requests - 1]
             /\ stage' \in {"complete", "report", "verify"} /\ verified' \in BOOLEAN
  BY <1>0, CallsStay DEF KeptInv, TypesInv
<1> USE RemoteJobAssumption
    DEF KeptInv, TypesInv, BeforeBatches, WorkInv, WorkIsNotThrownAway, RemoteTypeOK, GoTo, workVars,
        fileVars, rowVars, Abandon, Report, RunOnly
<1>1. CASE FinalizeUpload
  <2>1. Batch' = Batch
    BY <1>1 DEF FinalizeUpload, Batch
  <2> QED BY <1>1, <2>1 DEF FinalizeUpload, ManifestsStored, CallRaises
<1>2. CASE CompleteExpired
  <2>1. Batch' = Batch
    BY <1>2 DEF CompleteExpired, Batch
  <2> QED BY <1>2, <2>1 DEF CompleteExpired
<1>3. CASE CompleteLost \/ CompleteToldSo \/ CompleteErrs \/ CompleteDone
  <2>1. /\ stage = "complete"
        /\ RequestFails \/ CallFails \/ Answered
        /\ UNCHANGED <<claims, step, existing, successful, failures, work, workDir, lease, present, manifests>>
    BY <1>3 DEF CompleteLost, CompleteToldSo, CompleteErrs, CompleteDone
  <2>2. Batch' = Batch
    BY <2>1 DEF Batch
  <2> HIDE DEF KeptInv, TypesInv, BeforeBatches, WorkInv, WorkIsNotThrownAway, RemoteTypeOK
  <2>3. /\ calls' \in [made : 0 .. CompleteRetries - 1, sent : 0 .. Requests - 1]
        /\ stage' \in {"complete", "report", "verify"} /\ verified' \in BOOLEAN
    BY <1>0, <2>1
  <2>4. token' \in BOOLEAN
    BY <1>3 DEF CompleteLost, CompleteToldSo, CompleteErrs, CompleteDone, NewToken
  <2>5. \/ UNCHANGED <<job, listed>>
        \/ job' = "completed" /\ listed' = listed \cup successful
    BY <1>3 DEF CompleteLost, CompleteToldSo, CompleteErrs, CompleteDone
  <2>6. RemoteTypeOK'
    BY <2>1, <2>2, <2>3, <2>4, <2>5 DEF KeptInv, TypesInv, RemoteTypeOK
  <2>7. WorkInv'
    BY <2>1, <2>3 DEF KeptInv, WorkInv
  <2>8. WorkIsNotThrownAway'
    BY <2>1, <2>5 DEF KeptInv, WorkInv, WorkIsNotThrownAway
  <2>9. BeforeBatches'
    BY <2>3 DEF BeforeBatches
  <2> QED BY <2>6, <2>7, <2>8, <2>9 DEF KeptInv, TypesInv
<1> QED BY <1>1, <1>2, <1>3

\* The end of process_job, and of the process: the directory goes only on the server's word.
LEMMA KeptAtTheEnd ==
  ASSUME KeptInv, ReportFailure \/ CleanUp \/ KeepWork \/ WorkerDies PROVE KeptInv'
<1> USE RemoteJobAssumption
    DEF KeptInv, TypesInv, BeforeBatches, WorkInv, WorkIsNotThrownAway, RemoteTypeOK, GoTo, runVars, workVars,
        fileVars, rowVars
<1>1. Batch' = Batch
  BY DEF ReportFailure, CleanUp, KeepWork, WorkerDies, Batch
<1>2. CASE ReportFailure
  BY <1>1, <1>2 DEF ReportFailure
<1>3. CASE CleanUp
  BY <1>1, <1>3 DEF CleanUp, AllPresent
<1>4. CASE KeepWork \/ WorkerDies
  BY <1>1, <1>4 DEF KeepWork, WorkerDies
<1> QED BY <1>2, <1>3, <1>4

\* No more qualities than there are sessions are encoded at once, no quality that is offered
\* is lost, and the work directory goes only when everything that is offered is on the
\* server: whatever calls fail, are answered late or wrongly, or are carried out twice.
THEOREM NothingIsThrownAway == RemoteSpec => [](RemoteTypeOK /\ WorkIsNotThrownAway)
<1>1. ASSUME KeptInv, [RemoteNext]_remoteVars PROVE KeptInv'
  <2>1. CASE UNCHANGED remoteVars
    BY <1>1, <2>1 DEF remoteVars, runVars, workVars, rowVars, fileVars, KeptInv, TypesInv, BeforeBatches,
       WorkInv,
                      WorkIsNotThrownAway, RemoteTypeOK, Batch
  <2> QED BY <1>1, <2>1, KeptByRows, KeptByOriginal, KeptByBatches, KeptByCompletion, KeptAtTheEnd
          DEF RemoteNext, ProcessJob
<1>2. KeptInv => RemoteTypeOK /\ WorkIsNotThrownAway
  BY DEF KeptInv, TypesInv
<1> QED BY <1>1, <1>2, KeptInit, PTL DEF RemoteSpec
=============================================================================
