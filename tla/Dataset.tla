-------------------------------- MODULE Dataset --------------------------------
(***************************************************************************)
(* One dataset: its row, the object it names, and those who write the row:  *)
(* API requests (archive, delete, restore, purge, retry of the validation), *)
(* workers (validation, retention, recovery) and the transactions of the    *)
(* upload session that feeds it, of which only what UploadOutcome promises  *)
(* is assumed.                                                              *)
(*                                                                          *)
(* Hardly anybody locks the row.  A command reads it, decides, and at the   *)
(* commit the ORM writes only the columns whose value differs from what was *)
(* read; what others committed meanwhile is overwritten in those columns    *)
(* and kept in the others.  next...[a] is that pending UPDATE of actor a.    *)
(* The transactions that do lock the row (claim, retry, retention,          *)
(* reconciliation) are one step each.                                       *)
(***************************************************************************)
EXTENDS Naturals

CONSTANTS
    Requests,            \* API requests in flight at the same time
    Workers,             \* worker processes
    Projector,           \* the upload session's transaction, one at a time
    Crashing,            \* those whose process may die midway
    ValidationEnabled,   \* enable_dataset_validation
    Keep                 \* the column is not part of the UPDATE

\* CREATED and SKIPPED are never written.
DatasetStatus == {"UPLOAD_PENDING", "UPLOADING", "PAUSED", "PROCESSING",
                  "QUARANTINED", "READY", "REJECTED", "ARCHIVED", "DELETED",
                  "PURGED"}
ValidationStatus == {"NOT_REQUIRED", "PENDING", "RUNNING", "PASSED", "FAILED"}

ASSUME DatasetAssumption ==
    /\ Requests \cap Workers = {}
    /\ Projector \notin Requests \cup Workers
    /\ Crashing \subseteq Requests \cup Workers \cup {Projector}
    /\ ValidationEnabled \in BOOLEAN
    /\ Keep \notin DatasetStatus \cup ValidationStatus
    /\ Keep \notin BOOLEAN

Actors == Requests \cup Workers \cup {Projector}

VARIABLES
    status, validation, recovery,   \* of the datasets row
    located,                        \* bucket_name and object_key are set
    upload,                         \* the multipart upload: what it became
    stored,                         \* storage has the object
    record, completions,            \* the upload session, as in UploadOutcome
    pc,                             \* where each actor is
    nextStatus, nextValidation, nextLocated,   \* its pending UPDATE
    lost                            \* a worker died while validating

row     == <<status, validation, recovery, located>>
session == <<upload, record, completions>>
pending == <<pc, nextStatus, nextValidation, nextLocated>>
vars    == <<row, session, stored, pending, lost>>

-----------------------------------------------------------------------------
RecoveryStatus == {"NORMAL", "RECOVERY_MISSING_OBJECT", "RECOVERY_VERIFIED",
                   "RECOVERY_METADATA_ONLY"}

\* dataset_allows_exposure
Exposable == /\ status \in {"READY", "ARCHIVED"}
             /\ validation \in {"NOT_REQUIRED", "PASSED", "SKIPPED"}
             /\ recovery = "NORMAL"

\* create_download_url gives out a URL.
Downloadable == Exposable /\ located

\* What the multipart upload became: "good" and "bad" are objects, the latter
\* one the inspection rejects.
Assembled == upload \in {"good", "bad"}

Session == INSTANCE UploadOutcome WITH
    outcome <- IF Assembled THEN "COMPLETED" ELSE upload

-----------------------------------------------------------------------------
At(a, point) == pc[a] = point

\* The handler has read the row and decided; c is what it assigns to a column
\* that reads current.
Changed(c, current) == IF c = current THEN Keep ELSE c

Prepare(a, point, s, v, l) ==
    /\ pc' = [pc EXCEPT ![a] = point]
    /\ nextStatus' = [nextStatus EXCEPT ![a] = Changed(s, status)]
    /\ nextValidation' = [nextValidation EXCEPT ![a] = Changed(v, validation)]
    /\ nextLocated' = [nextLocated EXCEPT ![a] = Changed(l, located)]

Written(c, current) == IF c = Keep THEN current ELSE c

Write(a) ==
    /\ status' = Written(nextStatus[a], status)
    /\ validation' = Written(nextValidation[a], validation)
    /\ located' = Written(nextLocated[a], located)
    /\ UNCHANGED recovery

\* The handler is over, whether it answered or raised.
Return(a) ==
    /\ pc' = [pc EXCEPT ![a] = "idle"]
    /\ nextStatus' = [nextStatus EXCEPT ![a] = Keep]
    /\ nextValidation' = [nextValidation EXCEPT ![a] = Keep]
    /\ nextLocated' = [nextLocated EXCEPT ![a] = Keep]

\* What provision commits.
Init ==
    /\ status = "UPLOAD_PENDING"
    /\ validation = "NOT_REQUIRED"
    /\ recovery = "NORMAL"
    /\ located = TRUE
    /\ upload = "OPEN"
    /\ stored = FALSE
    /\ record = "none"
    /\ completions = 0
    /\ pc = [a \in Actors |-> "idle"]
    /\ nextStatus = [a \in Actors |-> Keep]
    /\ nextValidation = [a \in Actors |-> Keep]
    /\ nextLocated = [a \in Actors |-> Keep]
    /\ lost = FALSE

-----------------------------------------------------------------------------
(* API requests.  A request that is refused changes nothing and is left out. *)

Assign(r, s) == /\ At(r, "idle")
                /\ Prepare(r, "writing", s, validation, located)
                /\ UNCHANGED <<row, session, stored, lost>>

ArchiveDataset(r) == status = "READY" /\ Assign(r, "ARCHIVED")

SoftDeleteDataset(r) == status \notin {"DELETED", "PURGED"} /\ Assign(r, "DELETED")

\* Which of the two: what the metadata says it was deleted from.
RestoreDataset(r) ==
    status = "DELETED" /\ \E s \in {"READY", "ARCHIVED"} : Assign(r, s)

\* purge_dataset, once the policy allows it
BeginPurge(r) ==
    /\ At(r, "idle")
    /\ status = "DELETED"
    /\ Prepare(r, "purging", "PURGED", validation, FALSE)
    /\ UNCHANGED <<row, session, stored, lost>>

\* delete_object, unless the row read had no location; when storage raises,
\* the object may be gone all the same.
DeleteObject(r) ==
    /\ At(r, "purging")
    /\ \/ /\ stored' = (stored /\ nextLocated[r] = Keep)
          /\ pc' = [pc EXCEPT ![r] = "writing"]
          /\ UNCHANGED <<nextStatus, nextValidation, nextLocated>>
       \/ /\ nextLocated[r] # Keep
          /\ stored' \in {stored, FALSE}
          /\ Return(r)
    /\ UNCHANGED <<row, session, lost>>

Commit(r) ==
    /\ At(r, "writing")
    /\ Write(r)
    /\ Return(r)
    /\ UNCHANGED <<session, stored, lost>>

\* Mutant: a validation in progress may be retried too.
MutantRetryRunning ==
    /\ validation \in {"FAILED", "RUNNING"}
    /\ status \in {"REJECTED", "QUARANTINED", "PROCESSING"}
    /\ located
    /\ status' = "PROCESSING"
    /\ validation' = "PENDING"
    /\ UNCHANGED <<recovery, located, session, stored, pending, lost>>

\* Mutant: whatever is PROCESSING may be retried.
MutantRetryProcessing ==
    /\ validation = "FAILED" \/ status = "PROCESSING"
    /\ status \in {"REJECTED", "QUARANTINED", "PROCESSING"}
    /\ located
    /\ status' = "PROCESSING"
    /\ validation' = "PENDING"
    /\ UNCHANGED <<recovery, located, session, stored, pending, lost>>

\* retry_validation; the row is locked when it is read.
RetryValidation ==
    /\ validation = "FAILED"
    /\ status \in {"REJECTED", "QUARANTINED", "PROCESSING"}
    /\ located
    /\ status' = "PROCESSING"
    /\ validation' = "PENDING"
    /\ UNCHANGED <<recovery, located, session, stored, pending, lost>>

-----------------------------------------------------------------------------
(* The worker.                                                              *)

\* _claim_candidates
Claim(w) ==
    /\ ValidationEnabled
    /\ At(w, "idle")
    /\ status = "PROCESSING"
    /\ validation = "PENDING"
    /\ record = "COMPLETED"
    /\ located
    /\ status' = "QUARANTINED"
    /\ validation' = "RUNNING"
    /\ pc' = [pc EXCEPT ![w] = "validating"]
    /\ UNCHANGED <<recovery, located, session, stored, nextStatus,
                   nextValidation, nextLocated, lost>>

\* No hook objects, and the extractor finds the object.
InspectionPasses == located /\ stored /\ upload = "good"

\* _validate_one reads the row again, without a lock and whatever it says by
\* now, inspects the object and records its verdict.
Accept(w) ==
    /\ At(w, "validating")
    /\ InspectionPasses
    /\ Prepare(w, "judged", "READY", "PASSED", located)
    /\ UNCHANGED <<row, session, stored, lost>>

\* Mutant: the status of the validation written to that of the dataset.
MutantReject(w) ==
    /\ pc[w] \in {"validating", "judged"}
    /\ Prepare(w, "judged", "FAILED", "FAILED", located)
    /\ UNCHANGED <<row, session, stored, lost>>

\* Storage errors count as failures, and so does an error of the commit:
\* _mark_unexpected_error reads the row once more.
Reject(w) ==
    /\ pc[w] \in {"validating", "judged"}
    /\ Prepare(w, "judged", "REJECTED", "FAILED", located)
    /\ UNCHANGED <<row, session, stored, lost>>

\* Mutant: the commit of the verdict forgotten.
MutantCommitVerdict(w) ==
    /\ At(w, "judged")
    /\ Return(w)
    /\ UNCHANGED <<row, session, stored, lost>>

CommitVerdict(w) ==
    /\ At(w, "judged")
    /\ Write(w)
    /\ Return(w)
    /\ UNCHANGED <<session, stored, lost>>

\* enforce_recycle_bin_retention, once the retention is over; a storage error,
\* or one that rolls back the batch, may leave the row as it was.
EnforceRetention(w) ==
    /\ At(w, "idle")
    /\ status = "DELETED"
    /\ stored' = (stored /\ ~located)
    /\ \/ status' = "PURGED" /\ located' = FALSE
       \/ located /\ UNCHANGED <<status, located>>
    /\ UNCHANGED <<validation, recovery, session, pending, lost>>

\* reconcile_recovery_status
Reconcile(w) ==
    /\ At(w, "idle")
    /\ status # "PURGED"
    /\ \/ located /\ ~stored /\ recovery' = "RECOVERY_MISSING_OBJECT"
       \/ /\ located /\ stored
          /\ recovery \in {"RECOVERY_VERIFIED", "RECOVERY_MISSING_OBJECT"}
          /\ recovery' = "RECOVERY_VERIFIED"
       \/ /\ ~located /\ recovery = "RECOVERY_VERIFIED"
          /\ status \in {"READY", "ARCHIVED"}
          /\ recovery' = "RECOVERY_METADATA_ONLY"
    /\ UNCHANGED <<status, validation, located, session, stored, pending, lost>>

-----------------------------------------------------------------------------
(* The upload session.  Its row is locked by each of these transactions.    *)

\* Storage completes or discards the multipart upload.
Decide ==
    /\ upload' \in {"good", "bad", "ABORTED"}
    /\ Session!Decide
    /\ stored' = Assembled'
    /\ UNCHANGED <<row, pending, lost>>

\* project_runtime_transition to a status that is not the last one
BeginProjection ==
    /\ At(Projector, "idle")
    /\ \E s \in {"UPLOAD_PENDING", "UPLOADING", "PAUSED", "PROCESSING"} :
          Prepare(Projector, "projecting", s, validation, located)
    /\ UNCHANGED <<row, session, stored, lost>>

CommitProjection ==
    /\ At(Projector, "projecting")
    /\ UNCHANGED <<upload, stored, lost>>
    /\ Session!Withdraw
    /\ Write(Projector)
    /\ Return(Projector)

\* Mutant: the validation not asked for.
MutantBeginCompletion ==
    /\ At(Projector, "idle")
    /\ Assembled
    /\ completions = 0
    /\ Prepare(Projector, "completing", "PROCESSING", validation, TRUE)
    /\ UNCHANGED <<row, session, stored, lost>>

\* _mark_completed
BeginCompletion ==
    /\ At(Projector, "idle")
    /\ Assembled
    /\ completions = 0
    /\ LET required == ValidationEnabled /\ validation = "NOT_REQUIRED"
       IN  Prepare(Projector, "completing", "PROCESSING",
                   IF required THEN "PENDING" ELSE validation, TRUE)
    /\ UNCHANGED <<row, session, stored, lost>>

CommitCompletion ==
    /\ At(Projector, "completing")
    /\ UNCHANGED <<upload, stored, lost>>
    /\ Session!RecordCompleted
    /\ Write(Projector)
    /\ Return(Projector)

\* ABORTED is not projected onto the dataset.
RecordAborted ==
    /\ At(Projector, "idle")
    /\ UNCHANGED <<upload, row, stored, pending, lost>>
    /\ Session!RecordAborted

\* The process dies: what it has not committed is lost.
Crash(a) ==
    /\ ~At(a, "idle")
    /\ lost' = (lost \/ a \in Workers)
    /\ Return(a)
    /\ UNCHANGED <<row, session, stored>>

-----------------------------------------------------------------------------
Command(r) ==
    \/ ArchiveDataset(r) \/ SoftDeleteDataset(r) \/ RestoreDataset(r)
    \/ BeginPurge(r)

Handle(r) == DeleteObject(r) \/ Commit(r)

Validate(w) == Claim(w) \/ Accept(w) \/ Reject(w) \/ CommitVerdict(w)

FinishUpload == CommitProjection \/ CommitCompletion

Next ==
    \/ \E r \in Requests : Command(r) \/ Handle(r)
    \/ RetryValidation
    \/ \E w \in Workers : Validate(w) \/ EnforceRetention(w) \/ Reconcile(w)
    \/ Decide \/ BeginProjection \/ BeginCompletion \/ FinishUpload \/ RecordAborted
    \/ \E a \in Crashing : Crash(a)

Spec == Init /\ [][Next]_vars

\* Requests and transactions run to their end, and the worker's loop goes on.
FairSpec ==
    /\ Spec
    /\ \A r \in Requests : WF_vars(Handle(r))
    /\ \A w \in Workers : WF_vars(Validate(w))
    /\ WF_vars(FinishUpload)

-----------------------------------------------------------------------------
\* Columns and pending UPDATEs hold what the columns admit.
TypeOK ==
    /\ status \in DatasetStatus
    /\ validation \in ValidationStatus
    /\ recovery \in RecoveryStatus
    /\ located \in BOOLEAN
    /\ upload \in {"OPEN", "good", "bad", "ABORTED"}
    /\ stored \in BOOLEAN
    /\ record \in {"none", "COMPLETED", "ABORTED"}
    /\ completions \in {0, 1}
    /\ pc \in [Actors -> {"idle", "writing", "purging", "validating", "judged",
                          "projecting", "completing"}]
    /\ nextStatus \in [Actors -> DatasetStatus \cup {Keep}]
    /\ nextValidation \in [Actors -> {"PENDING", "PASSED", "FAILED", Keep}]
    /\ nextLocated \in [Actors -> BOOLEAN \cup {Keep}]
    /\ lost \in BOOLEAN

Validators == {w \in Workers : pc[w] \in {"validating", "judged"}}

\* Once an upload is completed and validation is on, no dataset can be
\* downloaded whose object an inspection has not accepted, whatever was
\* archived, deleted, restored, retried or projected meanwhile.
ExposedWasAccepted ==
    ValidationEnabled /\ completions > 0 /\ Downloadable
        => validation = "PASSED" /\ upload = "good"

\* One worker at a time validates a dataset, the row says RUNNING as long as it
\* does, and it says so no longer unless that worker died.
ValidatedByOne ==
    /\ \A w1, w2 \in Validators : w1 = w2
    /\ Validators # {} => validation = "RUNNING"
    /\ validation = "RUNNING" => Validators # {} \/ lost

\* An accepted dataset stays accepted.
AcceptedStays == [][validation = "PASSED" => validation' = "PASSED"]_validation

\* From some time on nobody asks anything of the dataset or its upload, and
\* no process dies.
Calm == <>[][ /\ \A r \in Requests : ~Command(r)
              /\ ~RetryValidation
              /\ ~BeginProjection /\ ~BeginCompletion /\ ~RecordAborted
              /\ \A w \in Workers : ~EnforceRetention(w)
              /\ \A a \in Crashing : ~Crash(a) ]_vars

Claimable == /\ status = "PROCESSING" /\ validation = "PENDING"
             /\ record = "COMPLETED" /\ located

\* Left alone, a dataset does not wait for its validation for ever, nor stays in
\* the middle of it unless the worker that did it died.
EventuallyJudged ==
    Calm => <>[](~Claimable /\ (validation = "RUNNING" => lost))

=============================================================================
