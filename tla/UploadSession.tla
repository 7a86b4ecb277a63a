---------------------------- MODULE UploadSession ----------------------------
(***************************************************************************)
(* The lifecycle of ONE upload session: its database row, the projections  *)
(* of that row onto the upload object and the dataset, and the multipart   *)
(* upload it owns in object storage, driven by concurrent HTTP requests    *)
(* (pause, resume, complete, abort, presign, acknowledge, reconcile) and   *)
(* by the cleanup worker (expire, abort).                                  *)
(*                                                                         *)
(* Every database transaction is one step.  That is what the code's row    *)
(* lock gives: SELECT ... FOR UPDATE serialises the transactions, and it   *)
(* is released by COMMIT, so a request that calls storage between two      *)
(* transactions is several steps.  What the lock does NOT give is a fresh  *)
(* row: the route has already loaded the row into the request's SQLAlchemy *)
(* identity map (api/upload_sessions/permissions.py), the locking SELECT   *)
(* does not refresh loaded attributes, and so a handler decides on the     *)
(* status its route loaded.  snap[a] is that loaded status.                *)
(* The object and dataset rows are not kept: the identity map refers to     *)
(* them weakly, so every projection reads them again.                       *)
(***************************************************************************)
EXTENDS Naturals, FiniteSets

CONSTANTS
    Requests,    \* API requests in flight at the same time (slots, reusable)
    Workers,     \* processes running UploadSessionCleanupService
    Parts,       \* the part numbers 1..part_count of the file
    Sent,        \* what clients may PUT as a part: of the right size or not
    Crashing     \* the requests and workers whose process may die midway

ASSUME ConstantsAssumption ==
    /\ Requests \cap Workers = {}
    /\ Parts # {}
    /\ Sent \subseteq {"good", "bad"}
    /\ Crashing \subseteq Requests \cup Workers

Actors == Requests \cup Workers

VARIABLES
    status,         \* upload_sessions.status
    objectStatus,   \* upload_objects.status
    datasetStatus,  \* datasets.status, as far as the upload projects it
    rows,           \* upload_parts.status of each part, "NONE" when no row
    completions,    \* upload.completed events: committed _mark_completed calls
    mpu,            \* the multipart upload; "COMPLETED": the final object exists
    stored,         \* what storage holds for each part
    urls,           \* parts a presigned PUT URL was handed out for
    pc,             \* where each actor is in its handler
    snap,           \* the session status each actor has in memory
    listed          \* the ListParts answer each actor works on

row     == <<status, objectStatus, datasetStatus, completions>>
storage == <<mpu, stored>>
memory  == <<pc, snap, listed>>
vars    == <<row, rows, storage, urls, memory>>

-----------------------------------------------------------------------------
(* Statuses and the guards of domain/session_state.py.                     *)

\* INITIATING is overwritten before provisioning commits, and no service
\* writes FAILED: neither is ever a committed row.
SessionStatus == {"INITIATED", "UPLOADING", "PAUSED", "COMPLETING",
                  "COMPLETED", "ABORTING", "ABORTED", "EXPIRED"}

\* "NONE" when a part has no row; EXPECTED, MISSING and FAILED are never written.
PartStatus == {"NONE", "PRESIGNED", "UPLOADED"}

\* Mutant: an abort accepted while a complete is at work.
MutantCanAbort ==
    {"INITIATED", "UPLOADING", "PAUSED", "COMPLETING", "EXPIRED", "ABORTED"}

\* Mutant: the worker looks for EXPIRED sessions only.
MutantReclaimable == {"EXPIRED"}

CanPresign  == {"INITIATED", "UPLOADING"}
CanPause    == {"INITIATED", "UPLOADING", "PAUSED"}
CanResume   == {"PAUSED", "UPLOADING"}
CanComplete == {"INITIATED", "UPLOADING", "PAUSED", "COMPLETED"}
CanAbort    == {"INITIATED", "UPLOADING", "PAUSED", "EXPIRED", "ABORTED"}
AckRejected == {"COMPLETING", "COMPLETED", "ABORTING", "ABORTED", "FAILED"}
Expirable   == {"INITIATED", "UPLOADING", "PAUSED"}
Reclaimable == {"EXPIRED", "ABORTING"}
Terminal    == {"COMPLETED", "ABORTED", "FAILED"}

\* Mutant: EXPIRED written through to a column that does not admit it.
MutantObjectStatusOf(s) ==
    CASE s = "INITIATED"              -> "PENDING"
      [] s \in {"ABORTING", "ABORTED"} -> "CANCELLED"
      [] OTHER                        -> s

\* persisted_upload_object_status
ObjectStatusOf(s) ==
    CASE s = "INITIATED"              -> "PENDING"
      [] s \in {"ABORTING", "ABORTED"} -> "CANCELLED"
      [] s = "EXPIRED"                -> "FAILED"
      [] OTHER                        -> s

\* persisted_dataset_status; ABORTING, ABORTED and EXPIRED leave it alone
DatasetStatusOf(s, current) ==
    CASE s = "INITIATED"                 -> "UPLOAD_PENDING"
      [] s \in {"UPLOADING", "PAUSED"}     -> s
      [] s \in {"COMPLETING", "COMPLETED"} -> "PROCESSING"
      [] OTHER                           -> current

\* project_runtime_transition and project_cleanup_transition
Project(s)        == /\ objectStatus' = ObjectStatusOf(s)
                     /\ datasetStatus' = DatasetStatusOf(s, datasetStatus)
ProjectCleanup(s) == /\ objectStatus' = ObjectStatusOf(s)
                     /\ UNCHANGED datasetStatus

-----------------------------------------------------------------------------
(* Handlers' positions and what they keep in memory.                       *)

Contents == {"absent", "good", "bad"}   \* "bad": not the size the range asks
NoParts  == [p \in Parts |-> "absent"]

Running == {"loaded", "completing", "incomplete", "validated", "assembled",
            "storageFailed", "aborting", "discarded", "cleanupFailed",
            "cancelling", "cancelled"}

\* Mutant: part numbers compared, part sizes not.
MutantComplete(l) == \A p \in Parts : l[p] # "absent"

Complete(l) == \A p \in Parts : l[p] = "good"

At(a, point) == pc[a] = point
Goto(a, point) == pc' = [pc EXCEPT ![a] = point]

\* Go on with nothing in memory that a later step reads.
GotoFresh(a, point) == /\ Goto(a, point)
                       /\ snap' = [snap EXCEPT ![a] = "INITIATED"]
                       /\ listed' = [listed EXCEPT ![a] = NoParts]

\* The handler returns or raises, and its database session is closed.
Return(a) == GotoFresh(a, "idle")

-----------------------------------------------------------------------------
\* What create_upload_task commits: session INITIATED with an open multipart
\* upload, object and dataset pending.
Init ==
    /\ status = "INITIATED"
    /\ objectStatus = "PENDING"
    /\ datasetStatus = "UPLOAD_PENDING"
    /\ rows = [p \in Parts |-> "NONE"]
    /\ completions = 0
    /\ mpu = "OPEN"
    /\ stored = NoParts
    /\ urls = {}
    /\ pc = [a \in Actors |-> "idle"]
    /\ snap = [a \in Actors |-> "INITIATED"]
    /\ listed = [a \in Actors |-> NoParts]

-----------------------------------------------------------------------------
(* API requests.                                                           *)

\* The route loads the session for the ownership and permission checks; the
\* handler will see this status however long it waits for the lock.
LoadSession(r) ==
    /\ At(r, "idle")
    /\ Goto(r, "loaded")
    /\ snap' = [snap EXCEPT ![r] = status]
    /\ UNCHANGED <<row, rows, storage, urls, listed>>

\* A request that changes nothing: a read, a 409 or 410 on the loaded status,
\* or the stored answer of a session already COMPLETED or ABORTED.
AnswerWithoutChange(r) ==
    /\ At(r, "loaded")
    /\ Return(r)
    /\ UNCHANGED <<row, rows, storage, urls>>

PauseSession(r) ==
    /\ At(r, "loaded")
    /\ snap[r] \in CanPause \ {"PAUSED"}
    /\ status' = "PAUSED"
    /\ Project("PAUSED")
    /\ Return(r)
    /\ UNCHANGED <<completions, rows, storage, urls>>

ResumeSession(r) ==
    /\ At(r, "loaded")
    /\ snap[r] \in CanResume \ {"UPLOADING"}
    /\ status' = "UPLOADING"
    /\ Project("UPLOADING")
    /\ Return(r)
    /\ UNCHANGED <<completions, rows, storage, urls>>

\* Presigning and acknowledging promote a session loaded as INITIATED, without
\* the lock and without projecting the new status.
Promote(r) == status' = IF snap[r] = "INITIATED" THEN "UPLOADING" ELSE status

\* Mutant: preserve_uploaded forgotten.
MutantUpsert(p, new, preserve) == [rows EXCEPT ![p] = new]

\* UploadPartRecords.upsert: the row of a part, made if there is none.
Upsert(p, new, preserve) ==
    [rows EXCEPT ![p] = IF preserve /\ @ = "UPLOADED" THEN @ ELSE new]

PresignPart(r, p) ==
    /\ At(r, "loaded")
    /\ snap[r] \in CanPresign
    /\ rows' = Upsert(p, "PRESIGNED", TRUE)
    /\ urls' = urls \cup {p}
    /\ Promote(r)
    /\ Return(r)
    /\ UNCHANGED <<objectStatus, datasetStatus, completions, storage>>

AcknowledgePart(r, p) ==
    /\ At(r, "loaded")
    /\ snap[r] \notin AckRejected
    /\ rows' = Upsert(p, "UPLOADED", FALSE)
    /\ Promote(r)
    /\ Return(r)
    /\ UNCHANGED <<objectStatus, datasetStatus, completions, storage, urls>>

\* Rows of the parts storage lists become UPLOADED; a row whose part storage
\* does not list keeps its status.
Observed(l) == [p \in Parts |-> IF l[p] # "absent" THEN "UPLOADED" ELSE rows[p]]

ReconcileParts(r) ==
    /\ At(r, "loaded")
    /\ snap[r] \notin Terminal \cup {"EXPIRED"}
    /\ mpu = "OPEN"
    /\ rows' = Observed(stored)
    /\ Return(r)
    /\ UNCHANGED <<row, storage, urls>>

-----------------------------------------------------------------------------
(* Complete: COMPLETING is committed, storage is asked for its parts and    *)
(* then to assemble them, and a second transaction records the outcome.     *)

\* Mutant: no early answer for a session already COMPLETED.
MutantBeginComplete(r) ==
    /\ At(r, "loaded")
    /\ snap[r] \in CanComplete
    /\ status' = "COMPLETING"
    /\ Project("COMPLETING")
    /\ Goto(r, "completing")
    /\ UNCHANGED <<completions, rows, storage, urls, snap, listed>>

BeginComplete(r) ==
    /\ At(r, "loaded")
    /\ snap[r] \in CanComplete \ {"COMPLETED"}
    /\ status' = "COMPLETING"
    /\ Project("COMPLETING")
    /\ Goto(r, "completing")
    /\ UNCHANGED <<completions, rows, storage, urls, snap, listed>>

\* ListParts and the comparison with the expected part numbers and sizes.
ValidateStoredParts(r) ==
    /\ At(r, "completing")
    /\ mpu = "OPEN"
    /\ listed' = [listed EXCEPT ![r] = stored]
    /\ Goto(r, IF Complete(stored) THEN "validated" ELSE "incomplete")
    /\ UNCHANGED <<row, rows, storage, urls, snap>>

RestoreAfterMissingParts(r) ==
    /\ At(r, "incomplete")
    /\ LET fallback == IF snap[r] = "PAUSED" THEN "PAUSED" ELSE "UPLOADING"
       IN  status' = fallback /\ Project(fallback)
    /\ rows' = Observed(listed[r])
    /\ Return(r)
    /\ UNCHANGED <<completions, storage, urls>>

\* CompleteMultipartUpload names the ETag of each listed part: it succeeds
\* only while the upload is open and holds exactly those parts.
Assemble(r) == mpu = "OPEN" /\ stored = listed[r] /\ mpu' = "COMPLETED"

CompleteMultipart(r) ==
    /\ At(r, "validated")
    /\ Assemble(r)
    /\ GotoFresh(r, "assembled")
    /\ UNCHANGED <<row, rows, stored, urls>>

MarkCompleted(r) ==
    /\ At(r, "assembled")
    /\ status' = "COMPLETED"
    /\ Project("COMPLETED")
    /\ completions' = completions + 1
    /\ Return(r)
    /\ UNCHANGED <<rows, storage, urls>>

\* A storage call of a request raises StorageError: an outage, an upload that
\* no longer exists, parts that changed since they were listed, or an answer
\* lost after storage did what it was asked.
StorageCallFails(r) ==
    /\ pc[r] \in {"completing", "validated", "aborting"}
    /\ \/ UNCHANGED mpu
       \/ At(r, "validated") /\ Assemble(r)
       \/ At(r, "aborting") /\ mpu = "OPEN" /\ mpu' = "ABORTED"
    /\ Goto(r, "storageFailed")
    /\ listed' = [listed EXCEPT ![r] = NoParts]
    /\ UNCHANGED <<row, rows, stored, urls, snap>>

\* Mutant: the restore without its projection.
MutantRestoreStatus(r) ==
    /\ At(r, "storageFailed")
    /\ status' = snap[r]
    /\ Return(r)
    /\ UNCHANGED <<objectStatus, datasetStatus, completions, rows, storage, urls>>

\* _restore_status_after_storage_failure, of complete and of abort: writes
\* back the status the request had loaded, whatever the row says by now.
RestoreStatus(r) ==
    /\ At(r, "storageFailed")
    /\ status' = snap[r]
    /\ Project(snap[r])
    /\ Return(r)
    /\ UNCHANGED <<completions, rows, storage, urls>>

-----------------------------------------------------------------------------
(* Abort: ABORTING is committed, storage discards the upload, a second      *)
(* transaction records ABORTED.                                             *)

BeginAbort(r) ==
    /\ At(r, "loaded")
    /\ snap[r] \in CanAbort \ {"ABORTED"}
    /\ status' = "ABORTING"
    /\ Project("ABORTING")
    /\ Goto(r, "aborting")
    /\ UNCHANGED <<completions, rows, storage, urls, snap, listed>>

\* Mutant: aborting also deletes the object the upload became.
MutantDiscardObject(a) ==
    /\ At(a, "aborting")
    /\ mpu' = "ABORTED"
    /\ GotoFresh(a, IF snap[a] = "ABORTED" THEN "idle" ELSE "discarded")
    /\ UNCHANGED <<row, rows, stored, urls>>

\* AbortMultipartUpload; an upload that no longer exists is not an error.  A
\* worker that had read the row again as ABORTED has nothing left to write.
DiscardMultipart(a) ==
    /\ At(a, "aborting")
    /\ mpu' = IF mpu = "OPEN" THEN "ABORTED" ELSE mpu
    /\ GotoFresh(a, IF snap[a] = "ABORTED" THEN "idle" ELSE "discarded")
    /\ UNCHANGED <<row, rows, stored, urls>>

MarkAborted(r) ==
    /\ At(r, "discarded")
    /\ status' = "ABORTED"
    /\ Project("ABORTED")
    /\ Return(r)
    /\ UNCHANGED <<completions, rows, storage, urls>>

-----------------------------------------------------------------------------
(* The cleanup worker.  Each pass opens a new database session, so what it  *)
(* selects is fresh.                                                        *)

\* expire_old_sessions; expires_at may pass at any time.
ExpireSession(w) ==
    /\ At(w, "idle")
    /\ status \in Expirable
    /\ status' = "EXPIRED"
    /\ ProjectCleanup("EXPIRED")
    /\ UNCHANGED <<completions, rows, storage, urls, memory>>

\* The batch SELECT of abort_expired_multipart_uploads.  Its row locks end
\* with the first COMMIT of the batch, before this session's turn may come.
SelectForAbort(w) ==
    /\ At(w, "idle")
    /\ status \in Reclaimable
    /\ Goto(w, "loaded")
    /\ snap' = [snap EXCEPT ![w] = status]
    /\ UNCHANGED <<row, rows, storage, urls, listed>>

BeginCleanup(w) ==
    /\ At(w, "loaded")
    /\ IF snap[w] = "EXPIRED"
       THEN status' = "ABORTING" /\ ProjectCleanup("ABORTING")
       ELSE UNCHANGED <<status, objectStatus, datasetStatus>>
    /\ Goto(w, "aborting")
    /\ UNCHANGED <<completions, rows, storage, urls, snap, listed>>

\* A rollback for an earlier session of the batch makes SQLAlchemy read this
\* one again when its turn comes, without a lock and whatever its status is by
\* now.  (Read as EXPIRED, it is as if it had been selected only now; of the
\* other statuses only ABORTED makes a difference later.)
BeginCleanupReloaded(w) ==
    /\ At(w, "loaded")
    /\ status # "EXPIRED"
    /\ snap' = [snap EXCEPT ![w] = IF status = "ABORTED" THEN status ELSE "ABORTING"]
    /\ Goto(w, "aborting")
    /\ UNCHANGED <<row, rows, storage, urls, listed>>

\* session.get returns the session the batch selected, so the check for ABORTED
\* misses a concurrent change.  The object row is read here, without the lock:
\* if it is CANCELLED already, the assignment will not be written.
ReadProjection(w) ==
    /\ At(w, "discarded")
    /\ Goto(w, IF objectStatus = "CANCELLED" THEN "cancelled" ELSE "cancelling")
    /\ UNCHANGED <<row, rows, storage, urls, snap, listed>>

MarkCleanedUp(w) ==
    /\ pc[w] \in {"cancelling", "cancelled"}
    /\ status' = "ABORTED"
    /\ objectStatus' = IF At(w, "cancelling") THEN "CANCELLED" ELSE objectStatus
    /\ Return(w)
    /\ UNCHANGED <<datasetStatus, completions, rows, storage, urls>>

CleanupCallFails(w) ==
    /\ At(w, "aborting")
    /\ mpu' = mpu \/ (mpu = "OPEN" /\ mpu' = "ABORTED")
    /\ Goto(w, "cleanupFailed")
    /\ UNCHANGED <<row, rows, stored, urls, snap, listed>>

\* _mark_session_cleanup_failed assigns ABORTING.  If the row is still the one
\* in memory the assignment changes nothing and no UPDATE is sent; if the
\* rollback ended a transaction, which it cannot right after BeginCleanup has
\* committed, the row is read again, without a lock, and overwritten.
MarkCleanupFailed(w) ==
    /\ At(w, "cleanupFailed")
    /\ \/ UNCHANGED status
       \/ snap[w] # "EXPIRED" /\ status' = "ABORTING"
    /\ Return(w)
    /\ UNCHANGED <<objectStatus, datasetStatus, completions, rows, storage, urls>>

-----------------------------------------------------------------------------
(* The environment.                                                         *)

\* A client PUTs a part with a presigned URL.  Nothing ties the URL to the
\* session's status, and nothing makes the client send the right bytes.
PutPart(p, content) ==
    /\ p \in urls
    /\ mpu = "OPEN"
    /\ stored' = [stored EXCEPT ![p] = content]
    /\ UNCHANGED <<row, rows, mpu, urls, memory>>

\* The process of a request or of the worker dies, or its database connection
\* does: what it committed stays, what it was about to do is lost.
Crash(a) ==
    /\ pc[a] # "idle"
    /\ Return(a)
    /\ UNCHANGED <<row, rows, storage, urls>>

\* The second transaction of a complete or an abort stores its answer under
\* the request's idempotency key.  If a failing request with the same key has
\* deleted the record meanwhile (module Idempotency), .one() raises what the
\* handlers do not catch: the transaction is rolled back, nothing is restored.
AnswerIsGone(r) ==
    /\ pc[r] \in {"assembled", "discarded"}
    /\ Return(r)
    /\ UNCHANGED <<row, rows, storage, urls>>

-----------------------------------------------------------------------------

Handle(r) ==
    \/ AnswerWithoutChange(r) \/ PauseSession(r) \/ ResumeSession(r)
    \/ \E p \in Parts : PresignPart(r, p) \/ AcknowledgePart(r, p)
    \/ ReconcileParts(r)
    \/ BeginComplete(r) \/ ValidateStoredParts(r) \/ RestoreAfterMissingParts(r)
    \/ CompleteMultipart(r) \/ MarkCompleted(r)
    \/ BeginAbort(r) \/ DiscardMultipart(r) \/ MarkAborted(r)
    \/ StorageCallFails(r) \/ RestoreStatus(r)

Reclaim(w) ==
    \/ SelectForAbort(w) \/ BeginCleanup(w) \/ BeginCleanupReloaded(w)
    \/ DiscardMultipart(w) \/ ReadProjection(w) \/ MarkCleanedUp(w)
    \/ CleanupCallFails(w) \/ MarkCleanupFailed(w)

Next ==
    \/ \E r \in Requests : LoadSession(r) \/ Handle(r) \/ AnswerIsGone(r)
    \/ \E w \in Workers : ExpireSession(w) \/ Reclaim(w)
    \/ \E p \in Parts, content \in Sent : PutPart(p, content)
    \/ \E a \in Crashing : Crash(a)

Spec == Init /\ [][Next]_vars

\* Fairness.  A request's thread runs until it answers, and the worker's loop
\* polls again and again; storage, asked again and again, eventually answers.
\* Clients and the clock of a single request owe nothing.
FairSpec ==
    /\ Spec
    /\ \A r \in Requests : WF_vars(Handle(r))
    /\ \A w \in Workers : /\ WF_vars(ExpireSession(w))
                          /\ WF_vars(Reclaim(w))
                          /\ SF_vars(DiscardMultipart(w))

-----------------------------------------------------------------------------
(* Safety.                                                                  *)

\* Every variable keeps the shape its column, or its place in memory, has.
TypeOK ==
    /\ status \in SessionStatus
    /\ objectStatus \in {"PENDING", "UPLOADING", "PAUSED", "COMPLETING",
                         "COMPLETED", "CANCELLED", "FAILED"}
    /\ datasetStatus \in {"UPLOAD_PENDING", "UPLOADING", "PAUSED", "PROCESSING"}
    /\ rows \in [Parts -> PartStatus]
    /\ completions \in Nat
    /\ mpu \in {"OPEN", "COMPLETED", "ABORTED"}
    /\ stored \in [Parts -> Contents]
    /\ urls \in SUBSET Parts
    /\ pc \in [Actors -> Running \cup {"idle"}]
    /\ snap \in [Actors -> SessionStatus]
    /\ listed \in [Actors -> [Parts -> Contents]]

\* A session shows COMPLETED only when storage has assembled its object, from
\* every part of the file and each with the size its range demands, whatever
\* other requests, restores and cleanups ran in between.
CompletedMeansAssembled ==
    status = "COMPLETED" =>
        mpu = "COMPLETED" /\ \A p \in Parts : stored[p] = "good"

\* A session shows ABORTED only when its multipart upload is gone from storage:
\* no abandoned parts are billed for a session nobody will look at again.
AbortedMeansReclaimed == status = "ABORTED" => mpu # "OPEN"

\* However many complete requests overlap, repeat or crash, one completion is
\* recorded at most: one upload.completed event, and one increment of the
\* task's completed_object_count.
CompletedOnce == completions <= 1

\* The projections follow the row: the object shows the status of the session,
\* and the dataset of a COMPLETED session is PROCESSING, where validation finds
\* it.  Not covered are UPLOADING (which presigning and acknowledging write
\* without projecting), ABORTING (which a failed cleanup writes without
\* projecting) and ABORTED (whose projection MarkCleanedUp may lose).
ProjectionsAgree ==
    /\ status \notin {"UPLOADING", "ABORTING", "ABORTED"} =>
           objectStatus = ObjectStatusOf(status)
    /\ status = "COMPLETED" => datasetStatus = "PROCESSING"

\* Between two transactions a handler works without the lock on what it saw
\* before: by the time it commits, that must still be so.  A validated list
\* holds every part; an assembled upload stays assembled and belongs to one
\* request, whose completion is not yet counted; a discarded upload stays gone;
\* and the status a failure will write back is one a client may continue from.
EvidenceHolds ==
    /\ completions > 0 => mpu = "COMPLETED"
    /\ mpu = "COMPLETED" => \A p \in Parts : stored[p] = "good"
    /\ \A a \in Actors :
          /\ At(a, "validated") => \A p \in Parts : listed[a][p] = "good"
          /\ pc[a] \in {"discarded", "cancelling", "cancelled"} => mpu # "OPEN"
          /\ At(a, "assembled") =>
                 /\ mpu = "COMPLETED" /\ completions = 0
                 /\ \A b \in Actors : At(b, "assembled") => b = a
    /\ \A r \in Requests :
          pc[r] \in {"completing", "incomplete", "validated", "aborting",
                    "storageFailed"}
              => snap[r] \in {"INITIATED", "UPLOADING", "PAUSED", "EXPIRED"}

\* A part row acknowledged or observed as UPLOADED never goes back, not even
\* when its URL is presigned again.
UploadedRowsStay ==
    [][\A p \in Parts : rows[p] = "UPLOADED" => rows'[p] = "UPLOADED"]_rows

\* The session keeps the promise of UploadOutcome.
Outcome == INSTANCE UploadOutcome WITH
    outcome <- mpu,
    record  <- IF status \in {"COMPLETED", "ABORTED"} THEN status ELSE "none"

KeepsOutcome == Outcome!Spec

CompletePoints == {"completing", "incomplete", "validated", "assembled",
                   "storageFailed"}

\* COMPLETING with no complete request at work on it.  Nothing else moves the
\* session on: it neither expires nor can be aborted, paused or completed again.
Stranded ==
    status = "COMPLETING" /\ \A r \in Requests : pc[r] \notin CompletePoints

\* Whatever overlaps, fails or is restored, no handler leaves a session stranded
\* in COMPLETING by returning, nor by moving a status under another's feet: only
\* the death of a complete request does, or the loss of its answer's record.
CompletingIsAttended ==
    [][Stranded' => \/ Stranded
                    \/ \E r \in Requests : /\ pc[r] \in CompletePoints
                                           /\ Crash(r) \/ AnswerIsGone(r)]_vars

-----------------------------------------------------------------------------
(* Liveness.                                                                *)

\* From some time on clients send no more requests and workers do not die.
Calm == <>[][ /\ \A r \in Requests : ~LoadSession(r)
              /\ \A a \in Crashing : ~Crash(a) ]_vars

\* Left alone, a session ends COMPLETED or ABORTED: the worker expires it,
\* retries a discard that failed or that a dead worker left half done, and so
\* also takes over the aborts of requests.  The one exception is a session
\* stranded in COMPLETING, and CompletingIsAttended says how that comes about.
EventuallySettled ==
    Calm => <>[](status \in {"COMPLETED", "ABORTED"} \/ Stranded)

\* docs/prd/.../05-state-machine.md:80 lists COMPLETED -> anything else among
\* the transitions implementations must reject.
CompletedIsFinal == [][status = "COMPLETED" => status' = "COMPLETED"]_status

=============================================================================
