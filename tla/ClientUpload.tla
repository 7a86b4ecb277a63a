----------------------------- MODULE ClientUpload -----------------------------
(***************************************************************************)
(* uploadctl: the runs that upload one file, from the manifest that upload   *)
(* has just saved.  A run (upload's own, or a resume after it) loads the      *)
(* manifest, asks the server what is there, PUTs the missing parts in         *)
(* batches of threads, and has the session completed.                        *)
(*                                                                         *)
(* Nothing but the manifest survives a run, and nothing locks it: a run saves *)
(* the copy it has in memory, and so do the pause and abort commands.         *)
(* The server is UploadSession seen from outside: its status, the part rows,  *)
(* the multipart upload, and the idempotency record of each command's key.    *)
(***************************************************************************)
EXTENDS Naturals, FiniteSets

CONSTANTS
    Runs,        \* uploadctl processes on this manifest at the same time
    PartCount,   \* part_count of the session
    BatchSize,   \* min(concurrency * 4, 100): parts presigned together
    Versions,    \* bound: how often the local file is rewritten, its size kept
    MaxFaults    \* bound: how many faults, and commands of others, there are

ASSUME ClientAssumption ==
    /\ PartCount \in Nat \ {0}
    /\ BatchSize \in Nat \ {0}
    /\ Versions \in Nat \ {0}
    /\ MaxFaults \in Nat

Parts == 1 .. PartCount

VARIABLES
    file,        \* the version of the local file; the manifest describes 1
    manifest,    \* the manifest on disk
    pc,          \* where each run is
    mem,         \* the manifest each run has in memory
    pending,     \* the parts of later batches
    thread,      \* the upload of each part of the batch at work
    operator,    \* the manifest a pause or abort command is about to save
    status,      \* upload_sessions.status
    mpu,         \* the multipart upload; "COMPLETED": the final object exists
    stored,      \* the version of the file each stored part has, 0 for none
    rows,        \* the parts whose row is UPLOADED
    record,      \* the idempotency record of uploadctl-complete
    replayed,    \* the commands whose key has an answer already
    serving,     \* the server's complete: how far it is, and for whom
    disturbed,   \* history: a run was forced, or the file rewritten under one
    faults       \* bound: how many faults there were

local   == <<file, manifest, disturbed>>
memory  == <<pc, mem, pending, thread>>
session == <<status, mpu, rows, replayed>>
finish  == <<record, serving>>
vars    == <<local, memory, operator, session, stored, finish, faults>>

-----------------------------------------------------------------------------
(* The manifest.                                                            *)

LocalStatus == {"UPLOADING", "PAUSED", "COMPLETED", "ABORTED"}
Manifest == [uploaded: SUBSET Parts, status: LocalStatus]


\* _missing_part_numbers
Missing(m) == Parts \ m.uploaded

\* Mutant: only the size compared.
MutantUnchanged(force) == TRUE

\* _validate_file_unchanged; a changed size is refused even when forced.
Unchanged(force) == file = 1 \/ force

\* Mutant: parts counted from 0.
MutantMarkUploaded(m, S) == [m EXCEPT !.uploaded = @ \cup {n - 1 : n \in S}]

MarkUploaded(m, S) == [m EXCEPT !.uploaded = @ \cup S]
MarkFailed(m, n)   == [m EXCEPT !.uploaded = @ \ {n}]
MarkLocal(m, s)    == [m EXCEPT !.status = s]

\* save_manifest replaces the file, whatever it held: the run's copy wins.
Save(r, m) == mem' = [mem EXCEPT ![r] = m] /\ manifest' = m

-----------------------------------------------------------------------------
(* A run's position, and its threads.                                       *)

Idle == "idle"
Points == {"idle", "loaded", "checked", "ready", "uploading", "failing",
           "interrupted", "asked", "told", "refused"}

\* A thread's part is to be stored, or the thread has returned its ETag, or has
\* raised; a taken result is in the manifest.
ThreadStates == {"none", "putting", "returned", "raised", "taken"}
NoThreads == [n \in Parts |-> "none"]
NoManifest == [uploaded |-> {}, status |-> "UPLOADING"]

At(r, point) == pc[r] = point
Goto(r, point) == pc' = [pc EXCEPT ![r] = point]

\* The process ends; what it had in memory is gone.
Forget(r) == /\ pc' = [pc EXCEPT ![r] = Idle]
             /\ pending' = [pending EXCEPT ![r] = {}]
             /\ thread' = [thread EXCEPT ![r] = NoThreads]
Leave(r) == Forget(r) /\ mem' = [mem EXCEPT ![r] = NoManifest]
LeaveSaving(r, m) == /\ Forget(r)
                     /\ mem' = [mem EXCEPT ![r] = NoManifest]
                     /\ manifest' = m

Batch(r) == {n \in Parts : thread[r][n] # "none"}
Putting(r) == {n \in Parts : thread[r][n] = "putting"}

\* The first BatchSize of the pending parts.
FirstBatch(S) == {n \in S : Cardinality({m \in S : m < n}) < BatchSize}

-----------------------------------------------------------------------------
(* resume_manifest, up to the parts.                                        *)

Load(r, force) ==
    /\ At(r, Idle)
    /\ Unchanged(force)
    /\ Goto(r, "loaded")
    /\ mem' = [mem EXCEPT ![r] = manifest]
    /\ disturbed' = (disturbed \/ force)
    /\ UNCHANGED <<file, manifest, pending, thread, operator, session, stored, finish>>

\* Mutant: a session that is being completed taken for a completed one.
MutantRemoteDone == {"COMPLETING", "COMPLETED"}

RemoteDone == {"COMPLETED"}

\* get_session: a completed session is noted, a closed or paused one refused.
GetSession(r) ==
    /\ At(r, "loaded")
    /\ IF status \in RemoteDone
       THEN LeaveSaving(r, MarkLocal(mem[r], "COMPLETED"))
       ELSE /\ IF status \in {"ABORTED", "EXPIRED", "PAUSED"}
               THEN Leave(r)
               ELSE Goto(r, "checked") /\ UNCHANGED <<mem, pending, thread>>
            /\ UNCHANGED manifest
    /\ UNCHANGED <<file, disturbed, operator, session, stored, finish>>

StoredParts == {n \in Parts : stored[n] # 0}

\* A listing of storage marks the rows of the parts it finds.
Observed == rows \cup StoredParts

\* list_parts with source=reconcile: the server lists storage and answers the
\* rows; those of a closed session it answers as they are.
Closed == {"COMPLETED", "ABORTED", "EXPIRED"}
CanReconcile == status \in Closed \/ mpu = "OPEN"
Reconciled == IF status \in Closed THEN rows ELSE Observed

\* _reconcile_manifest: rows that are UPLOADED are marked, nothing is unmarked.
Reconcile(r) ==
    /\ At(r, "checked")
    /\ CanReconcile
    /\ rows' = Reconciled
    /\ LET m == MarkUploaded(mem[r], Reconciled)
       IN  /\ Save(r, m)
           /\ pending' = [pending EXCEPT ![r] = Missing(m)]
    /\ Goto(r, "ready")
    /\ UNCHANGED <<file, disturbed, thread, operator, status, mpu, replayed, stored, finish>>

-----------------------------------------------------------------------------
(* _upload_missing_parts.                                                   *)

\* presign_parts of the next batch, and a thread for each of its parts.
PresignBatch(r) ==
    /\ At(r, "ready")
    /\ pending[r] # {}
    /\ status = "UPLOADING"
    /\ LET batch == FirstBatch(pending[r])
       IN  /\ thread' = [thread EXCEPT ![r] =
                            [n \in Parts |-> IF n \in batch THEN "putting" ELSE "none"]]
           /\ pending' = [pending EXCEPT ![r] = @ \ batch]
    /\ Goto(r, "uploading")
    /\ UNCHANGED <<local, mem, operator, session, stored, finish>>

SetThread(r, n, state) == thread' = [thread EXCEPT ![r][n] = state]

\* An attempt of _upload_part_with_retry reaches storage, which stores what the
\* file holds by then.  Its answer is an ETag, or an error that is tried again
\* (five times, with a new URL if the old one expired), or is lost.
PutPart(r, n, answer) ==
    /\ thread[r][n] = "putting"
    /\ mpu = "OPEN"
    /\ stored' = [stored EXCEPT ![n] = file]
    /\ SetThread(r, n, answer)
    /\ UNCHANGED <<local, pc, mem, pending, operator, session, finish>>

\* The upload is gone; or an attempt fails without effect, and was the last, or
\* not to be retried, or its new URL was refused.
PutRefused(r, n) ==
    /\ thread[r][n] = "putting"
    /\ SetThread(r, n, "raised")
    /\ UNCHANGED <<local, pc, mem, pending, operator, session, stored, finish>>

\* Mutant: a thread that is done taken for one that succeeded.
MutantTakeResult(r, n) ==
    /\ At(r, "uploading")
    /\ thread[r][n] \in {"returned", "raised"}
    /\ Save(r, MarkUploaded(mem[r], {n}))
    /\ SetThread(r, n, "taken")
    /\ UNCHANGED <<file, disturbed, pc, pending, operator, session, stored, finish>>

\* as_completed: the next result is marked and saved.
TakeResult(r, n) ==
    /\ At(r, "uploading")
    /\ thread[r][n] = "returned"
    /\ Save(r, MarkUploaded(mem[r], {n}))
    /\ SetThread(r, n, "taken")
    /\ UNCHANGED <<file, disturbed, pc, pending, operator, session, stored, finish>>

\* The first failure is marked and raised; the executor still waits for the
\* other threads, whose results nobody takes.
TakeFailure(r, n) ==
    /\ At(r, "uploading")
    /\ thread[r][n] = "raised"
    /\ Save(r, MarkFailed(mem[r], n))
    /\ Goto(r, "failing")
    /\ UNCHANGED <<file, disturbed, pending, thread, operator, session, stored, finish>>

\* The threads are done: the failure ends the run, an interrupt saves PAUSED.
Drained(r) ==
    /\ pc[r] \in {"failing", "interrupted"}
    /\ Putting(r) = {}
    /\ IF At(r, "interrupted")
       THEN LeaveSaving(r, MarkLocal(mem[r], "PAUSED"))
       ELSE Leave(r) /\ UNCHANGED manifest
    /\ UNCHANGED <<file, disturbed, operator, session, stored, finish>>

AckRejected == {"COMPLETING", "COMPLETED", "ABORTED"}

\* ack_parts of a batch whose results are all taken; the server believes it.
Acknowledge(r) ==
    /\ At(r, "uploading")
    /\ \A n \in Batch(r) : thread[r][n] = "taken"
    /\ status \notin AckRejected
    /\ rows' = rows \cup Batch(r)
    /\ manifest' = mem[r]
    /\ thread' = [thread EXCEPT ![r] = NoThreads]
    /\ Goto(r, "ready")
    /\ UNCHANGED <<file, disturbed, mem, pending, operator, status, mpu, replayed,
                   stored, finish>>

-----------------------------------------------------------------------------
(* _complete, and the server's complete_upload_session.                     *)

\* The record of the key decides first, then the status.
AskComplete(r) ==
    /\ At(r, "ready")
    /\ pending[r] = {}
    /\ \/ /\ record = "none" /\ status \in {"UPLOADING", "PAUSED"}
          /\ record' = "working"
          /\ status' = "COMPLETING"
          /\ serving' = [for |-> r, step |-> "begun", fallback |-> status]
          /\ Goto(r, "asked")
       \* Answered before: to be replayed, if the ETags reported are the same.
       \/ /\ record = "answered" \/ (record = "none" /\ status = "COMPLETED")
          /\ record' = "answered"
          /\ Goto(r, "told")
          /\ UNCHANGED <<status, serving>>
    /\ UNCHANGED <<local, mem, pending, thread, operator, mpu, rows, replayed, stored>>

Serve(step) == serving' = [serving EXCEPT !.step = step]
NotServing == [for |-> "nobody", step |-> "none", fallback |-> "UPLOADING"]

\* The answer reaches the run if that still waits for it.
Answer(point) ==
    /\ serving' = NotServing
    /\ pc' = [r \in Runs |-> IF r = serving.for /\ At(r, "asked") THEN point ELSE pc[r]]

\* ListParts and CompleteMultipartUpload; if parts are missing the others are
\* marked and the status is put back.
ServerAssembles ==
    /\ serving.step = "begun"
    /\ mpu = "OPEN"
    /\ IF StoredParts = Parts
       THEN mpu' = "COMPLETED" /\ Serve("assembled") /\ UNCHANGED <<status, rows>>
       ELSE /\ status' = serving.fallback
            /\ rows' = Observed
            /\ Serve("incomplete")
            /\ UNCHANGED mpu
    /\ UNCHANGED <<local, memory, operator, replayed, stored, record>>

\* Storage knows no such upload, or fails; the status is put back.
ServerFails ==
    /\ serving.step = "begun"
    /\ status' = serving.fallback
    /\ Serve("failed")
    /\ UNCHANGED <<local, memory, operator, rows, replayed, stored, record>>

ServerCompletes ==
    /\ serving.step = "assembled"
    /\ status' = "COMPLETED"
    /\ record' = "answered"
    /\ Answer("told")
    /\ UNCHANGED <<local, mem, pending, thread, operator, mpu, rows, replayed, stored>>

\* rollback_idempotency_on_failure: the key is free again.
ServerRefuses ==
    /\ serving.step \in {"incomplete", "failed"}
    /\ record' = "none"
    /\ Answer("refused")
    /\ UNCHANGED <<local, mem, pending, thread, operator, session, stored>>

NoteCompleted(r) ==
    /\ At(r, "told")
    /\ LeaveSaving(r, MarkLocal(mem[r], "COMPLETED"))
    /\ UNCHANGED <<file, disturbed, operator, session, stored, finish>>

\* A call the server refuses raises, and the run ends.  (Told of missing parts it
\* would first reconcile; ToldIsAssembled: no run is.)
Refused(r) ==
    /\ \/ At(r, "refused")
       \/ At(r, "checked") /\ ~CanReconcile
       \/ At(r, "ready") /\ pending[r] # {} /\ status # "UPLOADING"
       \/ /\ At(r, "ready") /\ pending[r] = {}
          /\ \/ record \in {"working", "answered"}
             \/ record = "none" /\ status \notin {"UPLOADING", "PAUSED", "COMPLETED"}
       \/ /\ At(r, "uploading") /\ \A n \in Batch(r) : thread[r][n] = "taken"
          /\ status \in AckRejected
    /\ Leave(r)
    /\ UNCHANGED <<local, operator, session, stored, finish>>

-----------------------------------------------------------------------------
(* Faults of a run.                                                         *)

\* The process dies.
Crash(r) ==
    /\ ~At(r, Idle)
    /\ Leave(r)
    /\ UNCHANGED <<local, operator, session, stored, finish>>

\* An answer is lost or times out, after the server may have done what it was
\* asked, and the run ends (resume --no-complete ends it too).
LoseAnswer(r) ==
    /\ \/ pc[r] \in {"loaded", "checked", "ready", "asked", "told"}
       \/ At(r, "uploading") /\ \A n \in Batch(r) : thread[r][n] = "taken"
    /\ \/ UNCHANGED rows
       \/ At(r, "checked") /\ CanReconcile /\ rows' = Reconciled
       \/ At(r, "uploading") /\ status \notin AckRejected /\ rows' = rows \cup Batch(r)
    /\ Leave(r)
    /\ UNCHANGED <<local, operator, status, mpu, replayed, stored, finish>>

\* Ctrl-C while parts are uploaded; elsewhere it is a crash.
Interrupt(r) ==
    /\ pc[r] \in {"ready", "uploading"}
    /\ Goto(r, "interrupted")
    /\ UNCHANGED <<local, mem, pending, thread, operator, session, stored, finish>>

-----------------------------------------------------------------------------
(* The environment.                                                         *)

\* The local file is rewritten; its size stays, its mtime does not.
ChangeFile ==
    /\ file < Versions
    /\ file' = file + 1
    /\ disturbed' = (disturbed \/ \E r \in Runs : ~At(r, Idle))
    /\ UNCHANGED <<manifest, memory, operator, session, stored, finish>>

\* pause and abort --manifest: the server, then the manifest loaded; saved later.
\* A pause that was answered once is answered again without effect.
OperatorPauses ==
    /\ operator = NoManifest
    /\ \/ "pause" \in replayed /\ UNCHANGED <<status, replayed>>
       \/ /\ "pause" \notin replayed
          /\ status \in {"UPLOADING", "PAUSED"}
          /\ status' = "PAUSED"
          /\ replayed' = replayed \cup {"pause"}
    /\ operator' = MarkLocal(manifest, "PAUSED")
    /\ UNCHANGED <<local, memory, mpu, rows, stored, finish>>

OperatorAborts ==
    /\ operator = NoManifest
    /\ status \in {"UPLOADING", "PAUSED", "EXPIRED", "ABORTED"}
    /\ status' = "ABORTED"
    /\ mpu' = IF mpu = "OPEN" THEN "ABORTED" ELSE mpu
    /\ operator' = MarkLocal(manifest, "ABORTED")
    /\ UNCHANGED <<local, memory, rows, replayed, stored, finish>>

OperatorSaves ==
    /\ operator # NoManifest
    /\ manifest' = operator
    /\ operator' = NoManifest
    /\ UNCHANGED <<file, disturbed, memory, session, stored, finish>>

\* resume-session, with one key as well.
OperatorResumes ==
    /\ status = "PAUSED"
    /\ "resume" \notin replayed
    /\ status' = "UPLOADING"
    /\ replayed' = replayed \cup {"resume"}
    /\ UNCHANGED <<local, memory, operator, mpu, rows, stored, finish>>

\* The cleanup worker expires the session, and discards its upload.
Expire ==
    /\ \/ status \in {"UPLOADING", "PAUSED"} /\ status' = "EXPIRED" /\ UNCHANGED mpu
       \/ /\ status = "EXPIRED" /\ status' = "ABORTED"
          /\ mpu' = IF mpu = "OPEN" THEN "ABORTED" ELSE mpu
    /\ UNCHANGED <<local, memory, operator, rows, replayed, stored, finish>>

\* Storage fails the complete, maybe after it has made the object.
StorageFails ==
    /\ mpu' \in {mpu} \cup (IF mpu = "OPEN" /\ StoredParts = Parts THEN {"COMPLETED"} ELSE {})
    /\ ServerFails

\* A failing request with the same key has deleted the record of the complete at
\* work: its second transaction is rolled back, and COMPLETING stays.
AnswerIsGone ==
    /\ serving.step = "assembled"
    /\ record' = "none"
    /\ Answer("refused")
    /\ UNCHANGED <<local, mem, pending, thread, operator, session, stored>>

\* The API process dies: COMPLETING and the record of the key stay.
ServerDies ==
    /\ serving # NotServing
    /\ serving' = NotServing
    /\ UNCHANGED <<local, memory, operator, session, stored, record>>

-----------------------------------------------------------------------------

Init ==
    /\ file = 1
    /\ manifest = NoManifest
    /\ pc = [r \in Runs |-> Idle]
    /\ mem = [r \in Runs |-> NoManifest]
    /\ pending = [r \in Runs |-> {}]
    /\ thread = [r \in Runs |-> NoThreads]
    /\ operator = NoManifest
    /\ status = "UPLOADING"
    /\ mpu = "OPEN"
    /\ stored = [n \in Parts |-> 0]
    /\ rows = {}
    /\ record = "none"
    /\ replayed = {}
    /\ serving = NotServing
    /\ disturbed = FALSE
    /\ faults = 0

\* What a run does by itself, once started.
Work(r) ==
    \/ GetSession(r) \/ Reconcile(r) \/ PresignBatch(r)
    \/ \E n \in Parts : TakeResult(r, n) \/ TakeFailure(r, n)
    \/ \E n \in Parts : mpu # "OPEN" /\ PutRefused(r, n)
    \/ Drained(r) \/ Acknowledge(r) \/ AskComplete(r)
    \/ NoteCompleted(r) \/ Refused(r)

Server ==
    \/ ServerAssembles \/ ServerCompletes \/ ServerRefuses
    \/ mpu # "OPEN" /\ UNCHANGED mpu /\ ServerFails

Ordinary ==
    \/ \E r \in Runs : Load(r, FALSE) \/ Work(r)
    \/ \E r \in Runs, n \in Parts : PutPart(r, n, "returned") \/ PutRefused(r, n)
    \/ Server \/ OperatorSaves \/ OperatorResumes

Fault(r) ==
    \/ Crash(r)
    \/ LoseAnswer(r)
    \/ \E n \in Parts, answer \in {"putting", "raised"} : PutPart(r, n, answer)
    \/ Interrupt(r)
    \/ file # 1 /\ Load(r, TRUE)

Environment ==
    \/ ChangeFile
    \/ OperatorPauses
    \/ OperatorAborts
    \/ Expire
    \/ StorageFails
    \/ AnswerIsGone
    \/ ServerDies

Steadily(Step) == Step /\ UNCHANGED faults

Next ==
    \/ Steadily(Ordinary)
    \/ /\ faults < MaxFaults
       /\ faults' = faults + 1
       /\ (\E r \in Runs : Fault(r)) \/ Environment

Spec == Init /\ [][Next]_vars

\* The user runs resume again and again; a run and the server go on; storage,
\* asked again and again for a part, takes it at last.
FairSpec ==
    /\ Spec
    /\ \A r \in Runs : WF_vars(Steadily(Load(r, FALSE))) /\ WF_vars(Steadily(Work(r)))
    /\ \A r \in Runs, n \in Parts : SF_vars(Steadily(PutPart(r, n, "returned")))
    /\ WF_vars(Steadily(Server))

-----------------------------------------------------------------------------
(* Safety.                                                                  *)

\* "UPLOADING" stands for INITIATED too, which the first presign or ack ends;
\* ABORTING, in which storage discards the upload, is passed over.
SessionStatus == {"UPLOADING", "PAUSED", "COMPLETING", "COMPLETED", "ABORTED",
                  "EXPIRED"}

\* Manifests keep their vocabulary, and a run its place.
TypeOK ==
    /\ file \in 1 .. Versions
    /\ manifest \in Manifest
    /\ pc \in [Runs -> Points]
    /\ mem \in [Runs -> Manifest]
    /\ pending \in [Runs -> SUBSET Parts]
    /\ thread \in [Runs -> [Parts -> ThreadStates]]
    /\ operator \in Manifest
    /\ status \in SessionStatus
    /\ mpu \in {"OPEN", "COMPLETED", "ABORTED"}
    /\ stored \in [Parts -> 0 .. Versions]
    /\ rows \in SUBSET Parts
    /\ record \in {"none", "working", "answered"}
    /\ replayed \in SUBSET {"pause", "resume"}
    /\ serving \in [for: Runs \cup {"nobody"}, fallback: {"UPLOADING", "PAUSED"},
                    step: {"none", "begun", "assembled", "incomplete", "failed"}]
    /\ disturbed \in BOOLEAN
    /\ faults \in 0 .. MaxFaults

\* No resume skips a part that storage does not hold: whatever copies of the
\* manifest overwrite each other, crashes and lost answers leave behind, each
\* part marked in one of them, or by a row the next reconcile will copy, is there.
MarkedIsStored ==
    /\ manifest.uploaded \cup operator.uploaded \cup rows \subseteq StoredParts
    /\ \A r \in Runs : mem[r].uploaded \subseteq StoredParts

\* The user is told COMPLETED, and a manifest says so, only of an upload that
\* storage has assembled, from every part; and a run asks for completion only
\* when the server will find every part.
ToldIsAssembled ==
    /\ (manifest.status = "COMPLETED" \/ \E r \in Runs : At(r, "told"))
            => mpu = "COMPLETED" /\ StoredParts = Parts
    /\ serving.step # "incomplete"

\* Parts of several runs make up one file: unless a run was forced, or worked
\* while the file was rewritten, the object has the bytes the manifest describes.
AssembledIsTheFile ==
    mpu = "COMPLETED" /\ ~disturbed => \A n \in Parts : stored[n] = 1

-----------------------------------------------------------------------------
(* Liveness.                                                                *)

\* The session can be completed: not closed or paused, not left in COMPLETING,
\* nor its key taken, by a server that died or that could not store its answer,
\* nor open again over an object that storage has made after all; and the file is
\* the one the manifest describes.
Completable ==
    /\ status \in {"UPLOADING", "COMPLETING", "COMPLETED"}
    /\ status = "COMPLETING" \/ record = "working" => serving # NotServing
    /\ mpu = "COMPLETED" => status # "UPLOADING"
    /\ file = 1


=============================================================================
