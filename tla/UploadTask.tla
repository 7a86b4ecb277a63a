------------------------------ MODULE UploadTask ------------------------------
(***************************************************************************)
(* The upload tasks of one project: their creation against the quota of     *)
(* open tasks, and the task row that the sessions of one task write         *)
(* together.                                                                *)
(*                                                                         *)
(* A creation counts the open tasks, makes one multipart upload per object   *)
(* in storage, and commits the task with its sessions; nothing is locked    *)
(* between the count and the commit.                                         *)
(*                                                                         *)
(* A session's handler projects its new status onto the task row.  It holds  *)
(* the lock of the SESSION row, never of the task row, which it reads, and   *)
(* writes when it commits; an UPDATE names only columns whose value it       *)
(* changed in memory.  What a session does on its own is UploadSession: here *)
(* any status may follow any other, but a completion is recorded once.       *)
(***************************************************************************)
EXTENDS Naturals, FiniteSets

CONSTANTS
    Tasks,        \* the creation requests, each for one task
    Objects,      \* the objects that requests name
    ObjectsOf,    \* those that each request names
    MaxOpen,      \* settings.max_open_upload_tasks_per_project
    MaxCreating,  \* the creations the API processes work on at a time
    Failing,      \* bound: the creations that may fail
    Driven,       \* bound: the sessions that move after their creation
    Projected     \* bound: the statuses they move to

\* One session for each object of each task.
Sessions == {s \in Tasks \X Objects : s[2] \in ObjectsOf[s[1]]}

SessionStatus == {"INITIATED", "UPLOADING", "PAUSED", "COMPLETING",
                  "COMPLETED", "ABORTING", "ABORTED", "EXPIRED"}

ASSUME TaskAssumption ==
    /\ IsFiniteSet(Tasks)
    /\ IsFiniteSet(Objects)
    /\ ObjectsOf \in [Tasks -> SUBSET Objects]
    /\ MaxOpen \in Nat \ {0}
    /\ MaxCreating \in Nat \ {0}
    /\ Driven \subseteq Sessions
    /\ Projected \subseteq SessionStatus

VARIABLES
    phase,       \* where each creation is
    uploads,     \* the objects whose multipart upload it made in storage
    taskStatus,  \* upload_tasks.status
    count,       \* upload_tasks.completed_object_count
    session,     \* upload_sessions.status of each session
    completed,   \* the sessions whose completion is committed
    projection,  \* the transaction that holds each session's lock
    batch,       \* history: the sessions the cleanup worker took up
    sweep,       \* the worker's unlocked transaction about each session
    left         \* history: tasks that were not open at some time

creation == <<phase, uploads>>
taskRow  == <<taskStatus, count, left>>
lifecycle == <<session, completed, projection, batch, sweep>>
vars == <<creation, taskRow, lifecycle>>

Created == {t \in Tasks : phase[t] = "committed"}

-----------------------------------------------------------------------------
(* The vocabulary of the task row.                                          *)

TaskStatuses == {"PENDING", "PROCESSING", "PAUSED", "COMPLETED", "CANCELLED",
                 "FAILED"}

\* Mutant: the session's expiry taken for a pause.
MutantTaskStatusOf(s) ==
    CASE s = "INITIATED"                 -> "PENDING"
      [] s \in {"UPLOADING", "COMPLETING"} -> "PROCESSING"
      [] s \in {"ABORTING", "ABORTED"}     -> "CANCELLED"
      [] s = "EXPIRED"                   -> "PAUSED"
      [] OTHER                           -> s

\* Mutant: session statuses written through to the task.
MutantPassThrough(s) == IF s = "INITIATED" THEN "PENDING" ELSE s

\* persisted_upload_task_status
TaskStatusOf(s) ==
    CASE s = "INITIATED"                 -> "PENDING"
      [] s \in {"UPLOADING", "COMPLETING"} -> "PROCESSING"
      [] s \in {"ABORTING", "ABORTED"}     -> "CANCELLED"
      [] s = "EXPIRED"                   -> "FAILED"
      [] OTHER                           -> s

\* What the quota counts (with CREATED, which no service writes).
Open == {"PENDING", "PROCESSING", "PAUSED"}

\* Mutant: every session that ended counted.
MutantCounts(s) == s \in {"COMPLETED", "EXPIRED"}

\* The statuses whose projection counts one more completed object.
Counts(s) == s = "COMPLETED"

\* A projection in flight: the session's status, whether the task's status
\* changes with it (from the one read), and the count read if it counts.
Projection == [to: SessionStatus, changes: BOOLEAN, count: Nat]
NoProjection == [to |-> "none"]

Projecting(s, p) == projection' = [projection EXCEPT ![s] = p]
Idle(s) == projection[s] = NoProjection

-----------------------------------------------------------------------------
(* UploadTaskCreationService.create_upload_task.  Its other refusals (the    *)
(* storage policy, bytes, backpressure) change nothing, and the request may  *)
(* come again.                                                              *)

\* Mutant: the limit itself still admitted.
MutantWithinQuota(t) ==
    /\ Cardinality(ObjectsOf[t]) <= MaxOpen
    /\ Cardinality({u \in Created : taskStatus[u] \in Open}) <= MaxOpen

\* _validate_quota_before_storage: the one setting bounds both the objects of
\* a request and the open tasks, which are counted as committed by now.
WithinQuota(t) ==
    /\ Cardinality(ObjectsOf[t]) <= MaxOpen
    /\ Cardinality({u \in Created : taskStatus[u] \in Open}) < MaxOpen

AdmitCreation(t) ==
    /\ phase[t] = "idle"
    /\ Cardinality({u \in Tasks : phase[u] = "creating"}) < MaxCreating
    /\ WithinQuota(t)
    /\ phase' = [phase EXCEPT ![t] = "creating"]
    /\ UNCHANGED <<uploads, taskRow, lifecycle>>

\* provision: the multipart upload of the next object.
InitiateUpload(t, o) ==
    /\ phase[t] = "creating"
    /\ o \notin uploads[t]
    /\ uploads' = [uploads EXCEPT ![t] = @ \cup {o}]
    /\ UNCHANGED <<phase, taskRow, lifecycle>>

\* Storage fails (perhaps only its answer is lost), or the process dies, or the
\* commit: the rows are rolled back, and nothing removes the uploads.
FailCreation(t) ==
    /\ phase[t] = "creating"
    /\ phase' = [phase EXCEPT ![t] = "failed"]
    /\ UNCHANGED <<uploads, taskRow, lifecycle>>

CommitCreation(t) ==
    /\ phase[t] = "creating"
    /\ uploads[t] = ObjectsOf[t]
    /\ phase' = [phase EXCEPT ![t] = "committed"]
    /\ UNCHANGED <<uploads, taskRow, lifecycle>>

-----------------------------------------------------------------------------
(* The sessions of a committed task.                                        *)

\* A handler has locked its session, sets the status, and reads the task row.
\* The worker expires what is still waiting; a completion follows an assembly,
\* of which there is one (CompletedOnce of UploadSession).
BeginProjection(s, to) ==
    /\ s[1] \in Created
    /\ Idle(s)
    /\ to = "EXPIRED" => session[s] \in {"INITIATED", "UPLOADING", "PAUSED"}
    /\ to = "COMPLETED" => s \notin completed
    /\ Projecting(s, [to |-> to, changes |-> TaskStatusOf(to) # taskStatus[s[1]],
                      count |-> IF Counts(to) THEN count[s[1]] ELSE 0])
    /\ UNCHANGED <<creation, taskRow, session, completed, batch, sweep>>

\* The UPDATE of the task row: a column keeps what others wrote to it meanwhile
\* if its value did not change in memory.
WriteTaskStatus(t, status, changes) ==
    /\ taskStatus' = IF changes THEN [taskStatus EXCEPT ![t] = status]
                     ELSE taskStatus
    /\ left' = IF taskStatus'[t] \in Open THEN left ELSE left \cup {t}

WriteCount(t, read) ==
    LET next == IF read + 1 < Cardinality(ObjectsOf[t])
                THEN read + 1 ELSE Cardinality(ObjectsOf[t])
    IN  count' = IF next = read THEN count ELSE [count EXCEPT ![t] = next]

CommitProjection(s) ==
    LET p == projection[s]
        t == s[1]
    IN  /\ ~Idle(s)
        /\ session' = [session EXCEPT ![s] = p.to]
        /\ WriteTaskStatus(t, TaskStatusOf(p.to), p.changes)
        /\ IF Counts(p.to) THEN WriteCount(t, p.count) ELSE UNCHANGED count
        /\ completed' = IF p.to = "COMPLETED" THEN completed \cup {s} ELSE completed
        /\ Projecting(s, NoProjection)
        /\ UNCHANGED <<creation, batch, sweep>>

\* The request fails or its process dies before the commit.
RollBackProjection(s) ==
    /\ ~Idle(s)
    /\ Projecting(s, NoProjection)
    /\ UNCHANGED <<creation, taskRow, session, completed, batch, sweep>>

\* Presigning and acknowledging promote a session loaded as INITIATED without
\* the lock, and project nothing.
Promote(s) ==
    /\ s[1] \in Created
    /\ session' = [session EXCEPT ![s] = "UPLOADING"]
    /\ UNCHANGED <<creation, taskRow, completed, projection, batch, sweep>>

\* abort_expired_multipart_uploads selects the session; the lock it takes ends
\* with the first commit of its batch.
TakeUp(s) ==
    /\ session[s] \in {"EXPIRED", "ABORTING"}
    /\ batch' = batch \cup {s}
    /\ UNCHANGED <<creation, taskRow, session, completed, projection, sweep>>

\* Its turn comes, before or after the storage call, and whatever the session
\* shows by then: the worker reads the task row to write ABORTING or ABORTED,
\* which mean the same to it.
BeginSweep(s) ==
    /\ s \in batch
    /\ sweep[s] = "none"
    /\ sweep' = [sweep EXCEPT ![s] = IF taskStatus[s[1]] = "CANCELLED"
                                     THEN "keeps" ELSE "changes"]
    /\ UNCHANGED <<creation, taskRow, session, completed, projection, batch>>

CommitSweep(s, to) ==
    /\ sweep[s] # "none"
    /\ session' = [session EXCEPT ![s] = to]
    /\ WriteTaskStatus(s[1], TaskStatusOf(to), sweep[s] = "changes")
    /\ sweep' = [sweep EXCEPT ![s] = "none"]
    /\ UNCHANGED <<creation, count, completed, projection, batch>>

\* The discard failed: ABORTING is written again, and nothing projected.
SweepFails(s) ==
    /\ s \in batch
    /\ session' = [session EXCEPT ![s] = "ABORTING"]
    /\ sweep' = [sweep EXCEPT ![s] = "none"]
    /\ UNCHANGED <<creation, taskRow, completed, projection, batch>>

-----------------------------------------------------------------------------

\* What create_upload_task commits is here from the start, and shows once the
\* task is Created.
Init ==
    /\ phase = [t \in Tasks |-> "idle"]
    /\ uploads = [t \in Tasks |-> {}]
    /\ taskStatus = [t \in Tasks |-> "PENDING"]
    /\ count = [t \in Tasks |-> 0]
    /\ session = [s \in Sessions |-> "INITIATED"]
    /\ completed = {}
    /\ projection = [s \in Sessions |-> NoProjection]
    /\ batch = {}
    /\ sweep = [s \in Sessions |-> "none"]
    /\ left = {}

Create(t) ==
    \/ AdmitCreation(t)
    \/ \E o \in ObjectsOf[t] : InitiateUpload(t, o)
    \/ t \in Failing /\ FailCreation(t)
    \/ CommitCreation(t)

Drive(s) ==
    \/ \E to \in Projected : BeginProjection(s, to)
    \/ CommitProjection(s)
    \/ RollBackProjection(s)
    \/ Promote(s)
    \/ TakeUp(s)
    \/ BeginSweep(s)
    \/ \E to \in {"ABORTING", "ABORTED"} : CommitSweep(s, to)
    \/ SweepFails(s)

Next ==
    \/ \E t \in Tasks : Create(t)
    \/ \E s \in Driven : Drive(s)

Spec == Init /\ [][Next]_vars

-----------------------------------------------------------------------------
(* Safety.                                                                  *)

\* Every column keeps its vocabulary, and memory its shape.
TypeOK ==
    /\ phase \in [Tasks -> {"idle", "creating", "committed", "failed"}]
    /\ uploads \in [Tasks -> SUBSET Objects]
    /\ taskStatus \in [Tasks -> TaskStatuses]
    /\ count \in [Tasks -> Nat]
    /\ session \in [Sessions -> SessionStatus]
    /\ completed \in SUBSET Sessions
    /\ projection \in [Sessions -> Projection \cup {NoProjection}]
    /\ batch \in SUBSET Sessions
    /\ sweep \in [Sessions -> {"none", "keeps", "changes"}]
    /\ left \in SUBSET Tasks

Counted(t) == {o \in ObjectsOf[t] : <<t, o>> \in completed}

\* Projections of a task's sessions overwrite each other's count, so that it may
\* fall or miss an object; but it never shows one that was not completed, and
\* never none once one was: it is exact for a task of one object.
CountInRange ==
    \A t \in Tasks :
        /\ count[t] <= Cardinality(Counted(t))
        /\ Counted(t) # {} => count[t] # 0

\* A task whose sessions have all ended stops counting against the quota, in
\* whatever order their projections read and wrote its row.  Sessions the worker
\* took up are not covered: its unlocked projection may lose to a late resume.
Ended == {"COMPLETED", "ABORTED", "ABORTING", "EXPIRED"}

EndedTaskIsClosed ==
    \A t \in Created :
        (/\ ObjectsOf[t] # {}
         /\ \A o \in ObjectsOf[t] :
                session[<<t, o>>] \in Ended /\ <<t, o>> \notin batch)
            => taskStatus[t] \notin Open

\* Creations race past the quota, but only those in flight together: the tasks
\* open ever since their creation exceed it by less than MaxCreating.  (Tasks
\* that a resumed session reopens are not limited at all.)
OvershootIsBounded ==
    Cardinality(Created \ left) <= MaxOpen - 1 + MaxCreating

=============================================================================
