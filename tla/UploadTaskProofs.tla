--------------------------- MODULE UploadTaskProofs ---------------------------
(***************************************************************************)
(* Proofs about UploadTask for any number of tasks, objects and creations,   *)
(* any quota, and any choice of the sessions that move and what they write.  *)
(***************************************************************************)
EXTENDS UploadTask, FiniteSetTheorems, TLAPS

Creating == {t \in Tasks : phase[t] = "creating"}

\* A count in flight was read while its session was not among those counted.
CountsAreOfOthers ==
    \A s \in Sessions : ~Idle(s) /\ Counts(projection[s].to) =>
        /\ projection[s].count <= Cardinality(Counted(s[1]))
        /\ s \notin completed

\* The session ends, and its projection will not write the task's status.
EndsSilently(s) ==
    ~Idle(s) /\ projection[s].to \in Ended /\ ~projection[s].changes

\* An open task has a session that is still to close it: one that has not ended
\* (or that the worker may have ended) and is not ending silently.
OpenHasReason ==
    \A t \in Tasks : ObjectsOf[t] # {} /\ taskStatus[t] \in Open =>
        \E o \in ObjectsOf[t] :
            /\ session[<<t, o>>] \notin Ended \/ <<t, o>> \in batch
            /\ ~EndsSilently(<<t, o>>)

SweepsAreOfBatch == \A s \in Sessions : sweep[s] # "none" => s \in batch

OpenUnlessLeft == \A t \in Tasks : t \notin left => taskStatus[t] \in Open

\* The quota: what was admitted and not yet failed, open or on its way.
AdmittedIsBounded ==
    Cardinality(Created \ left) + Cardinality(Creating) <= MaxOpen - 1 + MaxCreating

IInv ==
    /\ TypeOK
    /\ CountInRange /\ CountsAreOfOthers
    /\ OpenHasReason /\ SweepsAreOfBatch
    /\ OpenUnlessLeft /\ AdmittedIsBounded

-----------------------------------------------------------------------------

\* A session's status maps to a task status, which is open until the session ends.
LEMMA Vocabulary ==
  ASSUME NEW s \in SessionStatus
  PROVE  /\ TaskStatusOf(s) \in TaskStatuses
         /\ TaskStatusOf(s) \in Open <=> s \notin Ended
BY DEF SessionStatus, TaskStatusOf, TaskStatuses, Open, Ended

LEMMA NoProjectionIsNone == NoProjection \notin Projection
<1> SUFFICES ASSUME NoProjection \in Projection PROVE FALSE
  OBVIOUS
<1>1. NoProjection.to \in SessionStatus
  BY DEF Projection
<1>2. NoProjection.to = "none"
  BY DEF NoProjection
<1> QED
  BY <1>1, <1>2 DEF SessionStatus

LEMMA InFlight ==
  ASSUME TypeOK, NEW s \in Sessions, ~Idle(s)
  PROVE  /\ projection[s] \in Projection
         /\ projection[s].to \in SessionStatus
         /\ projection[s].changes \in BOOLEAN
         /\ projection[s].count \in Nat
<1>1. projection[s] \in Projection
  BY DEF TypeOK, Idle
<1> QED
  BY <1>1 DEF Projection

LEMMA SessionParts ==
  ASSUME NEW s \in Sessions
  PROVE  /\ s[1] \in Tasks
         /\ s[2] \in ObjectsOf[s[1]]
         /\ s = <<s[1], s[2]>>
BY DEF Sessions

LEMMA SessionOfObject ==
  ASSUME NEW t \in Tasks, NEW o \in ObjectsOf[t]
  PROVE  <<t, o>> \in Sessions
<1>1. o \in Objects
  BY TaskAssumption
<1> QED
  BY <1>1 DEF Sessions

\* The objects of a task, and those counted, are finitely many.
LEMMA CountedFinite ==
  ASSUME NEW t \in Tasks
  PROVE  /\ IsFiniteSet(ObjectsOf[t])
         /\ Cardinality(ObjectsOf[t]) \in Nat
         /\ IsFiniteSet(Counted(t))
         /\ Cardinality(Counted(t)) \in Nat
         /\ Cardinality(Counted(t)) <= Cardinality(ObjectsOf[t])
<1>1. IsFiniteSet(ObjectsOf[t])
  BY TaskAssumption, FS_Subset
<1>2. Counted(t) \in SUBSET ObjectsOf[t]
  BY DEF Counted
<1>3. IsFiniteSet(Counted(t)) /\ Cardinality(Counted(t)) <= Cardinality(ObjectsOf[t])
  BY <1>1, <1>2, FS_Subset
<1> QED
  BY <1>1, <1>3, FS_CardinalityType

-----------------------------------------------------------------------------
(* Type correctness.                                                        *)

LEMMA InitTyped == Init => TypeOK
BY DEF Init, TypeOK, TaskStatuses, SessionStatus, Projection

LEMMA CreateTyped ==
  ASSUME TypeOK, NEW t \in Tasks, Create(t)
  PROVE  TypeOK'
<1> USE DEF taskRow, lifecycle
<1>1. CASE AdmitCreation(t)
  BY <1>1 DEF TypeOK, AdmitCreation
<1>2. ASSUME NEW o \in ObjectsOf[t], InitiateUpload(t, o)
      PROVE  TypeOK'
  <2>1. o \in Objects
    BY TaskAssumption
  <2>2. uploads' \in [Tasks -> SUBSET Objects]
    BY <1>2, <2>1 DEF TypeOK, InitiateUpload
  <2> QED
    BY <1>2, <2>2 DEF TypeOK, InitiateUpload
<1>3. CASE FailCreation(t)
  BY <1>3 DEF TypeOK, FailCreation
<1>4. CASE CommitCreation(t)
  BY <1>4 DEF TypeOK, CommitCreation
<1> QED
  BY <1>1, <1>2, <1>3, <1>4 DEF Create

\* Writing the task's status keeps its vocabulary.
LEMMA WriteTyped ==
  ASSUME TypeOK, NEW t \in Tasks, NEW status \in TaskStatuses, NEW changes \in BOOLEAN,
         WriteTaskStatus(t, status, changes)
  PROVE  taskStatus' \in [Tasks -> TaskStatuses] /\ left' \in SUBSET Tasks
BY DEF TypeOK, WriteTaskStatus

LEMMA CountTyped ==
  ASSUME TypeOK, NEW t \in Tasks, NEW n \in Nat, WriteCount(t, n)
  PROVE  count' \in [Tasks -> Nat]
<1>1. Cardinality(ObjectsOf[t]) \in Nat
  BY CountedFinite
<1> QED
  BY <1>1 DEF TypeOK, WriteCount

LEMMA BeginTyped ==
  ASSUME TypeOK, NEW s \in Sessions, NEW to \in Projected, BeginProjection(s, to)
  PROVE  TypeOK'
<1> DEFINE p == [to |-> to, changes |-> TaskStatusOf(to) # taskStatus[s[1]],
                 count |-> IF Counts(to) THEN count[s[1]] ELSE 0]
<1>1. s[1] \in Tasks
  BY SessionParts
<1>2. p.count \in Nat /\ p.changes \in BOOLEAN /\ p.to \in SessionStatus
  BY <1>1, TaskAssumption DEF TypeOK
<1>3. p \in Projection
  BY <1>2 DEF Projection
<1>4. projection' = [projection EXCEPT ![s] = p]
  BY DEF BeginProjection, Projecting
<1> HIDE DEF p
<1>5. projection' \in [Sessions -> Projection \cup {NoProjection}]
  BY <1>3, <1>4 DEF TypeOK
<1> QED
  BY <1>5 DEF TypeOK, BeginProjection, creation, taskRow

LEMMA CommitTyped ==
  ASSUME TypeOK, NEW s \in Sessions, CommitProjection(s)
  PROVE  TypeOK'
<1> DEFINE p == projection[s]
<1>1. s[1] \in Tasks
  BY SessionParts
<1>2. p.to \in SessionStatus /\ p.changes \in BOOLEAN /\ p.count \in Nat
  BY InFlight DEF CommitProjection
<1>3. TaskStatusOf(p.to) \in TaskStatuses
  BY <1>2, Vocabulary
<1>4. taskStatus' \in [Tasks -> TaskStatuses] /\ left' \in SUBSET Tasks
  BY <1>1, <1>2, <1>3, WriteTyped DEF CommitProjection
<1>5. count' \in [Tasks -> Nat]
  BY <1>1, <1>2, CountTyped DEF CommitProjection, TypeOK
<1>6. session' \in [Sessions -> SessionStatus]
  BY <1>2 DEF CommitProjection, TypeOK
<1>7. projection' \in [Sessions -> Projection \cup {NoProjection}]
  BY DEF CommitProjection, Projecting, TypeOK
<1>8. completed' \in SUBSET Sessions
  BY DEF CommitProjection, TypeOK
<1> QED
  BY <1>4, <1>5, <1>6, <1>7, <1>8 DEF TypeOK, CommitProjection, creation

LEMMA DriveTyped ==
  ASSUME TypeOK, NEW s \in Sessions, Drive(s)
  PROVE  TypeOK'
<1> USE DEF creation, taskRow
<1>1. CASE \E to \in Projected : BeginProjection(s, to)
  BY <1>1, BeginTyped
<1>2. CASE CommitProjection(s)
  BY <1>2, CommitTyped
<1>3. CASE RollBackProjection(s)
  BY <1>3 DEF TypeOK, RollBackProjection, Projecting
<1>4. CASE Promote(s)
  BY <1>4 DEF TypeOK, Promote, SessionStatus
<1>5. CASE TakeUp(s)
  BY <1>5 DEF TypeOK, TakeUp
<1>6. CASE BeginSweep(s)
  BY <1>6 DEF TypeOK, BeginSweep
<1>7. ASSUME NEW to \in {"ABORTING", "ABORTED"}, CommitSweep(s, to)
      PROVE  TypeOK'
  <2>1. s[1] \in Tasks
    BY SessionParts
  <2>2. to \in SessionStatus
    BY DEF SessionStatus
  <2>3. taskStatus' \in [Tasks -> TaskStatuses] /\ left' \in SUBSET Tasks
    BY <1>7, <2>1, <2>2, Vocabulary, WriteTyped DEF CommitSweep
  <2> QED
    BY <1>7, <2>2, <2>3 DEF TypeOK, CommitSweep
<1>8. CASE SweepFails(s)
  BY <1>8 DEF TypeOK, SweepFails, SessionStatus
<1> QED
  BY <1>1, <1>2, <1>3, <1>4, <1>5, <1>6, <1>7, <1>8 DEF Drive

LEMMA StepTyped == TypeOK /\ [Next]_vars => TypeOK'
<1> SUFFICES ASSUME TypeOK, [Next]_vars PROVE TypeOK'
  OBVIOUS
<1>1. CASE UNCHANGED vars
  BY <1>1 DEF TypeOK, vars, creation, taskRow, lifecycle
<1>2. CASE Next
  BY <1>2, CreateTyped, DriveTyped, TaskAssumption DEF Next
<1> QED
  BY <1>1, <1>2

-----------------------------------------------------------------------------
(* The count of completed objects.                                          *)

CountIsHeld == CountInRange /\ CountsAreOfOthers

LEMMA InitCounts == Init => CountIsHeld
<1> SUFFICES ASSUME Init PROVE CountIsHeld
  OBVIOUS
<1>1. CountInRange
  <2>1. \A t \in Tasks : Counted(t) = {} /\ count[t] = 0
    BY DEF Init, Counted
  <2> QED
    BY <2>1, CountedFinite DEF CountInRange
<1>2. CountsAreOfOthers
  BY DEF Init, CountsAreOfOthers, Idle
<1> QED
  BY <1>1, <1>2 DEF CountIsHeld

\* Steps that neither count, nor complete, nor read the count.
LEMMA CountUntouched ==
  ASSUME CountIsHeld, UNCHANGED <<count, completed, projection>>
  PROVE  CountIsHeld'
BY DEF CountIsHeld, CountInRange, CountsAreOfOthers, Idle, Counted

LEMMA BeginCounts ==
  ASSUME TypeOK, CountIsHeld, NEW s \in Sessions, NEW to \in Projected,
         BeginProjection(s, to)
  PROVE  CountIsHeld'
<1>1. CountInRange'
  BY DEF CountIsHeld, CountInRange, Counted, BeginProjection, taskRow
<1>2. \A u \in Sessions : u # s => projection'[u] = projection[u]
  BY DEF BeginProjection, Projecting, TypeOK
<1>3. /\ projection'[s].to = to
      /\ Counts(to) => projection'[s].count = count[s[1]]
  BY DEF BeginProjection, Projecting, TypeOK
<1>4. Counts(to) => s \notin completed
  BY DEF BeginProjection, Counts
<1>5. count[s[1]] <= Cardinality(Counted(s[1]))
  BY SessionParts DEF CountIsHeld, CountInRange
<1>6. CountsAreOfOthers'
  BY <1>2, <1>3, <1>4, <1>5
     DEF CountIsHeld, CountsAreOfOthers, Idle, Counted, BeginProjection
<1> QED
  BY <1>1, <1>6 DEF CountIsHeld

\* A session completed for the first time adds one to the counted of its task.
LEMMA CountedGrows ==
  ASSUME NEW s \in Sessions, completed' = completed \cup {s}
  PROVE  /\ \A t \in Tasks : Cardinality(Counted(t)) <= Cardinality(Counted(t)')
         /\ s \notin completed =>
               Cardinality(Counted(s[1])') = Cardinality(Counted(s[1])) + 1
<1>1. \A t \in Tasks : t # s[1] => Counted(t)' = Counted(t)
  BY DEF Counted
<1>2. Counted(s[1])' = Counted(s[1]) \cup {s[2]}
  BY SessionParts DEF Counted
<1>3. s \notin completed => s[2] \notin Counted(s[1])
  BY SessionParts DEF Counted
<1>4. s[1] \in Tasks /\ IsFiniteSet(Counted(s[1])) /\ Cardinality(Counted(s[1])) \in Nat
  BY SessionParts, CountedFinite
<1>5. Cardinality(Counted(s[1])') = IF s[2] \in Counted(s[1])
                                    THEN Cardinality(Counted(s[1]))
                                    ELSE Cardinality(Counted(s[1])) + 1
  BY <1>2, <1>4, FS_AddElement
<1>6. \A t \in Tasks : Cardinality(Counted(t)) \in Nat
  BY CountedFinite
<1> QED
  BY <1>1, <1>3, <1>4, <1>5, <1>6

\* What a projection writes is one more than it read, if it read less than all.
LEMMA WriteCountBound ==
  ASSUME TypeOK, NEW t \in Tasks, NEW n \in Nat, WriteCount(t, n),
         n < Cardinality(ObjectsOf[t])
  PROVE  /\ count'[t] = n + 1
         /\ \A u \in Tasks : u # t => count'[u] = count[u]
<1> DEFINE c == Cardinality(ObjectsOf[t])
           next == IF n + 1 < c THEN n + 1 ELSE c
<1>1. c \in Nat
  BY CountedFinite
<1>2. next = n + 1 /\ next # n
  BY <1>1
<1>3. count' = IF next = n THEN count ELSE [count EXCEPT ![t] = next]
  BY DEF WriteCount
<1> HIDE DEF next
<1> QED
  BY <1>2, <1>3 DEF TypeOK

LEMMA CommitCounts ==
  ASSUME TypeOK, CountIsHeld, NEW s \in Sessions, CommitProjection(s)
  PROVE  CountIsHeld'
<1> DEFINE p == projection[s]
           t == s[1]
<1>1. t \in Tasks /\ p.count \in Nat
  BY SessionParts, InFlight DEF CommitProjection
<1>2. \A u \in Sessions : projection'[u] = IF u = s THEN NoProjection ELSE projection[u]
  BY DEF CommitProjection, Projecting, TypeOK
<1>3. \A u \in Sessions : ~Idle(u)' => u # s /\ ~Idle(u)
  BY <1>2 DEF Idle
<1>4. CASE ~Counts(p.to)
  <2>1. count' = count /\ completed' = completed
    BY <1>4 DEF CommitProjection, Counts
  <2> QED
    BY <1>2, <1>3, <2>1 DEF CountIsHeld, CountInRange, CountsAreOfOthers, Counted
<1>5. CASE Counts(p.to)
  <2>1. completed' = completed \cup {s} /\ WriteCount(t, p.count)
    BY <1>5 DEF CommitProjection, Counts
  <2>2. s \notin completed /\ p.count <= Cardinality(Counted(t))
    BY <1>5 DEF CommitProjection, CountIsHeld, CountsAreOfOthers
  <2>3. /\ \A u \in Tasks : Cardinality(Counted(u)) <= Cardinality(Counted(u)')
        /\ Cardinality(Counted(t)') = Cardinality(Counted(t)) + 1
    BY <2>1, <2>2, CountedGrows
  <2>4. \A u \in Tasks : Cardinality(Counted(u)) \in Nat /\ Cardinality(Counted(u)') \in Nat
    <3>1. \A u \in Tasks : Cardinality(Counted(u)) \in Nat
      BY CountedFinite
    <3>2. \A u \in Tasks : Counted(u)' \in SUBSET ObjectsOf[u]
      BY DEF Counted
    <3> QED
      BY <3>1, <3>2, CountedFinite, FS_Subset, FS_CardinalityType
  <2>5. p.count < Cardinality(ObjectsOf[t])
    <3>1. Counted(t)' \in SUBSET ObjectsOf[t]
      BY DEF Counted
    <3>2. Cardinality(Counted(t)') <= Cardinality(ObjectsOf[t])
      BY <1>1, <3>1, CountedFinite, FS_Subset
    <3> QED
      BY <1>1, <2>2, <2>3, <2>4, <3>2, CountedFinite
  <2>6. count'[t] = p.count + 1
    BY <1>1, <2>1, <2>5, WriteCountBound
  <2>7. \A u \in Tasks : u # t => count'[u] = count[u]
    BY <1>1, <2>1, <2>5, WriteCountBound
  <2>8. \A u \in Tasks : count[u] \in Nat /\ count[u] <= Cardinality(Counted(u))
    BY DEF CountIsHeld, CountInRange, TypeOK
  <2>9. \A u \in Tasks : count'[u] <= Cardinality(Counted(u)')
    BY <1>1, <2>2, <2>3, <2>4, <2>6, <2>7, <2>8
  <2>10. CountInRange'
    <3>1. \A u \in Tasks : u # t => Counted(u)' = Counted(u)
      BY <2>1 DEF Counted
    <3>2. \A u \in Tasks : Counted(u)' # {} => count'[u] # 0
      BY <1>1, <2>6, <2>7, <3>1 DEF CountIsHeld, CountInRange
    <3> QED
      BY <2>9, <3>2 DEF CountInRange
  <2>11. \A u \in Sessions : u # s => (u \in completed' <=> u \in completed)
    BY <2>1
  <2>12. ASSUME NEW u \in Sessions, ~Idle(u)', Counts(projection[u].to)'
         PROVE  projection'[u].count <= Cardinality(Counted(u[1])') /\ u \notin completed'
    <3>1. u # s /\ ~Idle(u) /\ projection'[u] = projection[u]
      BY <1>2, <1>3, <2>12
    <3>2. /\ projection[u].count \in Nat
          /\ projection[u].count <= Cardinality(Counted(u[1]))
          /\ u \notin completed
      BY <2>12, <3>1, InFlight DEF CountIsHeld, CountsAreOfOthers, Counts
    <3>3. u[1] \in Tasks
      BY SessionParts
    <3> QED
      BY <2>3, <2>4, <2>11, <3>1, <3>2, <3>3
  <2>13. CountsAreOfOthers'
    BY <2>12 DEF CountsAreOfOthers
  <2> QED
    BY <2>10, <2>13 DEF CountIsHeld
<1> QED
  BY <1>4, <1>5

LEMMA StepCounts == TypeOK /\ CountIsHeld /\ [Next]_vars => CountIsHeld'
<1> SUFFICES ASSUME TypeOK, CountIsHeld, [Next]_vars PROVE CountIsHeld'
  OBVIOUS
<1> USE DEF taskRow, lifecycle
<1>1. CASE UNCHANGED vars
  BY <1>1, CountUntouched DEF vars
<1>2. ASSUME NEW t \in Tasks, Create(t) PROVE CountIsHeld'
  BY <1>2, CountUntouched
     DEF Create, AdmitCreation, InitiateUpload, FailCreation, CommitCreation
<1>3. ASSUME NEW s \in Sessions, Drive(s) PROVE CountIsHeld'
  <2>1. CASE \E to \in Projected : BeginProjection(s, to)
    BY <2>1, BeginCounts
  <2>2. CASE CommitProjection(s)
    BY <2>2, CommitCounts
  <2>3. CASE RollBackProjection(s)
    <3>1. \A u \in Sessions : ~Idle(u)' => ~Idle(u) /\ projection'[u] = projection[u]
      BY <2>3 DEF RollBackProjection, Projecting, Idle, TypeOK
    <3> QED
      BY <2>3, <3>1
         DEF CountIsHeld, CountInRange, CountsAreOfOthers, Counted, RollBackProjection
  <2>4. CASE Promote(s) \/ TakeUp(s) \/ BeginSweep(s) \/ SweepFails(s)
             \/ \E to \in {"ABORTING", "ABORTED"} : CommitSweep(s, to)
    BY <2>4, CountUntouched DEF Promote, TakeUp, BeginSweep, SweepFails, CommitSweep
  <2> QED
    BY <1>3, <2>1, <2>2, <2>3, <2>4 DEF Drive
<1> QED
  BY <1>1, <1>2, <1>3, TaskAssumption DEF Next

-----------------------------------------------------------------------------
(* An open task has a reason to be open.                                    *)

OpenIsHeld == OpenHasReason /\ SweepsAreOfBatch /\ OpenUnlessLeft

\* A session because of which its task may be open.
Reason(s) == (session[s] \notin Ended \/ s \in batch) /\ ~EndsSilently(s)

LEMMA InitOpen == Init => OpenIsHeld
BY SessionOfObject
   DEF Init, OpenIsHeld, OpenHasReason, SweepsAreOfBatch, OpenUnlessLeft, Open, Ended,
       EndsSilently, Idle

\* A step that writes no task, and leaves every reason a reason.
LEMMA ReasonsStay ==
  ASSUME OpenHasReason, UNCHANGED taskStatus,
         \A s \in Sessions : Reason(s) => Reason(s)'
  PROVE  OpenHasReason'
BY SessionOfObject DEF OpenHasReason, Reason

\* A step that writes the task of one session, s, closes it or leaves it as it
\* is; the other sessions stay as they are, and so does s if the task is open.
LEMMA WriteKeepsReason ==
  ASSUME TypeOK, OpenHasReason, NEW s \in Sessions, NEW status \in TaskStatuses,
         NEW changes \in BOOLEAN,
         WriteTaskStatus(s[1], status, changes),
         \A u \in Sessions : u # s => (Reason(u) => Reason(u)'),
         changes /\ status \in Open => Reason(s)',
         ~changes => Reason(s)' \/ ~Reason(s)
  PROVE  OpenHasReason'
<1> SUFFICES ASSUME NEW t \in Tasks, ObjectsOf[t] # {}, taskStatus'[t] \in Open
             PROVE  \E o \in ObjectsOf[t] : Reason(<<t, o>>)'
  BY DEF OpenHasReason, Reason
<1>1. s[1] \in Tasks /\ s[2] \in ObjectsOf[s[1]] /\ s = <<s[1], s[2]>>
  BY SessionParts
<1>2. CASE t = s[1] /\ changes
  <2>1. taskStatus'[t] = status
    BY <1>1, <1>2 DEF WriteTaskStatus, TypeOK
  <2> QED
    BY <1>1, <1>2, <2>1
<1>3. CASE ~(t = s[1] /\ changes)
  <2>1. taskStatus'[t] = taskStatus[t]
    BY <1>1, <1>3 DEF WriteTaskStatus, TypeOK
  <2>2. PICK o \in ObjectsOf[t] : Reason(<<t, o>>)
    BY <2>1 DEF OpenHasReason, Reason
  <2>3. <<t, o>> \in Sessions
    BY SessionOfObject
  <2>4. CASE <<t, o>> # s
    BY <2>2, <2>3, <2>4
  <2>5. CASE <<t, o>> = s
    <3>1. t = s[1]
      BY <2>5
    <3> QED
      BY <1>3, <2>2, <2>5, <3>1
  <2> QED
    BY <2>4, <2>5
<1> QED
  BY <1>2, <1>3

\* Writing a task's status keeps track of the tasks that were not open.
LEMMA WriteTracksLeft ==
  ASSUME TypeOK, OpenUnlessLeft, NEW t \in Tasks, NEW status, NEW changes,
         WriteTaskStatus(t, status, changes)
  PROVE  OpenUnlessLeft'
BY DEF OpenUnlessLeft, WriteTaskStatus, TypeOK

LEMMA BeginOpen ==
  ASSUME TypeOK, OpenIsHeld, NEW s \in Sessions, NEW to \in Projected,
         BeginProjection(s, to)
  PROVE  OpenIsHeld'
<1>1. /\ \A u \in Sessions : u # s => projection'[u] = projection[u]
      /\ projection'[s].to = to
      /\ projection'[s].changes = (TaskStatusOf(to) # taskStatus[s[1]])
  BY DEF BeginProjection, Projecting, TypeOK
<1>2. UNCHANGED <<taskStatus, session, batch, sweep, left>>
  BY DEF BeginProjection, taskRow
<1>3. OpenHasReason'
  <2> SUFFICES ASSUME NEW t \in Tasks, ObjectsOf[t] # {}, taskStatus[t] \in Open
               PROVE  \E o \in ObjectsOf[t] : Reason(<<t, o>>)'
    BY <1>2 DEF OpenHasReason, Reason
  <2>1. PICK o \in ObjectsOf[t] : Reason(<<t, o>>)
    BY DEF OpenIsHeld, OpenHasReason, Reason
  <2>2. <<t, o>> \in Sessions
    BY SessionOfObject
  <2>3. CASE <<t, o>> # s
    BY <1>1, <1>2, <2>1, <2>2, <2>3 DEF Reason, EndsSilently, Idle
  <2>4. CASE <<t, o>> = s
    <3>1. to \in SessionStatus /\ s[1] = t
      BY <2>4, TaskAssumption
    <3>2. to \in Ended => projection'[s].changes
      BY <1>1, <3>1, Vocabulary
    <3> QED
      BY <1>1, <1>2, <2>1, <2>4, <3>2 DEF Reason, EndsSilently
  <2> QED
    BY <2>3, <2>4
<1> QED
  BY <1>2, <1>3 DEF OpenIsHeld, SweepsAreOfBatch, OpenUnlessLeft

LEMMA CommitOpen ==
  ASSUME TypeOK, OpenIsHeld, NEW s \in Sessions, CommitProjection(s)
  PROVE  OpenIsHeld'
<1> DEFINE p == projection[s]
<1>1. p.to \in SessionStatus /\ p.changes \in BOOLEAN /\ s[1] \in Tasks /\ ~Idle(s)
  BY InFlight, SessionParts DEF CommitProjection
<1>2. TaskStatusOf(p.to) \in TaskStatuses /\ (TaskStatusOf(p.to) \in Open <=> p.to \notin Ended)
  BY <1>1, Vocabulary
<1>3. WriteTaskStatus(s[1], TaskStatusOf(p.to), p.changes)
  BY DEF CommitProjection
<1>4. /\ \A u \in Sessions : u # s => /\ projection'[u] = projection[u]
                                       /\ session'[u] = session[u]
      /\ projection'[s] = NoProjection
      /\ session'[s] = p.to
      /\ UNCHANGED <<batch, sweep>>
  BY DEF CommitProjection, Projecting, TypeOK
<1>5. \A u \in Sessions : u # s => (Reason(u) => Reason(u)')
  BY <1>4 DEF Reason, EndsSilently, Idle
<1>6. p.to \notin Ended => Reason(s)'
  BY <1>4 DEF Reason, EndsSilently, Idle
<1>7. p.to \in Ended /\ ~p.changes => ~Reason(s)
  BY <1>1 DEF Reason, EndsSilently
<1>8. OpenHasReason'
  BY <1>1, <1>2, <1>3, <1>5, <1>6, <1>7, WriteKeepsReason DEF OpenIsHeld
<1>9. OpenUnlessLeft'
  BY <1>1, <1>3, WriteTracksLeft DEF OpenIsHeld
<1> QED
  BY <1>4, <1>8, <1>9 DEF OpenIsHeld, SweepsAreOfBatch

LEMMA SweepOpen ==
  ASSUME TypeOK, OpenIsHeld, NEW s \in Sessions, NEW to \in {"ABORTING", "ABORTED"},
         CommitSweep(s, to)
  PROVE  OpenIsHeld'
<1> DEFINE changes == sweep[s] = "changes"
<1>1. s \in batch /\ s[1] \in Tasks /\ to \in SessionStatus /\ to \in Ended
  BY SessionParts DEF CommitSweep, OpenIsHeld, SweepsAreOfBatch, SessionStatus, Ended
<1>2. TaskStatusOf(to) \in TaskStatuses /\ TaskStatusOf(to) \notin Open
  BY <1>1, Vocabulary
<1>3. WriteTaskStatus(s[1], TaskStatusOf(to), changes)
  BY DEF CommitSweep
<1>4. /\ \A u \in Sessions : u # s => session'[u] = session[u] /\ sweep'[u] = sweep[u]
      /\ sweep'[s] = "none"
      /\ UNCHANGED <<projection, batch>>
  BY DEF CommitSweep, TypeOK
<1>5. \A u \in Sessions : u # s => (Reason(u) => Reason(u)')
  BY <1>4 DEF Reason, EndsSilently, Idle
<1>6. Reason(s) => Reason(s)'
  BY <1>1, <1>4 DEF Reason, EndsSilently, Idle
<1>7. OpenHasReason'
  <2> HIDE DEF changes
  <2>1. changes \in BOOLEAN
    BY DEF changes
  <2> QED
    BY <1>1, <1>2, <1>3, <1>5, <1>6, <2>1, WriteKeepsReason DEF OpenIsHeld
<1>8. OpenUnlessLeft'
  BY <1>1, <1>3, WriteTracksLeft DEF OpenIsHeld
<1> QED
  BY <1>4, <1>7, <1>8 DEF OpenIsHeld, SweepsAreOfBatch

LEMMA StepOpen == TypeOK /\ OpenIsHeld /\ [Next]_vars => OpenIsHeld'
<1> SUFFICES ASSUME TypeOK, OpenIsHeld, [Next]_vars PROVE OpenIsHeld'
  OBVIOUS
<1> USE DEF taskRow, lifecycle
<1>1. ASSUME UNCHANGED <<taskRow, lifecycle>> PROVE OpenIsHeld'
  BY <1>1 DEF OpenIsHeld, OpenHasReason, SweepsAreOfBatch, OpenUnlessLeft,
              EndsSilently, Idle
<1>2. ASSUME NEW t \in Tasks, Create(t) PROVE OpenIsHeld'
  BY <1>1, <1>2 DEF Create, AdmitCreation, InitiateUpload, FailCreation, CommitCreation
<1>3. ASSUME NEW s \in Sessions, Drive(s) PROVE OpenIsHeld'
  <2>1. CASE \E to \in Projected : BeginProjection(s, to)
    BY <2>1, BeginOpen
  <2>2. CASE CommitProjection(s)
    BY <2>2, CommitOpen
  <2>3. CASE \E to \in {"ABORTING", "ABORTED"} : CommitSweep(s, to)
    BY <2>3, SweepOpen
  <2>4. CASE RollBackProjection(s) \/ Promote(s) \/ TakeUp(s) \/ BeginSweep(s)
             \/ SweepFails(s)
    <3>1. UNCHANGED <<taskStatus, left>>
      BY <2>4 DEF RollBackProjection, Promote, TakeUp, BeginSweep, SweepFails
    <3>2. \A u \in Sessions : Reason(u) => Reason(u)'
      <4>1. CASE RollBackProjection(s)
        BY <4>1 DEF RollBackProjection, Projecting, Reason, EndsSilently, Idle, TypeOK
      <4>2. CASE Promote(s)
        BY <4>2 DEF Promote, Reason, EndsSilently, Idle, TypeOK, Ended
      <4>3. CASE TakeUp(s) \/ BeginSweep(s)
        BY <4>3 DEF TakeUp, BeginSweep, Reason, EndsSilently, Idle
      <4>4. CASE SweepFails(s)
        BY <4>4 DEF SweepFails, Reason, EndsSilently, Idle, TypeOK
      <4> QED
        BY <2>4, <4>1, <4>2, <4>3, <4>4
    <3>3. SweepsAreOfBatch'
      BY <2>4 DEF OpenIsHeld, SweepsAreOfBatch, RollBackProjection, Promote, TakeUp,
                  BeginSweep, SweepFails, TypeOK
    <3> QED
      BY <3>1, <3>2, <3>3, ReasonsStay DEF OpenIsHeld, OpenUnlessLeft
  <2> QED
    BY <1>3, <2>1, <2>2, <2>3, <2>4 DEF Drive
<1> QED
  BY <1>1, <1>2, <1>3, TaskAssumption DEF Next, vars

-----------------------------------------------------------------------------
(* The quota.                                                               *)

LEMMA CreationsFinite ==
  ASSUME NEW S \in SUBSET Tasks
  PROVE  IsFiniteSet(S) /\ Cardinality(S) \in Nat
BY TaskAssumption, FS_Subset, FS_CardinalityType

LEMMA InitAdmitted == Init => AdmittedIsBounded
<1> SUFFICES ASSUME Init PROVE AdmittedIsBounded
  OBVIOUS
<1>1. Created \ left = {} /\ Creating = {}
  BY DEF Init, Created, Creating
<1>2. Cardinality(Created \ left) = 0 /\ Cardinality(Creating) = 0
  BY <1>1, FS_EmptySet
<1>3. 0 + 0 <= MaxOpen - 1 + MaxCreating
  BY TaskAssumption
<1> QED
  BY <1>2, <1>3 DEF AdmittedIsBounded

\* Steps that admit nothing, and create nothing that was not being created.
LEMMA AdmittedShrinks ==
  ASSUME TypeOK, AdmittedIsBounded,
         Created' \ left' \subseteq Created \ left,
         Creating' \subseteq Creating
  PROVE  AdmittedIsBounded'
<1>1. Created \ left \in SUBSET Tasks /\ Creating \in SUBSET Tasks
  BY DEF Created, Creating
<1>2. /\ Cardinality(Created' \ left') <= Cardinality(Created \ left)
      /\ Cardinality(Creating') <= Cardinality(Creating)
  BY <1>1, CreationsFinite, FS_Subset
<1>3. /\ Cardinality(Created \ left) \in Nat /\ Cardinality(Created' \ left') \in Nat
      /\ Cardinality(Creating) \in Nat /\ Cardinality(Creating') \in Nat
  BY <1>1, CreationsFinite DEF Created, Creating
<1> QED
  BY <1>2, <1>3, TaskAssumption DEF AdmittedIsBounded

\* What the quota counts holds every task that was open ever since.
LEMMA AdmitBounded ==
  ASSUME TypeOK, OpenUnlessLeft, NEW t \in Tasks, AdmitCreation(t)
  PROVE  AdmittedIsBounded'
<1> DEFINE counted == {u \in Created : taskStatus[u] \in Open}
<1>1. Created' = Created /\ left' = left /\ Creating' = Creating \cup {t}
      /\ t \notin Creating
  BY DEF AdmitCreation, Created, Creating, TypeOK, taskRow
<1>2. /\ counted \in SUBSET Tasks /\ Creating \in SUBSET Tasks
      /\ Created \ left \in SUBSET counted
  BY DEF Created, Creating, OpenUnlessLeft
<1>3. Cardinality(counted) < MaxOpen /\ Cardinality(Creating) < MaxCreating
  BY DEF AdmitCreation, WithinQuota, Creating
<1>4. Cardinality(Created \ left) <= Cardinality(counted)
  BY <1>2, CreationsFinite, FS_Subset
<1>5. Cardinality(Creating') = Cardinality(Creating) + 1
  BY <1>1, <1>2, CreationsFinite, FS_AddElement
<1>6. /\ Cardinality(counted) \in Nat /\ Cardinality(Creating) \in Nat
      /\ Cardinality(Created \ left) \in Nat
  <2>1. Created \ left \in SUBSET Tasks
    BY <1>2
  <2> QED
    BY <1>2, <2>1, CreationsFinite
<1> HIDE DEF counted
<1> QED
  BY <1>1, <1>3, <1>4, <1>5, <1>6, TaskAssumption DEF AdmittedIsBounded

LEMMA CommitCreationBounded ==
  ASSUME TypeOK, AdmittedIsBounded, NEW t \in Tasks, CommitCreation(t)
  PROVE  AdmittedIsBounded'
<1>1. /\ Created' = Created \cup {t} /\ Creating' = Creating \ {t}
      /\ t \in Creating /\ t \notin Created /\ left' = left
  BY DEF CommitCreation, Created, Creating, TypeOK, taskRow
<1>2. Created \ left \in SUBSET Tasks /\ Creating \in SUBSET Tasks
  BY DEF Created, Creating
<1>3. Cardinality(Creating') = Cardinality(Creating) - 1
  BY <1>1, <1>2, CreationsFinite, FS_RemoveElement
<1>4. Cardinality((Created \ left) \cup {t}) = Cardinality(Created \ left) + 1
  BY <1>1, <1>2, CreationsFinite, FS_AddElement
<1>5. Created' \ left' \in SUBSET ((Created \ left) \cup {t})
  BY <1>1
<1>6. (Created \ left) \cup {t} \in SUBSET Tasks /\ Created' \ left' \in SUBSET Tasks
  BY <1>1, <1>2
<1>7. Cardinality(Created' \ left') <= Cardinality(Created \ left) + 1
  BY <1>4, <1>5, <1>6, CreationsFinite, FS_Subset
<1>8. /\ Cardinality(Created \ left) \in Nat /\ Cardinality(Created' \ left') \in Nat
      /\ Cardinality(Creating) \in Nat
  BY <1>2, <1>6, CreationsFinite
<1> QED
  BY <1>3, <1>7, <1>8, TaskAssumption DEF AdmittedIsBounded

LEMMA StepAdmitted ==
  TypeOK /\ OpenUnlessLeft /\ AdmittedIsBounded /\ [Next]_vars => AdmittedIsBounded'
<1> SUFFICES ASSUME TypeOK, OpenUnlessLeft, AdmittedIsBounded, [Next]_vars
             PROVE  AdmittedIsBounded'
  OBVIOUS
<1> USE DEF creation, taskRow
<1>1. CASE UNCHANGED vars
  BY <1>1 DEF vars, AdmittedIsBounded, Created, Creating
<1>2. ASSUME NEW t \in Tasks, Create(t) PROVE AdmittedIsBounded'
  <2>1. CASE AdmitCreation(t)
    BY <2>1, AdmitBounded
  <2>2. CASE CommitCreation(t)
    BY <2>2, CommitCreationBounded
  <2>3. CASE FailCreation(t) \/ \E o \in ObjectsOf[t] : InitiateUpload(t, o)
    <3>1. Created' \ left' \subseteq Created \ left /\ Creating' \subseteq Creating
      BY <2>3 DEF FailCreation, InitiateUpload, Created, Creating, TypeOK
    <3> QED
      BY <3>1, AdmittedShrinks
  <2> QED
    BY <1>2, <2>1, <2>2, <2>3 DEF Create
<1>3. ASSUME NEW s \in Sessions, Drive(s) PROVE AdmittedIsBounded'
  <2>1. phase' = phase /\ left \subseteq left'
    BY <1>3 DEF Drive, BeginProjection, CommitProjection, RollBackProjection, Promote,
                TakeUp, BeginSweep, CommitSweep, SweepFails, WriteTaskStatus
  <2>2. Created' \ left' \subseteq Created \ left /\ Creating' \subseteq Creating
    BY <2>1 DEF Created, Creating
  <2> QED
    BY <2>2, AdmittedShrinks
<1> QED
  BY <1>1, <1>2, <1>3, TaskAssumption DEF Next

-----------------------------------------------------------------------------
(* The theorems.                                                            *)

LEMMA Inductive == Spec => []IInv
<1>1. Init => IInv
  BY InitTyped, InitCounts, InitOpen, InitAdmitted DEF IInv, CountIsHeld, OpenIsHeld
<1>2. IInv /\ [Next]_vars => IInv'
  BY StepTyped, StepCounts, StepOpen, StepAdmitted DEF IInv, CountIsHeld, OpenIsHeld
<1> QED
  BY <1>1, <1>2, PTL DEF Spec

\* Every column keeps its vocabulary, and memory its shape.
THEOREM TypeCorrect == Spec => []TypeOK
<1>1. IInv => TypeOK
  BY DEF IInv
<1> QED
  BY <1>1, Inductive, PTL

\* project_runtime_transition: no interleaving of the projections of a task's
\* sessions makes it count an object that was not completed, or forget the last.
THEOREM CountAlwaysInRange == Spec => []CountInRange
<1>1. IInv => CountInRange
  BY DEF IInv
<1> QED
  BY <1>1, Inductive, PTL

\* persisted_upload_task_status, read and written without a lock on the task row:
\* once its sessions have ended, and not by the worker, a task is closed.
THEOREM EndedTasksAreClosed == Spec => []EndedTaskIsClosed
<1>1. IInv => EndedTaskIsClosed
  BY DEF IInv, OpenHasReason, EndedTaskIsClosed, Created
<1> QED
  BY <1>1, Inductive, PTL

\* _validate_quota_before_storage: concurrent creations exceed the quota by less
\* than the number of them that run at the same time.
THEOREM QuotaOvershootIsBounded == Spec => []OvershootIsBounded
<1>1. IInv => OvershootIsBounded
  <2>1. Created \ left \in SUBSET Tasks /\ Creating \in SUBSET Tasks
    BY DEF Created, Creating
  <2>2. Cardinality(Created \ left) \in Nat /\ Cardinality(Creating) \in Nat
    BY <2>1, CreationsFinite
  <2> QED
    BY <2>2, TaskAssumption DEF IInv, AdmittedIsBounded, OvershootIsBounded
<1> QED
  BY <1>1, Inductive, PTL

=============================================================================
