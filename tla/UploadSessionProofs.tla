------------------------- MODULE UploadSessionProofs -------------------------
(***************************************************************************)
(* Proofs about UploadSession for any number of requests, workers and       *)
(* parts, and for any choice of which of them may crash.                    *)
(***************************************************************************)
EXTENDS UploadSession, TLAPS

ObjectStatuses == {"PENDING", "UPLOADING", "PAUSED", "COMPLETING", "COMPLETED",
                   "CANCELLED", "FAILED"}
DatasetStatuses == {"UPLOAD_PENDING", "UPLOADING", "PAUSED", "PROCESSING"}

\* The projections of session statuses are statuses of their own columns.
LEMMA ProjectedTypes ==
    /\ \A s \in SessionStatus : ObjectStatusOf(s) \in ObjectStatuses
    /\ \A s \in SessionStatus, d \in DatasetStatuses :
           DatasetStatusOf(s, d) \in DatasetStatuses
  BY DEF SessionStatus, ObjectStatuses, DatasetStatuses, ObjectStatusOf,
         DatasetStatusOf

\* A transaction that sets and projects a status keeps the row well typed.
LEMMA RowTypes ==
    ASSUME TypeOK, NEW s \in SessionStatus, status' = s,
           Project(s) \/ ProjectCleanup(s)
    PROVE  /\ status' \in SessionStatus
           /\ objectStatus' \in ObjectStatuses
           /\ datasetStatus' \in DatasetStatuses
  BY ProjectedTypes DEF TypeOK, Project, ProjectCleanup, DatasetStatuses

\* Moving an actor, with or without forgetting what it had in memory, keeps
\* the actors' memory well typed.
LEMMA MemoryTypes ==
    ASSUME TypeOK, NEW a \in Actors, NEW point \in Running \cup {"idle"}
    PROVE  /\ Goto(a, point) => pc' \in [Actors -> Running \cup {"idle"}]
           /\ GotoFresh(a, point) =>
                  /\ pc' \in [Actors -> Running \cup {"idle"}]
                  /\ snap' \in [Actors -> SessionStatus]
                  /\ listed' \in [Actors -> [Parts -> Contents]]
<1>1. "INITIATED" \in SessionStatus /\ NoParts \in [Parts -> Contents]
  BY DEF SessionStatus, NoParts, Contents
<1>2. Goto(a, point) => pc' \in [Actors -> Running \cup {"idle"}]
  BY DEF TypeOK, Goto
<1>3. snap' = [snap EXCEPT ![a] = "INITIATED"] => snap' \in [Actors -> SessionStatus]
  BY <1>1 DEF TypeOK
<1>4. listed' = [listed EXCEPT ![a] = NoParts] =>
          listed' \in [Actors -> [Parts -> Contents]]
  BY <1>1 DEF TypeOK
<1> QED
  BY <1>2, <1>3, <1>4 DEF GotoFresh

\* Every step keeps every variable in its column or type.
LEMMA TypeStep == TypeOK /\ [Next]_vars => TypeOK'
<1> SUFFICES ASSUME TypeOK, [Next]_vars PROVE TypeOK'
  OBVIOUS
<1> USE DEF Return
<1>1. ASSUME NEW r \in Requests, LoadSession(r) PROVE TypeOK'
  BY <1>1, MemoryTypes DEF TypeOK, LoadSession, Goto, Actors, Running, row, storage
<1>2. ASSUME NEW r \in Requests, AnswerWithoutChange(r) PROVE TypeOK'
  BY <1>2, MemoryTypes DEF TypeOK, AnswerWithoutChange, Actors, row, storage
<1>3. ASSUME NEW r \in Requests, PauseSession(r) PROVE TypeOK'
  BY <1>3, MemoryTypes, RowTypes
  DEF TypeOK, PauseSession, Actors, SessionStatus, storage, ObjectStatuses,
      DatasetStatuses
<1>4. ASSUME NEW r \in Requests, ResumeSession(r) PROVE TypeOK'
  BY <1>4, MemoryTypes, RowTypes
  DEF TypeOK, ResumeSession, Actors, SessionStatus, storage, ObjectStatuses,
      DatasetStatuses
<1>5. ASSUME NEW r \in Requests, NEW p \in Parts, PresignPart(r, p)
      PROVE  TypeOK'
  BY <1>5, MemoryTypes
  DEF TypeOK, PresignPart, Upsert, PartStatus, Promote, Actors, SessionStatus, storage
<1>6. ASSUME NEW r \in Requests, NEW p \in Parts, AcknowledgePart(r, p)
      PROVE  TypeOK'
  BY <1>6, MemoryTypes
  DEF TypeOK, AcknowledgePart, Upsert, PartStatus, Promote, Actors, SessionStatus, storage
<1>7. ASSUME NEW r \in Requests, ReconcileParts(r) PROVE TypeOK'
  BY <1>7, MemoryTypes
  DEF TypeOK, PartStatus, ReconcileParts, Observed, Actors, row, storage
<1>8. ASSUME NEW r \in Requests, BeginComplete(r) PROVE TypeOK'
  BY <1>8, MemoryTypes, RowTypes
  DEF TypeOK, BeginComplete, Actors, Running, SessionStatus, storage,
      ObjectStatuses, DatasetStatuses
<1>9. ASSUME NEW r \in Requests, ValidateStoredParts(r) PROVE TypeOK'
  BY <1>9, MemoryTypes
  DEF TypeOK, ValidateStoredParts, Actors, Running, row, storage
<1>10. ASSUME NEW r \in Requests, RestoreAfterMissingParts(r) PROVE TypeOK'
  BY <1>10, MemoryTypes, RowTypes
  DEF TypeOK, RestoreAfterMissingParts, Observed, PartStatus, Actors, SessionStatus,
      storage, ObjectStatuses, DatasetStatuses
<1>11. ASSUME NEW r \in Requests, CompleteMultipart(r) PROVE TypeOK'
  BY <1>11, MemoryTypes
  DEF TypeOK, CompleteMultipart, Assemble, Actors, Running, row
<1>12. ASSUME NEW r \in Requests, MarkCompleted(r) PROVE TypeOK'
  BY <1>12, MemoryTypes, RowTypes
  DEF TypeOK, MarkCompleted, Actors, SessionStatus, storage, ObjectStatuses,
      DatasetStatuses
<1>13. ASSUME NEW r \in Requests, BeginAbort(r) PROVE TypeOK'
  BY <1>13, MemoryTypes, RowTypes
  DEF TypeOK, BeginAbort, Actors, Running, SessionStatus, storage,
      ObjectStatuses, DatasetStatuses
<1>14. ASSUME NEW a \in Actors, DiscardMultipart(a) PROVE TypeOK'
  BY <1>14, MemoryTypes
  DEF TypeOK, DiscardMultipart, Running, row
<1>15. ASSUME NEW r \in Requests, MarkAborted(r) PROVE TypeOK'
  BY <1>15, MemoryTypes, RowTypes
  DEF TypeOK, MarkAborted, Actors, SessionStatus, storage, ObjectStatuses,
      DatasetStatuses
<1>16. ASSUME NEW r \in Requests, StorageCallFails(r) PROVE TypeOK'
  BY <1>16, MemoryTypes
  DEF TypeOK, StorageCallFails, Assemble, NoParts, Contents, Actors, Running,
      row
<1>17. ASSUME NEW r \in Requests, RestoreStatus(r) PROVE TypeOK'
  <2>1. snap[r] \in SessionStatus
    BY DEF TypeOK, Actors
  <2> QED
    BY <1>17, <2>1, MemoryTypes, RowTypes
    DEF TypeOK, RestoreStatus, Actors, storage, ObjectStatuses,
        DatasetStatuses
<1>18. ASSUME NEW w \in Workers, ExpireSession(w) PROVE TypeOK'
  BY <1>18, RowTypes
  DEF TypeOK, ExpireSession, SessionStatus, storage, memory, ObjectStatuses,
      DatasetStatuses
<1>19. ASSUME NEW w \in Workers, SelectForAbort(w) PROVE TypeOK'
  BY <1>19, MemoryTypes
  DEF TypeOK, SelectForAbort, Actors, Running, row, storage
<1>20. ASSUME NEW w \in Workers, BeginCleanup(w) PROVE TypeOK'
  BY <1>20, MemoryTypes, RowTypes
  DEF TypeOK, BeginCleanup, Actors, Running, SessionStatus, storage,
      ObjectStatuses, DatasetStatuses
<1>21. ASSUME NEW w \in Workers, BeginCleanupReloaded(w) PROVE TypeOK'
  <2>1. snap' \in [Actors -> SessionStatus]
    BY <1>21 DEF BeginCleanupReloaded, TypeOK, Actors, SessionStatus
  <2> QED
    BY <1>21, <2>1, MemoryTypes
    DEF TypeOK, BeginCleanupReloaded, Actors, Running, row, storage
<1>27. ASSUME NEW w \in Workers, ReadProjection(w) PROVE TypeOK'
  BY <1>27, MemoryTypes
  DEF TypeOK, ReadProjection, Actors, Running, row, storage
<1>28. ASSUME NEW w \in Workers, MarkCleanedUp(w) PROVE TypeOK'
  BY <1>28, MemoryTypes
  DEF TypeOK, MarkCleanedUp, Actors, SessionStatus, storage
<1>22. ASSUME NEW w \in Workers, CleanupCallFails(w) PROVE TypeOK'
  BY <1>22, MemoryTypes
  DEF TypeOK, CleanupCallFails, Actors, Running, row
<1>23. ASSUME NEW w \in Workers, MarkCleanupFailed(w) PROVE TypeOK'
  BY <1>23, MemoryTypes
  DEF TypeOK, MarkCleanupFailed, Actors, SessionStatus, storage
<1>24. ASSUME NEW p \in Parts, NEW content \in Sent,
              PutPart(p, content)
       PROVE  TypeOK'
  BY <1>24, ConstantsAssumption DEF TypeOK, PutPart, Contents, row, memory
<1>25. ASSUME NEW a \in Crashing, Crash(a) PROVE TypeOK'
  BY <1>25, MemoryTypes, ConstantsAssumption
  DEF TypeOK, Crash, Actors, row, storage
<1>26. CASE UNCHANGED vars
  BY <1>26 DEF TypeOK, vars, row, storage, memory
<1>29. ASSUME NEW r \in Requests, AnswerIsGone(r) PROVE TypeOK'
  BY <1>29, MemoryTypes DEF TypeOK, AnswerIsGone, Actors, row, storage
<1> QED
  BY <1>1, <1>2, <1>3, <1>4, <1>5, <1>6, <1>7, <1>8, <1>9, <1>10, <1>11,
     <1>12, <1>13, <1>14, <1>15, <1>16, <1>17, <1>18, <1>19, <1>20, <1>21,
     <1>22, <1>23, <1>24, <1>25, <1>26, <1>27, <1>28, <1>29
  DEF Next, Handle, Reclaim, Actors

\* TypeOK is an invariant: no handler, restore or cleanup writes a value its
\* column or the handler's memory does not admit.
THEOREM TypeCorrect == Spec => []TypeOK
<1>1. Init => TypeOK
  BY DEF Init, TypeOK, SessionStatus, PartStatus, NoParts, Contents
<1> QED
  BY <1>1, TypeStep, PTL DEF Spec

-----------------------------------------------------------------------------
(* The inductive invariant.  None of the safety properties is inductive    *)
(* alone: a second transaction commits unconditionally, so that COMPLETED  *)
(* is right only because of what the handler saw in storage before, and     *)
(* that is EvidenceHolds.                                                   *)

Safety == /\ CompletedMeansAssembled
          /\ AbortedMeansReclaimed
          /\ CompletedOnce
          /\ ProjectionsAgree

IInv == TypeOK /\ EvidenceHolds /\ Safety

\* A handler that returns takes its evidence with it and disturbs nobody's.
LEMMA ReturnKeepsEvidence ==
    ASSUME TypeOK, EvidenceHolds, NEW a \in Actors, Return(a),
           UNCHANGED <<completions, storage>>
    PROVE  EvidenceHolds'
<1>1. /\ pc' = [pc EXCEPT ![a] = "idle"] /\ snap' = [snap EXCEPT ![a] = "INITIATED"]
      /\ listed' = [listed EXCEPT ![a] = NoParts]
      /\ UNCHANGED <<completions, mpu, stored>>
  BY DEF Return, GotoFresh, Goto, storage
<1> QED
  BY <1>1 DEF TypeOK, EvidenceHolds, At, Actors

\* Every step keeps the evidence of every actor.
LEMMA EvidenceStep == TypeOK /\ EvidenceHolds /\ [Next]_vars => EvidenceHolds'
<1> SUFFICES ASSUME TypeOK, EvidenceHolds, [Next]_vars PROVE EvidenceHolds'
  OBVIOUS
<1>1. ASSUME NEW a \in Actors, Return(a), UNCHANGED <<completions, storage>>
      PROVE  EvidenceHolds'
  BY <1>1, ReturnKeepsEvidence
<1>2. ASSUME NEW r \in Requests, LoadSession(r) PROVE EvidenceHolds'
  BY <1>2 DEF TypeOK, EvidenceHolds, LoadSession, At, Goto, Actors, row, storage
<1>3. ASSUME NEW r \in Requests, BeginComplete(r) PROVE EvidenceHolds'
  BY <1>3
  DEF TypeOK, EvidenceHolds, BeginComplete, CanComplete, At, Goto, Actors, storage
<1>4. ASSUME NEW r \in Requests, ValidateStoredParts(r) PROVE EvidenceHolds'
  BY <1>4
  DEF TypeOK, EvidenceHolds, ValidateStoredParts, Complete, At, Goto, Actors,
      row, storage
<1>5. ASSUME NEW r \in Requests, CompleteMultipart(r) PROVE EvidenceHolds'
  BY <1>5
  DEF TypeOK, EvidenceHolds, CompleteMultipart, Assemble, At, GotoFresh, Goto,
      Actors, row
<1>6. ASSUME NEW r \in Requests, MarkCompleted(r) PROVE EvidenceHolds'
  BY <1>6
  DEF TypeOK, EvidenceHolds, MarkCompleted, At, Return, GotoFresh, Goto, Actors,
      storage
<1>7. ASSUME NEW r \in Requests, StorageCallFails(r) PROVE EvidenceHolds'
  BY <1>7
  DEF TypeOK, EvidenceHolds, StorageCallFails, Assemble, At, Goto, Actors, row
<1>8. ASSUME NEW r \in Requests, BeginAbort(r) PROVE EvidenceHolds'
  BY <1>8
  DEF TypeOK, EvidenceHolds, BeginAbort, CanAbort, At, Goto, Actors, storage
<1>9. ASSUME NEW a \in Actors, DiscardMultipart(a) PROVE EvidenceHolds'
  BY <1>9
  DEF TypeOK, EvidenceHolds, DiscardMultipart, At, GotoFresh, Goto, Actors, row
<1>10. ASSUME NEW w \in Workers, ExpireSession(w) PROVE EvidenceHolds'
  BY <1>10 DEF TypeOK, EvidenceHolds, ExpireSession, At, Actors, storage, memory
<1>11. ASSUME NEW w \in Workers,
              \/ SelectForAbort(w) \/ BeginCleanup(w) \/ BeginCleanupReloaded(w)
              \/ ReadProjection(w) \/ CleanupCallFails(w)
       PROVE  EvidenceHolds'
  BY <1>11, ConstantsAssumption
  DEF TypeOK, EvidenceHolds, SelectForAbort, BeginCleanup, BeginCleanupReloaded,
      ReadProjection, CleanupCallFails, At, Goto, Actors, row, storage
<1>12. ASSUME NEW p \in Parts, NEW content \in Sent,
              PutPart(p, content)
       PROVE  EvidenceHolds'
  BY <1>12 DEF TypeOK, EvidenceHolds, PutPart, At, Actors, row, memory
<1>13. CASE UNCHANGED vars
  BY <1>13 DEF EvidenceHolds, At, vars, row, storage, memory
<1>14. ASSUME NEW r \in Requests, Handle(r) PROVE EvidenceHolds'
  <2>1. CASE \/ AnswerWithoutChange(r) \/ PauseSession(r) \/ ResumeSession(r)
             \/ ReconcileParts(r) \/ RestoreAfterMissingParts(r)
             \/ RestoreStatus(r) \/ MarkAborted(r)
    BY <2>1, <1>1
    DEF AnswerWithoutChange, PauseSession, ResumeSession, ReconcileParts,
        RestoreAfterMissingParts, RestoreStatus, MarkAborted, Actors, row
  <2>2. CASE \E p \in Parts : PresignPart(r, p) \/ AcknowledgePart(r, p)
    BY <2>2, <1>1 DEF PresignPart, AcknowledgePart, Actors
  <2> QED
    BY <1>14, <2>1, <2>2, <1>3, <1>4, <1>5, <1>6, <1>7, <1>8, <1>9
    DEF Handle, Actors
<1>15. ASSUME NEW w \in Workers, Reclaim(w) PROVE EvidenceHolds'
  <2>1. CASE MarkCleanedUp(w) \/ MarkCleanupFailed(w)
    BY <2>1, <1>1 DEF MarkCleanedUp, MarkCleanupFailed, Actors
  <2> QED
    BY <1>15, <2>1, <1>9, <1>11 DEF Reclaim, Actors
<1>16. ASSUME NEW a \in Crashing, Crash(a) PROVE EvidenceHolds'
  BY <1>16, <1>1, ConstantsAssumption DEF Crash, Actors, row
<1>17. ASSUME NEW r \in Requests, AnswerIsGone(r) PROVE EvidenceHolds'
  BY <1>17, <1>1 DEF AnswerIsGone, Actors, row
<1> QED
  BY <1>2, <1>10, <1>12, <1>13, <1>14, <1>15, <1>16, <1>17 DEF Next

\* What the evidence is for: every step that writes the row, or storage, keeps
\* the row true to storage.
LEMMA SafetyStep ==
    TypeOK /\ EvidenceHolds /\ Safety /\ [Next]_vars => Safety'
<1> SUFFICES ASSUME TypeOK, EvidenceHolds, Safety, [Next]_vars PROVE Safety'
  OBVIOUS
<1> USE DEF Safety, CompletedMeansAssembled, AbortedMeansReclaimed,
            CompletedOnce, ProjectionsAgree
<1>1. CASE UNCHANGED <<row, storage>>
  BY <1>1 DEF row, storage
<1>3. ASSUME NEW s \in SessionStatus \ {"COMPLETED", "ABORTED"}, status' = s,
             Project(s) \/ ProjectCleanup(s), UNCHANGED <<completions, storage>>
      PROVE  Safety'
  BY <1>3 DEF Project, ProjectCleanup, storage
<1>4. ASSUME NEW r \in Requests,
             \/ PauseSession(r) \/ ResumeSession(r) \/ BeginComplete(r)
             \/ RestoreAfterMissingParts(r) \/ BeginAbort(r)
      PROVE  Safety'
  BY <1>3, <1>4
  DEF PauseSession, ResumeSession, BeginComplete, RestoreAfterMissingParts,
      BeginAbort, SessionStatus
<1>5. ASSUME NEW r \in Requests, RestoreStatus(r) PROVE Safety'
  <2>1. snap[r] \in {"INITIATED", "UPLOADING", "PAUSED", "EXPIRED"}
    BY <1>5 DEF RestoreStatus, EvidenceHolds, At
  <2> QED
    BY <1>5, <2>1, <1>3 DEF RestoreStatus, SessionStatus
<1>6. ASSUME NEW r \in Requests, NEW p \in Parts,
             PresignPart(r, p) \/ AcknowledgePart(r, p)
      PROVE  Safety'
  BY <1>6 DEF PresignPart, AcknowledgePart, Promote, storage
<1>7. ASSUME NEW r \in Requests, MarkCompleted(r) PROVE Safety'
  <2>1. /\ mpu = "COMPLETED" /\ completions = 0
        /\ \A p \in Parts : stored[p] = "good"
    BY <1>7 DEF MarkCompleted, EvidenceHolds, At, Actors
  <2> QED
    BY <1>7, <2>1
    DEF MarkCompleted, Project, ObjectStatusOf, DatasetStatusOf, storage
<1>8. ASSUME NEW a \in Actors, MarkAborted(a) \/ MarkCleanedUp(a) PROVE Safety'
  <2>1. pc[a] \in {"discarded", "cancelling", "cancelled"}
    BY <1>8 DEF MarkAborted, MarkCleanedUp, At
  <2>2. mpu # "OPEN"
    BY <2>1 DEF EvidenceHolds
  <2> QED
    BY <1>8, <2>2
    DEF MarkAborted, MarkCleanedUp, storage
<1>9. ASSUME NEW w \in Workers, ExpireSession(w) \/ BeginCleanup(w)
      PROVE  Safety'
  BY <1>9, <1>3, <1>1
  DEF ExpireSession, BeginCleanup, SessionStatus, row
<1>10. ASSUME NEW w \in Workers, MarkCleanupFailed(w) PROVE Safety'
  BY <1>10 DEF MarkCleanupFailed, storage
<1>11. ASSUME NEW a \in Actors,
              CompleteMultipart(a) \/ DiscardMultipart(a) \/ StorageCallFails(a)
              \/ CleanupCallFails(a)
       PROVE  Safety'
  BY <1>11, <1>1
  DEF CompleteMultipart, DiscardMultipart, StorageCallFails, CleanupCallFails,
      Assemble, row, storage, EvidenceHolds, TypeOK
<1>12. ASSUME NEW p \in Parts, NEW content \in Sent,
              PutPart(p, content)
       PROVE  Safety'
  BY <1>12 DEF PutPart, row
<1>13. ASSUME NEW r \in Requests,
              \/ LoadSession(r) \/ AnswerWithoutChange(r) \/ ReconcileParts(r)
              \/ ValidateStoredParts(r) \/ AnswerIsGone(r)
       PROVE  Safety'
  BY <1>13, <1>1
  DEF LoadSession, AnswerWithoutChange, ReconcileParts, ValidateStoredParts,
      AnswerIsGone
<1>14. ASSUME NEW w \in Workers,
              SelectForAbort(w) \/ BeginCleanupReloaded(w) \/ ReadProjection(w)
       PROVE  Safety'
  BY <1>14, <1>1 DEF SelectForAbort, BeginCleanupReloaded, ReadProjection
<1>15. ASSUME NEW a \in Crashing, Crash(a) PROVE Safety'
  BY <1>15, <1>1 DEF Crash
<1>16. CASE UNCHANGED vars
  BY <1>16, <1>1 DEF vars
<1> QED
  BY <1>4, <1>5, <1>6, <1>7, <1>8, <1>9, <1>10, <1>11, <1>12, <1>13, <1>14,
     <1>15, <1>16
  DEF Next, Handle, Reclaim, Actors

\* The inductive invariant holds in every reachable state.
THEOREM Invariant == Spec => []IInv
<1>1. Init => IInv
  <2> SUFFICES ASSUME Init PROVE IInv
    OBVIOUS
  <2>1. TypeOK
    BY DEF Init, TypeOK, SessionStatus, PartStatus, NoParts, Contents
  <2>2. EvidenceHolds
    BY DEF Init, EvidenceHolds, At, Actors
  <2>3. Safety
    BY DEF Init, Safety, CompletedMeansAssembled, AbortedMeansReclaimed,
           CompletedOnce, ProjectionsAgree, ObjectStatusOf
  <2> QED
    BY <2>1, <2>2, <2>3 DEF IInv
<1>2. IInv /\ [Next]_vars => IInv'
  BY TypeStep, EvidenceStep, SafetyStep DEF IInv
<1> QED
  BY <1>1, <1>2, PTL DEF Spec

\* The properties a reader asks for, each for every reachable state.
THEOREM SafetyHolds ==
    Spec => [](/\ CompletedMeansAssembled /\ AbortedMeansReclaimed
               /\ CompletedOnce /\ ProjectionsAgree)
<1>1. IInv => /\ CompletedMeansAssembled /\ AbortedMeansReclaimed
              /\ CompletedOnce /\ ProjectionsAgree
  BY DEF IInv, Safety
<1> QED
  BY <1>1, Invariant, PTL

\* What a handler saw in storage before it lost the lock is still true when it
\* commits.
THEOREM EvidenceAlwaysHolds == Spec => []EvidenceHolds
<1>1. IInv => EvidenceHolds
  BY DEF IInv
<1> QED
  BY <1>1, Invariant, PTL

-----------------------------------------------------------------------------
(* An acknowledged part row is never taken back.                            *)

\* Presigning again, reconciling with storage and a failed completion all
\* upsert part rows; none of them takes UPLOADED away.
THEOREM UploadedRowsAlwaysStay == Spec => UploadedRowsStay
<1> DEFINE Stay == \A p \in Parts : rows[p] = "UPLOADED" => rows'[p] = "UPLOADED"
<1>1. ASSUME TypeOK, [Next]_vars PROVE [Stay]_rows
  <2>1. ASSUME NEW r \in Requests, Handle(r) PROVE [Stay]_rows
    <3>1. CASE \E p \in Parts : PresignPart(r, p) \/ AcknowledgePart(r, p)
      BY <1>1, <3>1 DEF PresignPart, AcknowledgePart, Upsert, TypeOK
    <3>2. CASE ReconcileParts(r) \/ RestoreAfterMissingParts(r)
      BY <1>1, <3>2 DEF ReconcileParts, RestoreAfterMissingParts, Observed
    <3> QED
      BY <2>1, <3>1, <3>2
      DEF Handle, AnswerWithoutChange, PauseSession, ResumeSession,
          BeginComplete, ValidateStoredParts, CompleteMultipart, MarkCompleted,
          BeginAbort, DiscardMultipart, MarkAborted, StorageCallFails,
          RestoreStatus
  <2>2. ASSUME NEW w \in Workers, ExpireSession(w) \/ Reclaim(w)
        PROVE  UNCHANGED rows
    BY <2>2
    DEF ExpireSession, Reclaim, SelectForAbort, BeginCleanup,
        BeginCleanupReloaded, DiscardMultipart, ReadProjection, MarkCleanedUp,
        CleanupCallFails, MarkCleanupFailed
  <2> QED
    BY <1>1, <2>1, <2>2 DEF Next, LoadSession, PutPart, AnswerIsGone, Crash, vars
<1> QED
  BY <1>1, TypeCorrect, PTL DEF Spec, UploadedRowsStay

-----------------------------------------------------------------------------
(* The session implements UploadOutcome.                                    *)

\* A step of the session that decides the multipart upload is a Decide, a
\* second transaction of complete or abort records, and every other write of
\* the row withdraws a record or leaves it alone.
LEMMA OutcomeStep ==
    TypeOK /\ EvidenceHolds /\ [Next]_vars => [Outcome!Next]_(Outcome!vars)
<1> SUFFICES ASSUME TypeOK, EvidenceHolds, [Next]_vars
             PROVE  [Outcome!Next]_(Outcome!vars)
  OBVIOUS
<1> USE DEF Outcome!Next, Outcome!vars
<1>1. CASE UNCHANGED <<row, storage>>
  BY <1>1 DEF row, storage
<1>2. CASE /\ status' \notin {"COMPLETED", "ABORTED"}
           /\ UNCHANGED <<completions, mpu>>
  BY <1>2 DEF Outcome!Withdraw
<1>3. CASE /\ mpu = "OPEN" /\ mpu' \in {"COMPLETED", "ABORTED"}
           /\ UNCHANGED row
  BY <1>3 DEF Outcome!Decide, row
<1>4. ASSUME NEW r \in Requests,
             \/ PauseSession(r) \/ ResumeSession(r) \/ BeginComplete(r)
             \/ RestoreAfterMissingParts(r) \/ BeginAbort(r)
      PROVE  [Outcome!Next]_(Outcome!vars)
  BY <1>4, <1>2
  DEF PauseSession, ResumeSession, BeginComplete, RestoreAfterMissingParts,
      BeginAbort, storage
<1>5. ASSUME NEW r \in Requests, RestoreStatus(r)
      PROVE  [Outcome!Next]_(Outcome!vars)
  <2>1. snap[r] \notin {"COMPLETED", "ABORTED"}
    BY <1>5 DEF RestoreStatus, EvidenceHolds, At
  <2> QED
    BY <1>5, <2>1, <1>2 DEF RestoreStatus, storage
<1>6. ASSUME NEW r \in Requests, NEW p \in Parts,
             PresignPart(r, p) \/ AcknowledgePart(r, p)
      PROVE  [Outcome!Next]_(Outcome!vars)
  <2>1. UNCHANGED <<completions, mpu>> /\ (status' = "UPLOADING" \/ UNCHANGED status)
    BY <1>6 DEF PresignPart, AcknowledgePart, Promote, storage
  <2> QED
    BY <2>1, <1>2
<1>7. ASSUME NEW r \in Requests, MarkCompleted(r)
      PROVE  [Outcome!Next]_(Outcome!vars)
  <2>1. mpu = "COMPLETED" /\ completions = 0
    BY <1>7 DEF MarkCompleted, EvidenceHolds, Actors
  <2> QED
    BY <1>7, <2>1 DEF MarkCompleted, storage, Outcome!RecordCompleted
<1>8. ASSUME NEW a \in Actors, MarkAborted(a) \/ MarkCleanedUp(a)
      PROVE  [Outcome!Next]_(Outcome!vars)
  <2>1. pc[a] \in {"discarded", "cancelling", "cancelled"}
    BY <1>8 DEF MarkAborted, MarkCleanedUp, At
  <2>2. mpu # "OPEN"
    BY <2>1 DEF EvidenceHolds
  <2> QED
    BY <1>8, <2>2 DEF MarkAborted, MarkCleanedUp, storage, Outcome!RecordAborted
<1>9. ASSUME NEW w \in Workers,
             ExpireSession(w) \/ BeginCleanup(w) \/ MarkCleanupFailed(w)
      PROVE  [Outcome!Next]_(Outcome!vars)
  <2>1. UNCHANGED <<completions, mpu>>
    BY <1>9 DEF ExpireSession, BeginCleanup, MarkCleanupFailed, storage
  <2>2. UNCHANGED status \/ status' \notin {"COMPLETED", "ABORTED"}
    BY <1>9 DEF ExpireSession, BeginCleanup, MarkCleanupFailed
  <2> QED
    BY <2>1, <2>2, <1>2
<1>10. ASSUME NEW a \in Actors,
              CompleteMultipart(a) \/ DiscardMultipart(a) \/ StorageCallFails(a)
              \/ CleanupCallFails(a)
       PROVE  [Outcome!Next]_(Outcome!vars)
  <2>1. UNCHANGED row /\ UNCHANGED stored
    BY <1>10
    DEF CompleteMultipart, DiscardMultipart, StorageCallFails, CleanupCallFails
  <2>2. UNCHANGED mpu \/ (mpu = "OPEN" /\ mpu' \in {"COMPLETED", "ABORTED"})
    BY <1>10
    DEF CompleteMultipart, DiscardMultipart, StorageCallFails, CleanupCallFails,
        Assemble
  <2> QED
    BY <2>1, <2>2, <1>1, <1>3 DEF storage
<1>11. ASSUME NEW p \in Parts, NEW content \in Sent,
              PutPart(p, content)
       PROVE  [Outcome!Next]_(Outcome!vars)
  BY <1>11 DEF PutPart, row
<1>12. ASSUME NEW r \in Requests,
              \/ LoadSession(r) \/ AnswerWithoutChange(r) \/ ReconcileParts(r)
              \/ ValidateStoredParts(r) \/ AnswerIsGone(r)
       PROVE  [Outcome!Next]_(Outcome!vars)
  BY <1>12, <1>1
  DEF LoadSession, AnswerWithoutChange, ReconcileParts, ValidateStoredParts,
      AnswerIsGone
<1>13. ASSUME NEW w \in Workers,
              SelectForAbort(w) \/ BeginCleanupReloaded(w) \/ ReadProjection(w)
       PROVE  [Outcome!Next]_(Outcome!vars)
  BY <1>13, <1>1 DEF SelectForAbort, BeginCleanupReloaded, ReadProjection
<1>14. ASSUME NEW a \in Crashing, Crash(a) PROVE [Outcome!Next]_(Outcome!vars)
  BY <1>14, <1>1 DEF Crash
<1>15. CASE UNCHANGED vars
  BY <1>15, <1>1 DEF vars
<1> QED
  BY <1>4, <1>5, <1>6, <1>7, <1>8, <1>9, <1>10, <1>11, <1>12, <1>13, <1>14,
     <1>15
  DEF Next, Handle, Reclaim, Actors

\* Whatever interleaves, the session keeps the promise of UploadOutcome.
THEOREM SessionKeepsOutcome == Spec => KeepsOutcome
<1>1. Init => Outcome!Init
  BY DEF Init, Outcome!Init
<1>2. IInv /\ [Next]_vars => [Outcome!Next]_(Outcome!vars)
  BY OutcomeStep DEF IInv
<1> QED
  BY <1>1, <1>2, Invariant, PTL DEF Spec, KeepsOutcome, Outcome!Spec

-----------------------------------------------------------------------------
(* What leaves a session in COMPLETING with nobody at work on it.           *)

\* Of all steps only two strand a session in COMPLETING, and both end a complete
\* request between its transactions: its death, and the loss of its answer's
\* record.  No refusal, restore, abort, expiry, promotion or cleanup does.
THEOREM CompletingAlwaysAttended == Spec => CompletingIsAttended
<1> DEFINE Attended == \E r \in Requests : pc[r] \in CompletePoints
           Gone == \E r \in Requests : /\ pc[r] \in CompletePoints
                                       /\ Crash(r) \/ AnswerIsGone(r)
<1>1. ASSUME TypeOK, EvidenceHolds, [Next]_vars, ~Stranded, Stranded', ~Gone
      PROVE  FALSE
  <2> SUFFICES Attended'
    BY <1>1 DEF Stranded
  <2>0. status' = "COMPLETING" /\ (status = "COMPLETING" => Attended)
    BY <1>1 DEF Stranded
  <2> USE <2>0 DEF CompletePoints
  <2>1. CASE UNCHANGED <<status, pc>>
    BY <1>1, <2>1
  <2>2. ASSUME NEW a \in Actors, NEW point, Goto(a, point), UNCHANGED status,
               pc[a] \notin CompletePoints \/ point \in CompletePoints,
               a \in Workers => point \notin CompletePoints
        PROVE  Attended'
    <3>1. PICK r \in Requests : pc[r] \in CompletePoints
      BY <1>1, <2>2
    <3> QED
      BY <1>1, <2>2, <3>1, ConstantsAssumption DEF Goto, TypeOK, Actors
  <2>3. ASSUME NEW r \in Requests, BeginComplete(r) PROVE Attended'
    BY <1>1, <2>3 DEF BeginComplete, Goto, TypeOK, Actors
  <2>4. ASSUME NEW r \in Requests,
               \/ PauseSession(r) \/ ResumeSession(r) \/ RestoreAfterMissingParts(r)
               \/ RestoreStatus(r) \/ MarkCompleted(r) \/ MarkAborted(r)
               \/ BeginAbort(r)
        PROVE  Attended'
    <3>1. RestoreStatus(r) => snap[r] # "COMPLETING"
      BY <1>1 DEF RestoreStatus, EvidenceHolds, At
    <3> QED
      BY <2>2, <2>4, <3>1
      DEF PauseSession, ResumeSession, RestoreAfterMissingParts, RestoreStatus,
          MarkCompleted, MarkAborted, BeginAbort
  <2>5. ASSUME NEW r \in Requests, NEW p \in Parts,
               PresignPart(r, p) \/ AcknowledgePart(r, p)
        PROVE  Attended'
    <3>1. UNCHANGED status /\ pc[r] = "loaded" /\ Goto(r, "idle")
      BY <2>5
      DEF PresignPart, AcknowledgePart, Promote, Return, GotoFresh, At
    <3> QED
      BY <2>2, <3>1, ConstantsAssumption DEF Actors
  <2>6. ASSUME NEW r \in Requests,
               \/ LoadSession(r) \/ AnswerWithoutChange(r) \/ ReconcileParts(r)
               \/ ValidateStoredParts(r) \/ CompleteMultipart(r)
               \/ StorageCallFails(r)
        PROVE  Attended'
    <3>1. /\ UNCHANGED status
          /\ \E point : /\ Goto(r, point)
                        /\ pc[r] \notin CompletePoints \/ point \in CompletePoints
      BY <2>6
      DEF LoadSession, AnswerWithoutChange, ReconcileParts, ValidateStoredParts,
          CompleteMultipart, StorageCallFails, Return, GotoFresh, At, row
    <3> QED
      BY <2>2, <3>1, ConstantsAssumption DEF Actors
  <2>7. ASSUME NEW a \in Actors, DiscardMultipart(a) PROVE Attended'
    <3>1. /\ UNCHANGED status /\ pc[a] = "aborting"
          /\ Goto(a, "discarded") \/ Goto(a, "idle")
      BY <2>7 DEF DiscardMultipart, GotoFresh, At, row
    <3> QED
      BY <2>2, <3>1
  <2>8. ASSUME NEW w \in Workers,
               \/ SelectForAbort(w) \/ BeginCleanupReloaded(w)
               \/ ReadProjection(w) \/ CleanupCallFails(w)
        PROVE  Attended'
    <3>1. /\ UNCHANGED status /\ pc[w] \notin CompletePoints
          /\ \E point \in {"loaded", "aborting", "cancelled", "cancelling",
                          "cleanupFailed"} : Goto(w, point)
      BY <2>8
      DEF SelectForAbort, BeginCleanupReloaded, ReadProjection, CleanupCallFails,
          At, row
    <3> QED
      BY <2>2, <3>1 DEF Actors
  <2>9. ASSUME NEW w \in Workers, BeginCleanup(w) \/ MarkCleanupFailed(w)
        PROVE  Attended'
    <3>1. UNCHANGED status /\ (Goto(w, "aborting") \/ Goto(w, "idle"))
          /\ pc[w] \notin CompletePoints
      BY <2>9 DEF BeginCleanup, MarkCleanupFailed, Return, GotoFresh, At
    <3> QED
      BY <2>2, <3>1 DEF Actors
  <2>10. ASSUME NEW w \in Workers, ExpireSession(w) \/ MarkCleanedUp(w)
         PROVE  Attended'
    BY <2>10 DEF ExpireSession, MarkCleanedUp
  <2>11. ASSUME NEW p \in Parts, NEW content \in Sent,
                PutPart(p, content)
         PROVE  Attended'
    BY <2>11, <2>1 DEF PutPart, row, memory
  <2>12. ASSUME NEW a \in Crashing, Crash(a) PROVE Attended'
    <3>1. UNCHANGED status /\ Goto(a, "idle")
      BY <2>12 DEF Crash, Return, GotoFresh, row
    <3>2. a \in Actors /\ (a \in Requests => pc[a] \notin CompletePoints)
      BY <1>1, <2>12, ConstantsAssumption DEF Actors
    <3>3. PICK r \in Requests : pc[r] \in CompletePoints
      BY <3>1
    <3> QED
      BY <1>1, <3>1, <3>2, <3>3, ConstantsAssumption DEF Goto, TypeOK, Actors
  <2>14. ASSUME NEW r \in Requests, AnswerIsGone(r) PROVE Attended'
    <3>1. UNCHANGED status /\ Goto(r, "idle") /\ pc[r] \notin CompletePoints
      BY <1>1, <2>14 DEF AnswerIsGone, Return, GotoFresh, row
    <3> QED
      BY <2>2, <3>1, ConstantsAssumption DEF Actors
  <2>13. CASE UNCHANGED vars
    BY <2>13, <2>1 DEF vars, row, memory
  <2> QED
    BY <1>1, <2>3, <2>4, <2>5, <2>6, <2>7, <2>8, <2>9, <2>10, <2>11, <2>12, <2>13,
       <2>14
    DEF Next, Handle, Reclaim, Actors
<1>2. TypeOK /\ EvidenceHolds /\ [Next]_vars => [Stranded' => Stranded \/ Gone]_vars
  BY <1>1
<1> QED
  BY <1>2, Invariant, PTL DEF Spec, IInv, CompletingIsAttended

-----------------------------------------------------------------------------
(* A terminal status is withdrawn only by handlers that were already at work *)
(* when it was written.                                                     *)

\* The row says s, and whoever is at work has read that it does.
AtRest(s) ==
    /\ status = s
    /\ \A r \in Requests : At(r, "idle") \/ (At(r, "loaded") /\ snap[r] = s)
    /\ \A w \in Workers : At(w, "idle")

LEMMA RestStep ==
  ASSUME NEW s \in {"COMPLETED", "ABORTED", "COMPLETING"},
         TypeOK, [Next]_vars, AtRest(s)
  PROVE  AtRest(s)'
<1> USE ConstantsAssumption DEF AtRest, At, Actors, TypeOK
<1>1. ASSUME UNCHANGED <<status, memory>> PROVE AtRest(s)'
  BY <1>1 DEF memory
<1>2. ASSUME NEW r \in Requests, LoadSession(r) PROVE AtRest(s)'
  BY <1>2 DEF LoadSession, Goto, row
<1>3. ASSUME NEW a \in Actors, Return(a), UNCHANGED status PROVE AtRest(s)'
  <2>1. pc' = [pc EXCEPT ![a] = "idle"] /\ snap' = [snap EXCEPT ![a] = "INITIATED"]
    BY <1>3 DEF Return, GotoFresh, Goto
  <2> QED
    BY <1>3, <2>1
<1>4. ASSUME NEW r \in Requests, Handle(r) PROVE AtRest(s)'
  <2>1. CASE AnswerWithoutChange(r) \/ ReconcileParts(r)
    BY <1>3, <2>1 DEF AnswerWithoutChange, ReconcileParts, row
  <2>2. /\ ~PauseSession(r) /\ ~ResumeSession(r) /\ ~BeginComplete(r) /\ ~BeginAbort(r)
        /\ \A p \in Parts : ~PresignPart(r, p) /\ ~AcknowledgePart(r, p)
    BY DEF PauseSession, ResumeSession, BeginComplete, BeginAbort, PresignPart,
           AcknowledgePart, CanPause, CanResume, CanComplete, CanAbort, CanPresign,
           AckRejected
  <2>3. /\ ~ValidateStoredParts(r) /\ ~RestoreAfterMissingParts(r)
        /\ ~CompleteMultipart(r) /\ ~MarkCompleted(r) /\ ~DiscardMultipart(r)
        /\ ~MarkAborted(r) /\ ~StorageCallFails(r) /\ ~RestoreStatus(r)
    BY DEF ValidateStoredParts, RestoreAfterMissingParts, CompleteMultipart,
           MarkCompleted, DiscardMultipart, MarkAborted, StorageCallFails,
           RestoreStatus
  <2> QED
    BY <1>4, <2>1, <2>2, <2>3 DEF Handle
<1>5. ASSUME NEW w \in Workers PROVE ~ExpireSession(w) /\ ~Reclaim(w)
  <2>1. ~ExpireSession(w) /\ ~SelectForAbort(w)
    BY DEF ExpireSession, SelectForAbort, Expirable, Reclaimable
  <2>2. /\ ~BeginCleanup(w) /\ ~BeginCleanupReloaded(w) /\ ~DiscardMultipart(w)
        /\ ~ReadProjection(w) /\ ~MarkCleanedUp(w) /\ ~CleanupCallFails(w)
        /\ ~MarkCleanupFailed(w)
    BY DEF BeginCleanup, BeginCleanupReloaded, DiscardMultipart, ReadProjection,
           MarkCleanedUp, CleanupCallFails, MarkCleanupFailed
  <2> QED
    BY <2>1, <2>2 DEF Reclaim
<1>6. ASSUME NEW p \in Parts, NEW content \in Sent,
             PutPart(p, content)
      PROVE  AtRest(s)'
  BY <1>1, <1>6 DEF PutPart, row
<1>7. ASSUME NEW a \in Crashing, Crash(a) PROVE AtRest(s)'
  BY <1>3, <1>7 DEF Crash, row
<1>9. ASSUME NEW r \in Requests PROVE ~AnswerIsGone(r)
  BY DEF AnswerIsGone
<1>8. CASE UNCHANGED vars
  BY <1>1, <1>8 DEF vars, row
<1> QED
  BY <1>2, <1>4, <1>5, <1>6, <1>7, <1>8, <1>9 DEF Next

\* What is left of the rule that COMPLETED and ABORTED are final (section 4 of
\* the README shows a run that leaves COMPLETED): once such a session is at
\* rest, no request, expiry, cleanup or crash to come ever changes its status.
\* Only a handler that had read an earlier one can.
THEOREM TerminalAtRestIsFinal ==
    Spec => /\ [](AtRest("COMPLETED") => [](status = "COMPLETED"))
            /\ [](AtRest("ABORTED") => [](status = "ABORTED"))
<1>1. TypeOK /\ [Next]_vars /\ AtRest("COMPLETED") => AtRest("COMPLETED")'
  BY RestStep
<1>2. TypeOK /\ [Next]_vars /\ AtRest("ABORTED") => AtRest("ABORTED")'
  BY RestStep
<1>3. /\ AtRest("COMPLETED") => status = "COMPLETED"
      /\ AtRest("ABORTED") => status = "ABORTED"
  BY DEF AtRest
<1> QED
  BY <1>1, <1>2, <1>3, TypeCorrect, PTL DEF Spec

\* COMPLETING whose request died or lost its answer's record (section 4 of the
\* README: the final object is not looked for again): every request is refused
\* and no job takes the session up, so that the status never changes, whether
\* or not storage has the object.
THEOREM AbandonedCompletionIsStuck ==
    Spec => [](AtRest("COMPLETING") => [](status = "COMPLETING"))
<1>1. TypeOK /\ [Next]_vars /\ AtRest("COMPLETING") => AtRest("COMPLETING")'
  BY RestStep
<1>2. AtRest("COMPLETING") => status = "COMPLETING"
  BY DEF AtRest
<1> QED
  BY <1>1, <1>2, TypeCorrect, PTL DEF Spec

=============================================================================
