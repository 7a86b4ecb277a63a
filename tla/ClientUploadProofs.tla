-------------------------- MODULE ClientUploadProofs --------------------------
(***************************************************************************)
(* Proofs about ClientUpload for any number of runs, parts, and faults.      *)
(***************************************************************************)
EXTENDS ClientUpload, TLAPS

\* A thread that returned an ETag has stored its part.
ThreadsAreTrue ==
    \A r \in Runs, n \in Parts : thread[r][n] \in {"returned", "taken"} => n \in StoredParts

\* While a run uploads, each part is marked, or in the batch, or in a later one;
\* and a taken result is marked.
Covered(r) ==
    /\ At(r, "ready") => Parts \subseteq mem[r].uploaded \cup pending[r]
    /\ At(r, "uploading") =>
        /\ Parts \subseteq mem[r].uploaded \cup pending[r] \cup Batch(r)
        /\ \A n \in Parts : thread[r][n] = "taken" => n \in mem[r].uploaded
NothingIsSkipped == \A r \in Runs : Covered(r)

\* Everything that says the upload is complete says so after storage.
AssembledFirst ==
    /\ serving.step = "begun" => StoredParts = Parts
    /\ serving.step # "incomplete"
    /\ mpu = "COMPLETED" => StoredParts = Parts
    /\ (serving.step = "assembled" \/ status = "COMPLETED" \/ record = "answered")
            => mpu = "COMPLETED"
    /\ manifest.status = "COMPLETED" => mpu = "COMPLETED"
    /\ operator.status # "COMPLETED"
    /\ \A r \in Runs : At(r, "told") \/ mem[r].status = "COMPLETED" => mpu = "COMPLETED"

\* Unless disturbed, runs see version 1 of the file and store nothing else.
OneVersion ==
    /\ ~disturbed => /\ \A n \in Parts : stored[n] \in {0, 1}
                     /\ \A r \in Runs : ~At(r, Idle) => file = 1
    /\ \A r \in Runs, n \in Parts : thread[r][n] = "putting" => ~At(r, Idle)

IInv ==
    /\ TypeOK
    /\ MarkedIsStored /\ ThreadsAreTrue
    /\ NothingIsSkipped /\ AssembledFirst
    /\ OneVersion

-----------------------------------------------------------------------------

\* What marking a manifest does to it.
LEMMA Marking ==
    ASSUME NEW m \in Manifest
    PROVE  /\ \A S \in SUBSET Parts :
                /\ MarkUploaded(m, S) \in Manifest
                /\ MarkUploaded(m, S).uploaded = m.uploaded \cup S
                /\ MarkUploaded(m, S).status = m.status
           /\ \A n \in Parts :
                /\ MarkFailed(m, n) \in Manifest
                /\ MarkFailed(m, n).uploaded \subseteq m.uploaded
                /\ MarkFailed(m, n).status = m.status
           /\ \A s \in LocalStatus :
                /\ MarkLocal(m, s) \in Manifest
                /\ MarkLocal(m, s).uploaded = m.uploaded
                /\ MarkLocal(m, s).status = s
BY DEF Manifest, MarkUploaded, MarkFailed, MarkLocal

\* The manifest upload starts from marks nothing.
LEMMA NothingMarked ==
    /\ NoManifest \in Manifest
    /\ NoManifest.uploaded = {}
    /\ NoManifest.status = "UPLOADING"
BY DEF NoManifest, Manifest, LocalStatus

\* Every step keeps the types.
LEMMA TypeStep ==
    ASSUME TypeOK, Next
    PROVE  TypeOK'
<1>0. faults' \in 0 .. MaxFaults
  BY ClientAssumption DEF TypeOK, Next, Steadily
<1>m. ASSUME NEW r \in Runs
      PROVE  /\ \A S \in SUBSET Parts : MarkUploaded(mem[r], S) \in Manifest
             /\ \A n \in Parts : MarkFailed(mem[r], n) \in Manifest
             /\ \A s \in LocalStatus : MarkLocal(mem[r], s) \in Manifest
  BY Marking DEF TypeOK
<1>o. \A s \in LocalStatus : MarkLocal(manifest, s) \in Manifest
  BY Marking DEF TypeOK
<1>1. ASSUME NEW r \in Runs, NEW force \in BOOLEAN, Load(r, force)
      PROVE  TypeOK'
  BY <1>1, <1>0
  DEF Load, local, memory, session, finish, Goto, Idle,
      TypeOK, Points, ThreadStates, SessionStatus, NoThreads
<1>2. ASSUME NEW r \in Runs, GetSession(r)
      PROVE  TypeOK'
  <2>1. MarkLocal(mem[r], "COMPLETED") \in Manifest
    BY <1>m DEF LocalStatus
  <2>2. /\ pc' \in [Runs -> Points]
        /\ pending' \in [Runs -> SUBSET Parts]
        /\ thread' \in [Runs -> [Parts -> ThreadStates]]
    <3>1. Forget(r) \/ (Goto(r, "checked") /\ UNCHANGED <<pending, thread>>)
      BY <1>2 DEF GetSession, LeaveSaving, Leave
    <3>2. CASE Forget(r)
      BY <3>2 DEF TypeOK, Points, ThreadStates, NoThreads, Idle, Forget
    <3>3. CASE Goto(r, "checked") /\ UNCHANGED <<pending, thread>>
      BY <3>3 DEF TypeOK, Points, Goto
    <3>q. QED
      BY <3>1, <3>2, <3>3
  <2>3. mem' \in [Runs -> Manifest] /\ manifest' \in Manifest
    BY <1>2, <2>1, NothingMarked DEF GetSession, TypeOK, LeaveSaving, Leave
  <2>q. QED
    BY <1>2, <2>2, <2>3, <1>0 DEF GetSession, TypeOK, local, session, finish
<1>3. ASSUME NEW r \in Runs, Reconcile(r)
      PROVE  TypeOK'
  BY <1>3, <1>0, <1>m
  DEF Reconcile, local, memory, session, finish, Save, Goto, Missing, Reconciled, Observed,
      StoredParts,
      TypeOK, Points, ThreadStates, SessionStatus, NoThreads
<1>4. ASSUME NEW r \in Runs, PresignBatch(r)
      PROVE  TypeOK'
  BY <1>4, <1>0
  DEF PresignBatch, local, memory, session, finish, FirstBatch, Goto,
      TypeOK, Points, ThreadStates, SessionStatus, NoThreads
<1>5. ASSUME NEW r \in Runs, NEW n \in Parts,
              NEW answer \in {"putting", "returned", "raised"}, PutPart(r, n, answer)
      PROVE  TypeOK'
  BY <1>5, <1>0, ClientAssumption
  DEF PutPart, local, memory, session, finish, SetThread,
      TypeOK, Points, ThreadStates, SessionStatus, NoThreads
<1>6. ASSUME NEW r \in Runs, NEW n \in Parts, PutRefused(r, n)
      PROVE  TypeOK'
  BY <1>6, <1>0
  DEF PutRefused, local, memory, session, finish, SetThread,
      TypeOK, Points, ThreadStates, SessionStatus, NoThreads
<1>7. ASSUME NEW r \in Runs, NEW n \in Parts, TakeResult(r, n)
      PROVE  TypeOK'
  BY <1>7, <1>0, <1>m
  DEF TakeResult, local, memory, session, finish, SetThread, Save,
      TypeOK, Points, ThreadStates, SessionStatus, NoThreads
<1>8. ASSUME NEW r \in Runs, NEW n \in Parts, TakeFailure(r, n)
      PROVE  TypeOK'
  BY <1>8, <1>0, <1>m
  DEF TakeFailure, local, memory, session, finish, Save, Goto,
      TypeOK, Points, ThreadStates, SessionStatus, NoThreads
<1>9. ASSUME NEW r \in Runs, Drained(r)
      PROVE  TypeOK'
  <2>1. MarkLocal(mem[r], "PAUSED") \in Manifest
    BY <1>m DEF LocalStatus
  <2>2. /\ pc' \in [Runs -> Points]
        /\ pending' \in [Runs -> SUBSET Parts]
        /\ thread' \in [Runs -> [Parts -> ThreadStates]]
    <3>1. Forget(r)
      BY <1>9 DEF Drained, LeaveSaving, Leave
    <3>q. QED
      BY <3>1 DEF TypeOK, Points, ThreadStates, NoThreads, Idle, Forget
  <2>3. mem' \in [Runs -> Manifest] /\ manifest' \in Manifest
    BY <1>9, <2>1, NothingMarked DEF Drained, TypeOK, LeaveSaving, Leave
  <2>q. QED
    BY <1>9, <2>2, <2>3, <1>0 DEF Drained, TypeOK, local, session, finish
<1>10. ASSUME NEW r \in Runs, Acknowledge(r)
      PROVE  TypeOK'
  BY <1>10, <1>0
  DEF Acknowledge, local, memory, session, finish, Batch, Goto,
      TypeOK, Points, ThreadStates, SessionStatus, NoThreads
<1>11. ASSUME NEW r \in Runs, AskComplete(r)
      PROVE  TypeOK'
  BY <1>11, <1>0
  DEF AskComplete, local, memory, session, finish, Goto,
      TypeOK, Points, ThreadStates, SessionStatus, NoThreads
<1>12. ASSUME NEW r \in Runs, NoteCompleted(r)
      PROVE  TypeOK'
  BY <1>12, <1>0, <1>m, NothingMarked
  DEF NoteCompleted, local, memory, session, finish, LeaveSaving, Forget, Idle,
      LocalStatus,
      TypeOK, Points, ThreadStates, SessionStatus, NoThreads
<1>13. ASSUME NEW r \in Runs, Refused(r)
      PROVE  TypeOK'
  BY <1>13, <1>0, NothingMarked
  DEF Refused, local, memory, session, finish, Leave, Forget, Idle,
      TypeOK, Points, ThreadStates, SessionStatus, NoThreads
<1>14. ASSUME NEW r \in Runs, Crash(r)
      PROVE  TypeOK'
  BY <1>14, <1>0, NothingMarked
  DEF Crash, local, memory, session, finish, Leave, Forget, Idle,
      TypeOK, Points, ThreadStates, SessionStatus, NoThreads
<1>15. ASSUME NEW r \in Runs, LoseAnswer(r)
      PROVE  TypeOK'
  BY <1>15, <1>0, NothingMarked
  DEF LoseAnswer, local, memory, session, finish, Leave, Forget, Idle, Reconciled, Observed,
      StoredParts, Batch,
      TypeOK, Points, ThreadStates, SessionStatus, NoThreads
<1>16. ASSUME NEW r \in Runs, Interrupt(r)
      PROVE  TypeOK'
  BY <1>16, <1>0
  DEF Interrupt, local, memory, session, finish, Goto,
      TypeOK, Points, ThreadStates, SessionStatus, NoThreads
<1>17. ASSUME ServerAssembles
      PROVE  TypeOK'
  BY <1>17, <1>0
  DEF ServerAssembles, local, memory, session, finish, Serve, Observed, StoredParts,
      TypeOK, Points, ThreadStates, SessionStatus, NoThreads
<1>18. ASSUME ServerCompletes
      PROVE  TypeOK'
  BY <1>18, <1>0
  DEF ServerCompletes, local, memory, session, finish, Answer, NotServing,
      TypeOK, Points, ThreadStates, SessionStatus, NoThreads
<1>19. ASSUME ServerRefuses \/ AnswerIsGone
      PROVE  TypeOK'
  <2>1. CASE ServerRefuses
    BY <2>1, <1>0
    DEF ServerRefuses, local, memory, session, finish, Answer, NotServing,
        TypeOK, Points, ThreadStates, SessionStatus, NoThreads
  <2>2. CASE AnswerIsGone
    BY <2>2, <1>0
    DEF AnswerIsGone, local, memory, session, finish, Answer, NotServing,
        TypeOK, Points, ThreadStates, SessionStatus, NoThreads
  <2>q. QED
    BY <1>19, <2>1, <2>2
<1>20. ASSUME ServerFails,
              mpu' = mpu \/ (mpu' = "COMPLETED" /\ StoredParts = Parts)
      PROVE  TypeOK'
  BY <1>20, <1>0
  DEF ServerFails, local, memory, session, finish, Serve,
      TypeOK, Points, ThreadStates, SessionStatus, NoThreads
<1>21. ASSUME ServerDies
      PROVE  TypeOK'
  BY <1>21, <1>0
  DEF ServerDies, local, memory, session, finish, NotServing,
      TypeOK, Points, ThreadStates, SessionStatus, NoThreads
<1>22. ASSUME ChangeFile
      PROVE  TypeOK'
  BY <1>22, <1>0, ClientAssumption
  DEF ChangeFile, local, memory, session, finish,
      TypeOK, Points, ThreadStates, SessionStatus, NoThreads
<1>23. ASSUME OperatorPauses
      PROVE  TypeOK'
  <2>1. operator' \in Manifest
    BY <1>23, <1>o DEF OperatorPauses, LocalStatus
  <2>2. status' \in SessionStatus /\ replayed' \in SUBSET {"pause", "resume"}
    BY <1>23 DEF OperatorPauses, TypeOK, SessionStatus
  <2>q. QED
    BY <1>23, <2>1, <2>2, <1>0 DEF OperatorPauses, TypeOK, local, memory, finish
<1>24. ASSUME OperatorAborts
      PROVE  TypeOK'
  BY <1>24, <1>0, <1>o
  DEF OperatorAborts, local, memory, session, finish, LocalStatus,
      TypeOK, Points, ThreadStates, SessionStatus, NoThreads
<1>25. ASSUME OperatorSaves
      PROVE  TypeOK'
  BY <1>25, <1>0, NothingMarked
  DEF OperatorSaves, local, memory, session, finish,
      TypeOK, Points, ThreadStates, SessionStatus, NoThreads
<1>26. ASSUME OperatorResumes
      PROVE  TypeOK'
  BY <1>26, <1>0
  DEF OperatorResumes, local, memory, session, finish,
      TypeOK, Points, ThreadStates, SessionStatus, NoThreads
<1>27. ASSUME Expire
      PROVE  TypeOK'
  BY <1>27, <1>0
  DEF Expire, local, memory, session, finish,
      TypeOK, Points, ThreadStates, SessionStatus, NoThreads
<1>q. QED
  BY <1>1, <1>2, <1>3, <1>4, <1>5, <1>6, <1>7, <1>8, <1>9, <1>10,
     <1>11, <1>12, <1>13, <1>14, <1>15, <1>16, <1>17, <1>18, <1>19,
     <1>20, <1>21, <1>22, <1>23, <1>24, <1>25, <1>26, <1>27
     DEF Next, Steadily, Ordinary, Work, Server, Fault, Environment, StorageFails

-----------------------------------------------------------------------------
(* What is marked is stored.                                                *)

\* What storage holds stays stored.
LEMMA StoredStays ==
    ASSUME TypeOK, Next
    PROVE  StoredParts \subseteq StoredParts'
<1>1. ASSUME NEW r \in Runs, Work(r)
      PROVE  UNCHANGED stored
  BY <1>1 DEF Work, GetSession, Reconcile, PresignBatch, TakeResult, TakeFailure,
     PutRefused, Drained, Acknowledge, AskComplete, NoteCompleted, Refused
<1>2. ASSUME Server \/ Environment \/ OperatorSaves \/ OperatorResumes
      PROVE  UNCHANGED stored
  BY <1>2 DEF Server, Environment, OperatorSaves, OperatorResumes, ServerAssembles,
     ServerCompletes, ServerRefuses, ServerFails, StorageFails, AnswerIsGone,
     ServerDies, ChangeFile, OperatorPauses, OperatorAborts, Expire
<1>3. ASSUME NEW r \in Runs, NEW force \in BOOLEAN,
             Load(r, force) \/ Crash(r) \/ LoseAnswer(r) \/ Interrupt(r)
      PROVE  UNCHANGED stored
  BY <1>3 DEF Load, Crash, LoseAnswer, Interrupt
<1>4. ASSUME NEW r \in Runs, NEW n \in Parts, NEW answer,
             PutPart(r, n, answer) \/ PutRefused(r, n)
      PROVE  UNCHANGED stored \/ \E m \in Parts : stored' = [stored EXCEPT ![m] = file]
  BY <1>4 DEF PutPart, PutRefused
<1>5. UNCHANGED stored \/ \E n \in Parts : stored' = [stored EXCEPT ![n] = file]
  BY <1>1, <1>2, <1>3, <1>4 DEF Next, Steadily, Ordinary, Fault
<1>6. file # 0
  BY ClientAssumption DEF TypeOK
<1>q. QED
  BY <1>5, <1>6 DEF TypeOK, StoredParts

\* Every step keeps the marks true: of manifests, of rows, and of threads.
LEMMA MarksStep ==
    ASSUME TypeOK, MarkedIsStored, ThreadsAreTrue, Next
    PROVE  (MarkedIsStored /\ ThreadsAreTrue)'
<1>0. StoredParts \subseteq StoredParts'
  BY StoredStays
<1>m. ASSUME NEW r \in Runs
      PROVE  /\ \A S \in SUBSET Parts :
                  MarkUploaded(mem[r], S).uploaded = mem[r].uploaded \cup S
             /\ \A n \in Parts : MarkFailed(mem[r], n).uploaded \subseteq mem[r].uploaded
             /\ \A s \in LocalStatus : MarkLocal(mem[r], s).uploaded = mem[r].uploaded
  BY Marking DEF TypeOK
<1>o. \A s \in LocalStatus : MarkLocal(manifest, s).uploaded = manifest.uploaded
  BY Marking DEF TypeOK
<1>f. file # 0
  BY ClientAssumption DEF TypeOK
<1>1. ASSUME NEW r \in Runs, NEW force \in BOOLEAN, Load(r, force)
      PROVE  (MarkedIsStored /\ ThreadsAreTrue)'
  BY <1>1, <1>0
  DEF Load, local, memory, session, finish, Goto, Idle,
      TypeOK, MarkedIsStored, ThreadsAreTrue
<1>2. ASSUME NEW r \in Runs, GetSession(r)
      PROVE  (MarkedIsStored /\ ThreadsAreTrue)'
  <2>1. manifest'.uploaded \subseteq StoredParts
    BY <1>2, <1>m DEF GetSession, MarkedIsStored, LeaveSaving, LocalStatus
  <2>2. \A q \in Runs : mem'[q] \in {mem[q], NoManifest}
    BY <1>2 DEF GetSession, TypeOK, LeaveSaving, Leave
  <2>3. \A q \in Runs, m \in Parts : thread'[q][m] \in {thread[q][m], "none"}
    <3>1. thread' = [thread EXCEPT ![r] = NoThreads] \/ thread' = thread
      BY <1>2 DEF GetSession, LeaveSaving, Leave, Forget
    <3>q. QED
      BY <3>1 DEF TypeOK, NoThreads
  <2>q. QED
    BY <1>2, <2>1, <2>2, <2>3, <1>0, NothingMarked
    DEF GetSession, MarkedIsStored, ThreadsAreTrue, session
<1>3. ASSUME NEW r \in Runs, Reconcile(r)
      PROVE  (MarkedIsStored /\ ThreadsAreTrue)'
  <2>1. Reconciled \subseteq StoredParts /\ Reconciled \in SUBSET Parts
    BY DEF Reconciled, Observed, MarkedIsStored, StoredParts
  <2>2. MarkUploaded(mem[r], Reconciled).uploaded \subseteq StoredParts
    BY <2>1, <1>m DEF MarkedIsStored
  <2>q. QED
    BY <1>3, <2>1, <2>2, <1>0
    DEF Reconcile, Save, TypeOK, MarkedIsStored, ThreadsAreTrue
<1>4. ASSUME NEW r \in Runs, PresignBatch(r)
      PROVE  (MarkedIsStored /\ ThreadsAreTrue)'
  BY <1>4, <1>0
  DEF PresignBatch, local, memory, session, finish,
      TypeOK, MarkedIsStored, ThreadsAreTrue
<1>5. ASSUME NEW r \in Runs, NEW n \in Parts,
              NEW answer \in {"putting", "returned", "raised"}, PutPart(r, n, answer)
      PROVE  (MarkedIsStored /\ ThreadsAreTrue)'
  BY <1>5, <1>0, <1>f
  DEF PutPart, local, memory, session, finish, SetThread, StoredParts,
      TypeOK, MarkedIsStored, ThreadsAreTrue
<1>6. ASSUME NEW r \in Runs, NEW n \in Parts, PutRefused(r, n)
      PROVE  (MarkedIsStored /\ ThreadsAreTrue)'
  BY <1>6, <1>0
  DEF PutRefused, local, memory, session, finish, SetThread,
      TypeOK, MarkedIsStored, ThreadsAreTrue
<1>7. ASSUME NEW r \in Runs, NEW n \in Parts, TakeResult(r, n)
      PROVE  (MarkedIsStored /\ ThreadsAreTrue)'
  <2>1. n \in StoredParts /\ {n} \in SUBSET Parts
    BY <1>7 DEF TakeResult, ThreadsAreTrue
  <2>2. MarkUploaded(mem[r], {n}).uploaded = mem[r].uploaded \cup {n}
    BY <2>1, <1>m
  <2>3. \A q \in Runs, m \in Parts : thread'[q][m] \in {"returned", "taken"}
            => m = n \/ thread[q][m] \in {"returned", "taken"}
    BY <1>7 DEF TakeResult, SetThread, TypeOK
  <2>q. QED
    BY <1>7, <2>1, <2>2, <2>3, <1>0
    DEF TakeResult, Save, TypeOK, MarkedIsStored, ThreadsAreTrue, session
<1>8. ASSUME NEW r \in Runs, NEW n \in Parts, TakeFailure(r, n)
      PROVE  (MarkedIsStored /\ ThreadsAreTrue)'
  BY <1>8, <1>0, <1>m
  DEF TakeFailure, local, memory, session, finish, Save, Goto,
      TypeOK, MarkedIsStored, ThreadsAreTrue
<1>9. ASSUME NEW r \in Runs, Drained(r)
      PROVE  (MarkedIsStored /\ ThreadsAreTrue)'
  <2>1. manifest'.uploaded \subseteq StoredParts
    BY <1>9, <1>m DEF Drained, MarkedIsStored, LeaveSaving, LocalStatus
  <2>2. \A q \in Runs : mem'[q] \in {mem[q], NoManifest}
    BY <1>9 DEF Drained, TypeOK, LeaveSaving, Leave
  <2>3. \A q \in Runs, m \in Parts : thread'[q][m] \in {thread[q][m], "none"}
    <3>1. thread' = [thread EXCEPT ![r] = NoThreads] \/ thread' = thread
      BY <1>9 DEF Drained, LeaveSaving, Leave, Forget
    <3>q. QED
      BY <3>1 DEF TypeOK, NoThreads
  <2>q. QED
    BY <1>9, <2>1, <2>2, <2>3, <1>0, NothingMarked
    DEF Drained, MarkedIsStored, ThreadsAreTrue, session
<1>10. ASSUME NEW r \in Runs, Acknowledge(r)
      PROVE  (MarkedIsStored /\ ThreadsAreTrue)'
  <2>1. Batch(r) \subseteq StoredParts
    BY <1>10 DEF Acknowledge, Batch, ThreadsAreTrue
  <2>2. \A q \in Runs, m \in Parts : thread'[q][m] \in {thread[q][m], "none"}
    BY <1>10 DEF Acknowledge, TypeOK, NoThreads
  <2>q. QED
    BY <1>10, <2>1, <2>2, <1>0
    DEF Acknowledge, MarkedIsStored, ThreadsAreTrue
<1>11. ASSUME NEW r \in Runs, AskComplete(r)
      PROVE  (MarkedIsStored /\ ThreadsAreTrue)'
  BY <1>11, <1>0
  DEF AskComplete, local, memory, session, finish, Goto,
      TypeOK, MarkedIsStored, ThreadsAreTrue
<1>12. ASSUME NEW r \in Runs, NoteCompleted(r)
      PROVE  (MarkedIsStored /\ ThreadsAreTrue)'
  BY <1>12, <1>0, <1>m, NothingMarked
  DEF NoteCompleted, local, memory, session, finish, LeaveSaving, Forget, Idle,
      LocalStatus, NoThreads,
      TypeOK, MarkedIsStored, ThreadsAreTrue
<1>13. ASSUME NEW r \in Runs, Refused(r)
      PROVE  (MarkedIsStored /\ ThreadsAreTrue)'
  BY <1>13, <1>0, NothingMarked
  DEF Refused, local, memory, session, finish, Leave, Forget, Idle, NoThreads,
      TypeOK, MarkedIsStored, ThreadsAreTrue
<1>14. ASSUME NEW r \in Runs, Crash(r)
      PROVE  (MarkedIsStored /\ ThreadsAreTrue)'
  BY <1>14, <1>0, NothingMarked
  DEF Crash, local, memory, session, finish, Leave, Forget, Idle, NoThreads,
      TypeOK, MarkedIsStored, ThreadsAreTrue
<1>15. ASSUME NEW r \in Runs, LoseAnswer(r)
      PROVE  (MarkedIsStored /\ ThreadsAreTrue)'
  <2>1. rows' \subseteq StoredParts
    BY <1>15 DEF LoseAnswer, MarkedIsStored, Reconciled, Observed, Batch, ThreadsAreTrue, At
  <2>2. \A q \in Runs : mem'[q] \in {mem[q], NoManifest}
    BY <1>15 DEF LoseAnswer, TypeOK, Leave
  <2>3. \A q \in Runs, m \in Parts : thread'[q][m] \in {thread[q][m], "none"}
    BY <1>15 DEF LoseAnswer, Leave, Forget, TypeOK, NoThreads
  <2>q. QED
    BY <1>15, <2>1, <2>2, <2>3, <1>0, NothingMarked
    DEF LoseAnswer, MarkedIsStored, ThreadsAreTrue, local
<1>16. ASSUME NEW r \in Runs, Interrupt(r)
      PROVE  (MarkedIsStored /\ ThreadsAreTrue)'
  BY <1>16, <1>0
  DEF Interrupt, local, memory, session, finish, Goto,
      TypeOK, MarkedIsStored, ThreadsAreTrue
<1>17. ASSUME ServerAssembles
      PROVE  (MarkedIsStored /\ ThreadsAreTrue)'
  BY <1>17, <1>0
  DEF ServerAssembles, local, memory, session, finish, Serve, Observed, StoredParts,
      TypeOK, MarkedIsStored, ThreadsAreTrue
<1>18. ASSUME ServerCompletes
      PROVE  (MarkedIsStored /\ ThreadsAreTrue)'
  BY <1>18, <1>0
  DEF ServerCompletes, local, memory, session, finish, Answer, NotServing,
      TypeOK, MarkedIsStored, ThreadsAreTrue
<1>19. ASSUME ServerRefuses \/ AnswerIsGone
      PROVE  (MarkedIsStored /\ ThreadsAreTrue)'
  BY <1>19, <1>0
  DEF ServerRefuses, AnswerIsGone, local, memory, session, finish, Answer, NotServing,
      TypeOK, MarkedIsStored, ThreadsAreTrue
<1>20. ASSUME ServerFails,
              mpu' = mpu \/ (mpu' = "COMPLETED" /\ StoredParts = Parts)
      PROVE  (MarkedIsStored /\ ThreadsAreTrue)'
  BY <1>20, <1>0
  DEF ServerFails, local, memory, session, finish, Serve,
      TypeOK, MarkedIsStored, ThreadsAreTrue
<1>21. ASSUME ServerDies
      PROVE  (MarkedIsStored /\ ThreadsAreTrue)'
  BY <1>21, <1>0
  DEF ServerDies, local, memory, session, finish, NotServing,
      TypeOK, MarkedIsStored, ThreadsAreTrue
<1>22. ASSUME ChangeFile
      PROVE  (MarkedIsStored /\ ThreadsAreTrue)'
  BY <1>22, <1>0
  DEF ChangeFile, local, memory, session, finish,
      TypeOK, MarkedIsStored, ThreadsAreTrue
<1>23. ASSUME OperatorPauses
      PROVE  (MarkedIsStored /\ ThreadsAreTrue)'
  BY <1>23, <1>0, <1>o
  DEF OperatorPauses, local, memory, session, finish, LocalStatus,
      TypeOK, MarkedIsStored, ThreadsAreTrue
<1>24. ASSUME OperatorAborts
      PROVE  (MarkedIsStored /\ ThreadsAreTrue)'
  BY <1>24, <1>0, <1>o
  DEF OperatorAborts, local, memory, session, finish, LocalStatus,
      TypeOK, MarkedIsStored, ThreadsAreTrue
<1>25. ASSUME OperatorSaves
      PROVE  (MarkedIsStored /\ ThreadsAreTrue)'
  BY <1>25, <1>0, NothingMarked
  DEF OperatorSaves, local, memory, session, finish,
      TypeOK, MarkedIsStored, ThreadsAreTrue
<1>26. ASSUME OperatorResumes
      PROVE  (MarkedIsStored /\ ThreadsAreTrue)'
  BY <1>26, <1>0
  DEF OperatorResumes, local, memory, session, finish,
      TypeOK, MarkedIsStored, ThreadsAreTrue
<1>27. ASSUME Expire
      PROVE  (MarkedIsStored /\ ThreadsAreTrue)'
  BY <1>27, <1>0
  DEF Expire, local, memory, session, finish,
      TypeOK, MarkedIsStored, ThreadsAreTrue
<1>q. QED
  BY <1>1, <1>2, <1>3, <1>4, <1>5, <1>6, <1>7, <1>8, <1>9, <1>10,
     <1>11, <1>12, <1>13, <1>14, <1>15, <1>16, <1>17, <1>18, <1>19,
     <1>20, <1>21, <1>22, <1>23, <1>24, <1>25, <1>26, <1>27
     DEF Next, Steadily, Ordinary, Work, Server, Fault, Environment, StorageFails

-----------------------------------------------------------------------------
(* Nothing is skipped, and completion comes after storage.                   *)

\* Every step keeps each part in the manifest, in the batch, or in a later one.
LEMMA SkipStep ==
    ASSUME TypeOK, NothingIsSkipped, Next
    PROVE  NothingIsSkipped'
<1>s. ASSUME NEW q \in Runs
      PROVE  /\ (/\ pc'[q] = pc[q] /\ mem'[q] = mem[q]
                 /\ pending'[q] = pending[q] /\ thread'[q] = thread[q]) => Covered(q)'
             /\ pc'[q] \notin {"ready", "uploading"} => Covered(q)'
  BY DEF NothingIsSkipped, Covered, At, Batch
<1>1. ASSUME NEW r \in Runs, NEW force \in BOOLEAN, Load(r, force)
      PROVE  NothingIsSkipped'
  BY <1>1, <1>s DEF Load, TypeOK, NothingIsSkipped,
     local, memory, session, finish, Goto
<1>2. ASSUME NEW r \in Runs, GetSession(r)
      PROVE  NothingIsSkipped'
  BY <1>2, <1>s DEF GetSession, TypeOK, NothingIsSkipped,
     local, memory, session, finish, LeaveSaving, Leave, Forget, Idle, Goto, At
<1>3. ASSUME NEW r \in Runs, Reconcile(r)
      PROVE  NothingIsSkipped'
  <2>1. \A q \in Runs \ {r} : /\ pc'[q] = pc[q] /\ mem'[q] = mem[q]
                              /\ pending'[q] = pending[q] /\ thread'[q] = thread[q]
    BY <1>3 DEF Reconcile, TypeOK, Goto, Save
  <2>2. /\ At(r, "ready")'
        /\ pending'[r] = Missing(mem'[r])
    BY <1>3 DEF Reconcile, TypeOK, Goto, At, Save
  <2>c. Covered(r)'
    BY <2>2 DEF Covered, At, Missing
  <2>q. QED
    BY <1>s, <2>1, <2>c DEF NothingIsSkipped
<1>4. ASSUME NEW r \in Runs, PresignBatch(r)
      PROVE  NothingIsSkipped'
  <2>1. \A q \in Runs \ {r} : /\ pc'[q] = pc[q] /\ mem'[q] = mem[q]
                              /\ pending'[q] = pending[q] /\ thread'[q] = thread[q]
    BY <1>4 DEF PresignBatch, TypeOK, Goto
  <2>2. /\ At(r, "uploading")'
        /\ mem'[r] = mem[r]
        /\ pending[r] \subseteq pending'[r] \cup Batch(r)'
        /\ \A n \in Parts : thread'[r][n] # "taken"
    BY <1>4 DEF PresignBatch, TypeOK, Goto, At, Batch, memory
  <2>c. Covered(r)'
    BY <1>4, <2>2 DEF PresignBatch, NothingIsSkipped, Covered, At
  <2>q. QED
    BY <1>s, <2>1, <2>c DEF NothingIsSkipped
<1>5. ASSUME NEW r \in Runs, NEW n \in Parts,
              NEW answer \in {"putting", "returned", "raised"}, PutPart(r, n, answer)
      PROVE  NothingIsSkipped'
  <2>1. \A q \in Runs \ {r} : /\ pc'[q] = pc[q] /\ mem'[q] = mem[q]
                              /\ pending'[q] = pending[q] /\ thread'[q] = thread[q]
    BY <1>5 DEF PutPart, TypeOK, SetThread
  <2>2. /\ UNCHANGED <<pc, mem, pending>>
        /\ \A m \in Parts : /\ thread'[r][m] = "none" <=> thread[r][m] = "none"
                            /\ thread'[r][m] = "taken" <=> thread[r][m] = "taken"
    BY <1>5 DEF PutPart, SetThread, TypeOK
  <2>3. Batch(r)' = Batch(r)
    BY <2>2 DEF Batch
  <2>4. Covered(r)
    BY DEF NothingIsSkipped
  <2>c. Covered(r)'
    BY <2>2, <2>3, <2>4 DEF Covered, At
  <2>q. QED
    BY <1>s, <2>1, <2>c DEF NothingIsSkipped
<1>6. ASSUME NEW r \in Runs, NEW n \in Parts, PutRefused(r, n)
      PROVE  NothingIsSkipped'
  <2>1. \A q \in Runs \ {r} : /\ pc'[q] = pc[q] /\ mem'[q] = mem[q]
                              /\ pending'[q] = pending[q] /\ thread'[q] = thread[q]
    BY <1>6 DEF PutRefused, TypeOK, SetThread
  <2>2. /\ UNCHANGED <<pc, mem, pending>>
        /\ \A m \in Parts : /\ thread'[r][m] = "none" <=> thread[r][m] = "none"
                            /\ thread'[r][m] = "taken" <=> thread[r][m] = "taken"
    BY <1>6 DEF PutRefused, SetThread, TypeOK
  <2>3. Batch(r)' = Batch(r)
    BY <2>2 DEF Batch
  <2>4. Covered(r)
    BY DEF NothingIsSkipped
  <2>c. Covered(r)'
    BY <2>2, <2>3, <2>4 DEF Covered, At
  <2>q. QED
    BY <1>s, <2>1, <2>c DEF NothingIsSkipped
<1>7. ASSUME NEW r \in Runs, NEW n \in Parts, TakeResult(r, n)
      PROVE  NothingIsSkipped'
  <2>1. \A q \in Runs \ {r} : /\ pc'[q] = pc[q] /\ mem'[q] = mem[q]
                              /\ pending'[q] = pending[q] /\ thread'[q] = thread[q]
    BY <1>7 DEF TakeResult, TypeOK, SetThread, Save
  <2>2. /\ UNCHANGED <<pc, pending>>
        /\ mem'[r].uploaded = mem[r].uploaded \cup {n}
    <3>1. {n} \in SUBSET Parts /\ mem[r] \in Manifest
      BY DEF TypeOK
    <3>2. MarkUploaded(mem[r], {n}).uploaded = mem[r].uploaded \cup {n}
      BY <3>1, Marking
    <3>q. QED
      BY <1>7, <3>2 DEF TakeResult, Save, TypeOK
  <2>3. \A m \in Parts : /\ thread'[r][m] = "none" <=> thread[r][m] = "none"
                         /\ thread'[r][m] = "taken" <=> m = n \/ thread[r][m] = "taken"
    BY <1>7 DEF TakeResult, SetThread, TypeOK
  <2>4. Batch(r)' = Batch(r)
    BY <2>3 DEF Batch
  <2>5. Covered(r)
    BY DEF NothingIsSkipped
  <2>c. Covered(r)'
    BY <2>2, <2>3, <2>4, <2>5 DEF Covered, At
  <2>q. QED
    BY <1>s, <2>1, <2>c DEF NothingIsSkipped
<1>8. ASSUME NEW r \in Runs, NEW n \in Parts, TakeFailure(r, n)
      PROVE  NothingIsSkipped'
  BY <1>8, <1>s DEF TakeFailure, TypeOK, NothingIsSkipped,
     local, memory, session, finish, Save, Goto
<1>9. ASSUME NEW r \in Runs, Drained(r)
      PROVE  NothingIsSkipped'
  BY <1>9, <1>s DEF Drained, TypeOK, NothingIsSkipped,
     local, memory, session, finish, LeaveSaving, Leave, Forget, Idle
<1>10. ASSUME NEW r \in Runs, Acknowledge(r)
      PROVE  NothingIsSkipped'
  <2>1. \A q \in Runs \ {r} : /\ pc'[q] = pc[q] /\ mem'[q] = mem[q]
                              /\ pending'[q] = pending[q] /\ thread'[q] = thread[q]
    BY <1>10 DEF Acknowledge, TypeOK, Goto
  <2>2. At(r, "ready")' /\ UNCHANGED <<mem, pending>>
    BY <1>10 DEF Acknowledge, Goto, At, TypeOK
  <2>3. Batch(r) \subseteq mem[r].uploaded
    BY <1>10 DEF Acknowledge, NothingIsSkipped, Covered, Batch
  <2>c. Covered(r)'
    BY <1>10, <2>2, <2>3 DEF Acknowledge, NothingIsSkipped, Covered, At
  <2>q. QED
    BY <1>s, <2>1, <2>c DEF NothingIsSkipped
<1>11. ASSUME NEW r \in Runs, AskComplete(r)
      PROVE  NothingIsSkipped'
  BY <1>11, <1>s DEF AskComplete, TypeOK, NothingIsSkipped,
     local, memory, session, finish, Goto
<1>12. ASSUME NEW r \in Runs, NoteCompleted(r)
      PROVE  NothingIsSkipped'
  BY <1>12, <1>s DEF NoteCompleted, TypeOK, NothingIsSkipped,
     local, memory, session, finish, LeaveSaving, Forget, Idle
<1>13. ASSUME NEW r \in Runs, Refused(r)
      PROVE  NothingIsSkipped'
  BY <1>13, <1>s DEF Refused, TypeOK, NothingIsSkipped,
     local, memory, session, finish, Leave, Forget, Idle
<1>14. ASSUME NEW r \in Runs, Crash(r)
      PROVE  NothingIsSkipped'
  BY <1>14, <1>s DEF Crash, TypeOK, NothingIsSkipped,
     local, memory, session, finish, Leave, Forget, Idle
<1>15. ASSUME NEW r \in Runs, LoseAnswer(r)
      PROVE  NothingIsSkipped'
  BY <1>15, <1>s DEF LoseAnswer, TypeOK, NothingIsSkipped,
     local, memory, session, finish, Leave, Forget, Idle
<1>16. ASSUME NEW r \in Runs, Interrupt(r)
      PROVE  NothingIsSkipped'
  BY <1>16, <1>s DEF Interrupt, TypeOK, NothingIsSkipped,
     local, memory, session, finish, Goto
<1>17. ASSUME ServerAssembles
      PROVE  NothingIsSkipped'
  BY <1>17, <1>s DEF ServerAssembles, TypeOK, NothingIsSkipped,
     local, memory, session, finish
<1>18. ASSUME ServerCompletes
      PROVE  NothingIsSkipped'
  BY <1>18, <1>s DEF ServerCompletes, TypeOK, NothingIsSkipped,
     local, memory, session, finish, Answer, At
<1>19. ASSUME ServerRefuses \/ AnswerIsGone
      PROVE  NothingIsSkipped'
  BY <1>19, <1>s DEF ServerRefuses, AnswerIsGone, TypeOK, NothingIsSkipped,
     local, memory, session, finish, Answer, At
<1>20. ASSUME ServerFails,
              mpu' = mpu \/ (mpu' = "COMPLETED" /\ StoredParts = Parts)
      PROVE  NothingIsSkipped'
  BY <1>20, <1>s DEF ServerFails, TypeOK, NothingIsSkipped,
     local, memory, session, finish
<1>21. ASSUME ServerDies
      PROVE  NothingIsSkipped'
  BY <1>21, <1>s DEF ServerDies, TypeOK, NothingIsSkipped,
     local, memory, session, finish
<1>22. ASSUME ChangeFile
      PROVE  NothingIsSkipped'
  BY <1>22, <1>s DEF ChangeFile, TypeOK, NothingIsSkipped,
     local, memory, session, finish
<1>23. ASSUME OperatorPauses
      PROVE  NothingIsSkipped'
  BY <1>23, <1>s DEF OperatorPauses, TypeOK, NothingIsSkipped,
     local, memory, session, finish
<1>24. ASSUME OperatorAborts
      PROVE  NothingIsSkipped'
  BY <1>24, <1>s DEF OperatorAborts, TypeOK, NothingIsSkipped,
     local, memory, session, finish
<1>25. ASSUME OperatorSaves
      PROVE  NothingIsSkipped'
  BY <1>25, <1>s DEF OperatorSaves, TypeOK, NothingIsSkipped,
     local, memory, session, finish
<1>26. ASSUME OperatorResumes
      PROVE  NothingIsSkipped'
  BY <1>26, <1>s DEF OperatorResumes, TypeOK, NothingIsSkipped,
     local, memory, session, finish
<1>27. ASSUME Expire
      PROVE  NothingIsSkipped'
  BY <1>27, <1>s DEF Expire, TypeOK, NothingIsSkipped,
     local, memory, session, finish
<1>q. QED
  BY <1>1, <1>2, <1>3, <1>4, <1>5, <1>6, <1>7, <1>8, <1>9, <1>10,
     <1>11, <1>12, <1>13, <1>14, <1>15, <1>16, <1>17, <1>18, <1>19,
     <1>20, <1>21, <1>22, <1>23, <1>24, <1>25, <1>26, <1>27
     DEF Next, Steadily, Ordinary, Work, Server, Fault, Environment, StorageFails

\* Every step that says COMPLETED says it after storage.
LEMMA AssembledStep ==
    ASSUME TypeOK, MarkedIsStored, NothingIsSkipped, AssembledFirst, Next
    PROVE  AssembledFirst'
<1>0. StoredParts = Parts => StoredParts' = Parts
  BY StoredStays DEF StoredParts
<1>m. ASSUME NEW r \in Runs
      PROVE  /\ \A S \in SUBSET Parts : MarkUploaded(mem[r], S).status = mem[r].status
             /\ \A n \in Parts : MarkFailed(mem[r], n).status = mem[r].status
             /\ \A s \in LocalStatus : MarkLocal(mem[r], s).status = s
  BY Marking DEF TypeOK
<1>o. \A s \in LocalStatus : MarkLocal(manifest, s).status = s
  BY Marking DEF TypeOK
<1>1. ASSUME NEW r \in Runs, NEW force \in BOOLEAN, Load(r, force)
      PROVE  AssembledFirst'
  BY <1>1, <1>0 DEF Load, AssembledFirst, TypeOK, At,
     local, memory, session, finish, Goto
<1>2. ASSUME NEW r \in Runs, GetSession(r)
      PROVE  AssembledFirst'
  <2>1. manifest'.status = "COMPLETED" => mpu = "COMPLETED"
    BY <1>2, <1>m DEF GetSession, LeaveSaving, LocalStatus, AssembledFirst, RemoteDone, At
  <2>2. \A q \in Runs : /\ mem'[q] \in {mem[q], NoManifest}
                        /\ At(q, "told")' => At(q, "told")
    BY <1>2 DEF GetSession, TypeOK, LeaveSaving, Leave, Forget, At, Goto, Idle
  <2>3. UNCHANGED <<operator, session, stored, finish>>
    BY <1>2 DEF GetSession
  <2>q. QED
    BY <2>1, <2>2, <2>3, <1>0, NothingMarked DEF AssembledFirst, session, finish
<1>3. ASSUME NEW r \in Runs, Reconcile(r)
      PROVE  AssembledFirst'
  <2>1. mem'[r].status = mem[r].status /\ manifest' = mem'[r]
    <3>1. Reconciled \in SUBSET Parts
      BY DEF Reconciled, Observed, StoredParts, TypeOK
    <3>q. QED
      BY <1>3, <3>1, <1>m DEF Reconcile, Save, TypeOK
  <2>q. QED
    BY <1>3, <2>1, <1>0 DEF Reconcile, Save, AssembledFirst, TypeOK, At, Goto, finish
<1>4. ASSUME NEW r \in Runs, PresignBatch(r)
      PROVE  AssembledFirst'
  BY <1>4, <1>0 DEF PresignBatch, AssembledFirst, TypeOK, At,
     local, memory, session, finish, Goto
<1>5. ASSUME NEW r \in Runs, NEW n \in Parts,
              NEW answer \in {"putting", "returned", "raised"}, PutPart(r, n, answer)
      PROVE  AssembledFirst'
  BY <1>5, <1>0 DEF PutPart, AssembledFirst, TypeOK, At,
     local, memory, session, finish
<1>6. ASSUME NEW r \in Runs, NEW n \in Parts, PutRefused(r, n)
      PROVE  AssembledFirst'
  BY <1>6, <1>0 DEF PutRefused, AssembledFirst, TypeOK, At,
     local, memory, session, finish
<1>7. ASSUME NEW r \in Runs, NEW n \in Parts, TakeResult(r, n)
      PROVE  AssembledFirst'
  <2>1. {n} \in SUBSET Parts
    OBVIOUS
  <2>2. MarkUploaded(mem[r], {n}).status = mem[r].status
    BY <2>1, <1>m
  <2>q. QED
    BY <1>7, <2>2, <1>0 DEF TakeResult, Save, AssembledFirst, TypeOK, At, session, finish
<1>8. ASSUME NEW r \in Runs, NEW n \in Parts, TakeFailure(r, n)
      PROVE  AssembledFirst'
  BY <1>8, <1>0, <1>m DEF TakeFailure, AssembledFirst, TypeOK, At,
     local, memory, session, finish, Save, Goto
<1>9. ASSUME NEW r \in Runs, Drained(r)
      PROVE  AssembledFirst'
  <2>1. manifest'.status = "COMPLETED" => mpu = "COMPLETED"
    BY <1>9, <1>m DEF Drained, LeaveSaving, LocalStatus, AssembledFirst, RemoteDone, At
  <2>2. \A q \in Runs : /\ mem'[q] \in {mem[q], NoManifest}
                        /\ At(q, "told")' => At(q, "told")
    BY <1>9 DEF Drained, TypeOK, LeaveSaving, Leave, Forget, At, Goto, Idle
  <2>3. UNCHANGED <<operator, session, stored, finish>>
    BY <1>9 DEF Drained
  <2>q. QED
    BY <2>1, <2>2, <2>3, <1>0, NothingMarked DEF AssembledFirst, session, finish
<1>10. ASSUME NEW r \in Runs, Acknowledge(r)
      PROVE  AssembledFirst'
  BY <1>10, <1>0 DEF Acknowledge, AssembledFirst, TypeOK, At,
     local, memory, session, finish, Goto
<1>11. ASSUME NEW r \in Runs, AskComplete(r)
      PROVE  AssembledFirst'
  <2>1. StoredParts = Parts
    BY <1>11 DEF AskComplete, At, NothingIsSkipped, Covered, MarkedIsStored, StoredParts
  <2>2. CASE record' = "working"
    BY <1>11, <2>1, <2>2, <1>0 DEF AskComplete, AssembledFirst, At, Goto, TypeOK,
      local, NotServing
  <2>3. CASE record' = "answered" /\ UNCHANGED <<status, serving>>
    BY <1>11, <2>1, <2>3, <1>0 DEF AskComplete, AssembledFirst, At, Goto, TypeOK, local
  <2>q. QED
    BY <1>11, <2>2, <2>3 DEF AskComplete
<1>12. ASSUME NEW r \in Runs, NoteCompleted(r)
      PROVE  AssembledFirst'
  <2>1. manifest'.status = "COMPLETED" => mpu = "COMPLETED"
    BY <1>12, <1>m DEF NoteCompleted, LeaveSaving, LocalStatus, AssembledFirst,
      RemoteDone, At
  <2>2. \A q \in Runs : /\ mem'[q] \in {mem[q], NoManifest}
                        /\ At(q, "told")' => At(q, "told")
    BY <1>12 DEF NoteCompleted, TypeOK, LeaveSaving, Leave, Forget, At, Goto, Idle
  <2>3. UNCHANGED <<operator, session, stored, finish>>
    BY <1>12 DEF NoteCompleted
  <2>q. QED
    BY <2>1, <2>2, <2>3, <1>0, NothingMarked DEF AssembledFirst, session, finish
<1>13. ASSUME NEW r \in Runs, Refused(r)
      PROVE  AssembledFirst'
  BY <1>13, <1>0, NothingMarked DEF Refused, AssembledFirst, TypeOK, At,
     local, memory, session, finish, Leave, Forget, Idle
<1>14. ASSUME NEW r \in Runs, Crash(r)
      PROVE  AssembledFirst'
  BY <1>14, <1>0, NothingMarked DEF Crash, AssembledFirst, TypeOK, At,
     local, memory, session, finish, Leave, Forget, Idle
<1>15. ASSUME NEW r \in Runs, LoseAnswer(r)
      PROVE  AssembledFirst'
  BY <1>15, <1>0, NothingMarked DEF LoseAnswer, AssembledFirst, TypeOK, At,
     local, memory, session, finish, Leave, Forget, Idle
<1>16. ASSUME NEW r \in Runs, Interrupt(r)
      PROVE  AssembledFirst'
  BY <1>16, <1>0 DEF Interrupt, AssembledFirst, TypeOK, At,
     local, memory, session, finish, Goto
<1>17. ASSUME ServerAssembles
      PROVE  AssembledFirst'
  BY <1>17, <1>0 DEF ServerAssembles, AssembledFirst, TypeOK, At,
     local, memory, session, finish, Serve
<1>18. ASSUME ServerCompletes
      PROVE  AssembledFirst'
  BY <1>18, <1>0 DEF ServerCompletes, AssembledFirst, TypeOK, At,
     local, memory, session, finish, Answer, NotServing
<1>19. ASSUME ServerRefuses \/ AnswerIsGone
      PROVE  AssembledFirst'
  BY <1>19, <1>0 DEF ServerRefuses, AnswerIsGone, AssembledFirst, TypeOK, At,
     local, memory, session, finish, Answer, NotServing
<1>20. ASSUME ServerFails,
              mpu' = mpu \/ (mpu' = "COMPLETED" /\ StoredParts = Parts)
      PROVE  AssembledFirst'
  BY <1>20, <1>0 DEF ServerFails, AssembledFirst, TypeOK, At,
     local, memory, session, finish, Serve
<1>21. ASSUME ServerDies
      PROVE  AssembledFirst'
  BY <1>21, <1>0 DEF ServerDies, AssembledFirst, TypeOK, At,
     local, memory, session, finish, NotServing
<1>22. ASSUME ChangeFile
      PROVE  AssembledFirst'
  BY <1>22, <1>0 DEF ChangeFile, AssembledFirst, TypeOK, At,
     local, memory, session, finish
<1>23. ASSUME OperatorPauses
      PROVE  AssembledFirst'
  <2>1. operator'.status # "COMPLETED"
    BY <1>23, <1>o DEF OperatorPauses, LocalStatus
  <2>q. QED
    BY <1>23, <2>1, <1>0 DEF OperatorPauses, AssembledFirst, At, local, memory, finish
<1>24. ASSUME OperatorAborts
      PROVE  AssembledFirst'
  <2>1. operator'.status # "COMPLETED"
    BY <1>24, <1>o DEF OperatorAborts, LocalStatus
  <2>q. QED
    BY <1>24, <2>1, <1>0 DEF OperatorAborts, AssembledFirst, At, local, memory, finish
<1>25. ASSUME OperatorSaves
      PROVE  AssembledFirst'
  BY <1>25, <1>0, NothingMarked DEF OperatorSaves, AssembledFirst, TypeOK, At,
     local, memory, session, finish
<1>26. ASSUME OperatorResumes
      PROVE  AssembledFirst'
  BY <1>26, <1>0 DEF OperatorResumes, AssembledFirst, TypeOK, At,
     local, memory, session, finish
<1>27. ASSUME Expire
      PROVE  AssembledFirst'
  BY <1>27, <1>0 DEF Expire, AssembledFirst, TypeOK, At,
     local, memory, session, finish
<1>q. QED
  BY <1>1, <1>2, <1>3, <1>4, <1>5, <1>6, <1>7, <1>8, <1>9, <1>10,
     <1>11, <1>12, <1>13, <1>14, <1>15, <1>16, <1>17, <1>18, <1>19,
     <1>20, <1>21, <1>22, <1>23, <1>24, <1>25, <1>26, <1>27
     DEF Next, Steadily, Ordinary, Work, Server, Fault, Environment, StorageFails

-----------------------------------------------------------------------------
(* One version of the file.                                                  *)

\* Every step of runs nobody disturbed stores version 1.
LEMMA VersionStep ==
    ASSUME TypeOK, OneVersion, Next
    PROVE  OneVersion'
<1>s. ASSUME UNCHANGED <<file, disturbed, stored>>,
             \A r \in Runs : At(r, Idle) => At(r, Idle)',
             \A r \in Runs, n \in Parts : thread'[r][n] = "putting" =>
                 ~At(r, Idle)' /\ (thread[r][n] = "putting" \/ At(r, "ready"))
      PROVE  OneVersion'
  BY <1>s DEF OneVersion
<1>1. ASSUME NEW r \in Runs, NEW force \in BOOLEAN, Load(r, force)
      PROVE  OneVersion'
  BY <1>1 DEF Load, OneVersion, TypeOK, At, memory, Goto, Idle, Unchanged, local
<1>2. ASSUME NEW r \in Runs, GetSession(r)
      PROVE  OneVersion'
  <2>1. /\ \A q \in Runs : At(q, Idle) => At(q, Idle)'
        /\ \A q \in Runs, n \in Parts : thread'[q][n] = "putting" =>
             ~At(q, Idle)' /\ (thread[q][n] = "putting" \/ At(q, "ready"))
    <3>1. Forget(r) \/ (Goto(r, "checked") /\ UNCHANGED thread)
      BY <1>2 DEF GetSession, LeaveSaving, Leave
    <3>2. ~At(r, Idle)
      BY <1>2 DEF GetSession, At, Idle
    <3>3. CASE Forget(r)
      BY <3>3 DEF Forget, At, Idle, NoThreads, TypeOK, OneVersion
    <3>4. CASE Goto(r, "checked") /\ UNCHANGED thread
      BY <3>2, <3>4 DEF Goto, At, Idle, TypeOK, OneVersion
    <3>q. QED
      BY <3>1, <3>3, <3>4
  <2>2. UNCHANGED <<file, disturbed, stored>>
    BY <1>2 DEF GetSession, local
  <2>q. QED
    BY <2>1, <2>2, <1>s
<1>3. ASSUME NEW r \in Runs, Reconcile(r)
      PROVE  OneVersion'
  BY <1>3, <1>s DEF Reconcile, OneVersion, TypeOK, At, Goto, Idle
<1>4. ASSUME NEW r \in Runs, PresignBatch(r)
      PROVE  OneVersion'
  BY <1>4, <1>s DEF PresignBatch, OneVersion, TypeOK, At, Goto, Idle, local
<1>5. ASSUME NEW r \in Runs, NEW n \in Parts,
              NEW answer \in {"putting", "returned", "raised"}, PutPart(r, n, answer)
      PROVE  OneVersion'
  <2>1. ~At(r, Idle) /\ file # 0
    BY <1>5, ClientAssumption DEF PutPart, OneVersion, TypeOK
  <2>2. \A q \in Runs, m \in Parts : thread'[q][m] = "putting" => ~At(q, Idle)
    BY <1>5, <2>1 DEF PutPart, SetThread, OneVersion, TypeOK
  <2>q. QED
    BY <1>5, <2>1, <2>2 DEF PutPart, OneVersion, TypeOK, At, local
<1>6. ASSUME NEW r \in Runs, NEW n \in Parts, PutRefused(r, n)
      PROVE  OneVersion'
  BY <1>6, <1>s DEF PutRefused, OneVersion, TypeOK, At, SetThread, local
<1>7. ASSUME NEW r \in Runs, NEW n \in Parts, TakeResult(r, n)
      PROVE  OneVersion'
  BY <1>7, <1>s DEF TakeResult, OneVersion, TypeOK, At, SetThread
<1>8. ASSUME NEW r \in Runs, NEW n \in Parts, TakeFailure(r, n)
      PROVE  OneVersion'
  BY <1>8, <1>s DEF TakeFailure, OneVersion, TypeOK, At, Goto, Idle
<1>9. ASSUME NEW r \in Runs, Drained(r)
      PROVE  OneVersion'
  <2>1. /\ \A q \in Runs : At(q, Idle) => At(q, Idle)'
        /\ \A q \in Runs, n \in Parts : thread'[q][n] = "putting" =>
             ~At(q, Idle)' /\ (thread[q][n] = "putting" \/ At(q, "ready"))
    <3>1. Forget(r)
      BY <1>9 DEF Drained, LeaveSaving, Leave
    <3>q. QED
      BY <3>1 DEF Forget, At, Idle, NoThreads, TypeOK, OneVersion
  <2>2. UNCHANGED <<file, disturbed, stored>>
    BY <1>9 DEF Drained, local
  <2>q. QED
    BY <2>1, <2>2, <1>s
<1>10. ASSUME NEW r \in Runs, Acknowledge(r)
      PROVE  OneVersion'
  BY <1>10, <1>s DEF Acknowledge, OneVersion, TypeOK, At, Goto, Idle, NoThreads
<1>11. ASSUME NEW r \in Runs, AskComplete(r)
      PROVE  OneVersion'
  BY <1>11, <1>s DEF AskComplete, OneVersion, TypeOK, At, Goto, Idle, local
<1>12. ASSUME NEW r \in Runs, NoteCompleted(r)
      PROVE  OneVersion'
  <2>1. /\ \A q \in Runs : At(q, Idle) => At(q, Idle)'
        /\ \A q \in Runs, n \in Parts : thread'[q][n] = "putting" =>
             ~At(q, Idle)' /\ (thread[q][n] = "putting" \/ At(q, "ready"))
    <3>1. Forget(r)
      BY <1>12 DEF NoteCompleted, LeaveSaving, Leave
    <3>q. QED
      BY <3>1 DEF Forget, At, Idle, NoThreads, TypeOK, OneVersion
  <2>2. UNCHANGED <<file, disturbed, stored>>
    BY <1>12 DEF NoteCompleted, local
  <2>q. QED
    BY <2>1, <2>2, <1>s
<1>13. ASSUME NEW r \in Runs, Refused(r)
      PROVE  OneVersion'
  <2>1. /\ \A q \in Runs : At(q, Idle) => At(q, Idle)'
        /\ \A q \in Runs, n \in Parts : thread'[q][n] = "putting" =>
             ~At(q, Idle)' /\ (thread[q][n] = "putting" \/ At(q, "ready"))
    <3>1. Forget(r)
      BY <1>13 DEF Refused, LeaveSaving, Leave
    <3>q. QED
      BY <3>1 DEF Forget, At, Idle, NoThreads, TypeOK, OneVersion
  <2>2. UNCHANGED <<file, disturbed, stored>>
    BY <1>13 DEF Refused, local
  <2>q. QED
    BY <2>1, <2>2, <1>s
<1>14. ASSUME NEW r \in Runs, Crash(r)
      PROVE  OneVersion'
  <2>1. /\ \A q \in Runs : At(q, Idle) => At(q, Idle)'
        /\ \A q \in Runs, n \in Parts : thread'[q][n] = "putting" =>
             ~At(q, Idle)' /\ (thread[q][n] = "putting" \/ At(q, "ready"))
    <3>1. Forget(r)
      BY <1>14 DEF Crash, LeaveSaving, Leave
    <3>q. QED
      BY <3>1 DEF Forget, At, Idle, NoThreads, TypeOK, OneVersion
  <2>2. UNCHANGED <<file, disturbed, stored>>
    BY <1>14 DEF Crash, local
  <2>q. QED
    BY <2>1, <2>2, <1>s
<1>15. ASSUME NEW r \in Runs, LoseAnswer(r)
      PROVE  OneVersion'
  <2>1. /\ \A q \in Runs : At(q, Idle) => At(q, Idle)'
        /\ \A q \in Runs, n \in Parts : thread'[q][n] = "putting" =>
             ~At(q, Idle)' /\ (thread[q][n] = "putting" \/ At(q, "ready"))
    <3>1. Forget(r)
      BY <1>15 DEF LoseAnswer, LeaveSaving, Leave
    <3>q. QED
      BY <3>1 DEF Forget, At, Idle, NoThreads, TypeOK, OneVersion
  <2>2. UNCHANGED <<file, disturbed, stored>>
    BY <1>15 DEF LoseAnswer, local
  <2>q. QED
    BY <2>1, <2>2, <1>s
<1>16. ASSUME NEW r \in Runs, Interrupt(r)
      PROVE  OneVersion'
  BY <1>16, <1>s DEF Interrupt, OneVersion, TypeOK, At, Goto, Idle, local
<1>17. ASSUME ServerAssembles
      PROVE  OneVersion'
  BY <1>17, <1>s DEF ServerAssembles, OneVersion, TypeOK, At, local, memory
<1>18. ASSUME ServerCompletes
      PROVE  OneVersion'
  BY <1>18, <1>s DEF ServerCompletes, OneVersion, TypeOK, At, local, Answer, Idle
<1>19. ASSUME ServerRefuses \/ AnswerIsGone
      PROVE  OneVersion'
  BY <1>19, <1>s DEF ServerRefuses, AnswerIsGone, OneVersion, TypeOK, At, local, Answer, Idle
<1>20. ASSUME ServerFails,
              mpu' = mpu \/ (mpu' = "COMPLETED" /\ StoredParts = Parts)
      PROVE  OneVersion'
  BY <1>20, <1>s DEF ServerFails, OneVersion, TypeOK, At, local, memory
<1>21. ASSUME ServerDies
      PROVE  OneVersion'
  BY <1>21, <1>s DEF ServerDies, OneVersion, TypeOK, At, local, memory
<1>22. ASSUME ChangeFile
      PROVE  OneVersion'
  BY <1>22 DEF ChangeFile, OneVersion, TypeOK, At, memory, local, memory
<1>23. ASSUME OperatorPauses
      PROVE  OneVersion'
  BY <1>23, <1>s DEF OperatorPauses, OneVersion, TypeOK, At, local, memory
<1>24. ASSUME OperatorAborts
      PROVE  OneVersion'
  BY <1>24, <1>s DEF OperatorAborts, OneVersion, TypeOK, At, local, memory
<1>25. ASSUME OperatorSaves
      PROVE  OneVersion'
  BY <1>25, <1>s DEF OperatorSaves, OneVersion, TypeOK, At, local, memory
<1>26. ASSUME OperatorResumes
      PROVE  OneVersion'
  BY <1>26, <1>s DEF OperatorResumes, OneVersion, TypeOK, At, local, memory
<1>27. ASSUME Expire
      PROVE  OneVersion'
  BY <1>27, <1>s DEF Expire, OneVersion, TypeOK, At, local, memory
<1>q. QED
  BY <1>1, <1>2, <1>3, <1>4, <1>5, <1>6, <1>7, <1>8, <1>9, <1>10,
     <1>11, <1>12, <1>13, <1>14, <1>15, <1>16, <1>17, <1>18, <1>19,
     <1>20, <1>21, <1>22, <1>23, <1>24, <1>25, <1>26, <1>27
     DEF Next, Steadily, Ordinary, Work, Server, Fault, Environment, StorageFails

-----------------------------------------------------------------------------
(* The inductive invariant and its theorems.                                 *)

\* The manifest that upload has saved marks nothing.
LEMMA InitiallyInvariant == Init => IInv
<1> SUFFICES ASSUME Init PROVE IInv
  OBVIOUS
<1>1. TypeOK
  <2>1. /\ file \in 1 .. Versions
        /\ faults \in 0 .. MaxFaults
        /\ stored \in [Parts -> 0 .. Versions]
    BY ClientAssumption DEF Init
  <2>2. /\ manifest \in Manifest
        /\ mem \in [Runs -> Manifest]
        /\ operator \in Manifest
    BY NothingMarked DEF Init
  <2>3. /\ pc \in [Runs -> Points]
        /\ pending \in [Runs -> SUBSET Parts]
        /\ thread \in [Runs -> [Parts -> ThreadStates]]
    BY DEF Init, Points, ThreadStates, NoThreads, Idle
  <2>q. QED
    BY <2>1, <2>2, <2>3 DEF Init, TypeOK, SessionStatus, NotServing
<1>2. MarkedIsStored /\ ThreadsAreTrue
  BY NothingMarked DEF Init, MarkedIsStored, ThreadsAreTrue, NoThreads
<1>3. NothingIsSkipped
  BY DEF Init, NothingIsSkipped, Covered, At, Idle
<1>4. AssembledFirst
  BY NothingMarked DEF Init, AssembledFirst, At, Idle, NotServing
<1>5. OneVersion
  BY DEF Init, OneVersion, At, Idle, NoThreads
<1>q. QED
  BY <1>1, <1>2, <1>3, <1>4, <1>5 DEF IInv

\* Every step keeps the invariant.
LEMMA StepKeepsInvariant == IInv /\ [Next]_vars => IInv'
<1> SUFFICES ASSUME IInv, [Next]_vars PROVE IInv'
  OBVIOUS
<1>1. CASE Next
  BY <1>1, TypeStep, MarksStep, SkipStep, AssembledStep, VersionStep DEF IInv
<1>2. CASE UNCHANGED vars
  <2>1. TypeOK'
    BY <1>2 DEF IInv, TypeOK, vars, local, memory, session, finish
  <2>2. (MarkedIsStored /\ ThreadsAreTrue)'
    BY <1>2 DEF IInv, MarkedIsStored, ThreadsAreTrue, StoredParts,
       vars, local, memory, session, finish
  <2>3. NothingIsSkipped'
    BY <1>2 DEF IInv, NothingIsSkipped, Covered, At, Batch, vars, local, memory
  <2>4. AssembledFirst'
    BY <1>2 DEF IInv, AssembledFirst, StoredParts, At,
       vars, local, memory, session, finish
  <2>5. OneVersion'
    BY <1>2 DEF IInv, OneVersion, At, vars, local, memory
  <2>q. QED
    BY <2>1, <2>2, <2>3, <2>4, <2>5 DEF IInv
<1>q. QED
  BY <1>1, <1>2

\* IInv holds of every reachable state.
LEMMA AlwaysInvariant == Spec => []IInv
BY InitiallyInvariant, StepKeepsInvariant, PTL DEF Spec

\* Types hold, whatever runs, faults and commands there are.
THEOREM TypeCorrect == Spec => []TypeOK
<1>1. IInv => TypeOK
  BY DEF IInv
<1>q. QED
  BY <1>1, AlwaysInvariant, PTL

\* A part marked in a manifest, in memory or on disk, or in a row, is in storage:
\* no resume skips a part that is not there.
THEOREM MarksAreTrue == Spec => []MarkedIsStored
<1>1. IInv => MarkedIsStored
  BY DEF IInv
<1>q. QED
  BY <1>1, AlwaysInvariant, PTL

\* No run is told COMPLETED before storage has assembled every part, and none is
\* told that parts are missing.
THEOREM ToldAfterStorage == Spec => []ToldIsAssembled
<1>1. IInv => ToldIsAssembled
  BY DEF IInv, AssembledFirst, ToldIsAssembled
<1>q. QED
  BY <1>1, AlwaysInvariant, PTL

\* Undisturbed runs, however many and however interrupted, assemble the file that
\* the manifest describes.
THEOREM AssembledFromOneFile == Spec => []AssembledIsTheFile
<1>1. IInv => AssembledIsTheFile
  BY DEF IInv, AssembledFirst, OneVersion, AssembledIsTheFile, StoredParts
<1>q. QED
  BY <1>1, AlwaysInvariant, PTL

=============================================================================
