----------------------------- MODULE DatasetProofs -----------------------------
(***************************************************************************)
(* Proofs about Dataset for any number of requests and workers, whoever of  *)
(* them dies, with validation switched on or off.                           *)
(***************************************************************************)
EXTENDS Dataset, TLAPS

\* Where each kind of actor can be, and what it may be about to write into
\* validation_status.
RequestsWrite ==
    \A r \in Requests : /\ pc[r] \in {"idle", "writing", "purging"}
                        /\ nextValidation[r] = Keep

WorkersWrite ==
    \A w \in Workers :
        /\ pc[w] \in {"idle", "validating", "judged"}
        /\ pc[w] = "judged" => nextValidation[w] \in {"PASSED", "FAILED"}
        /\ pc[w] # "judged" => nextValidation[w] = Keep
        /\ nextValidation[w] = "PASSED" => upload = "good"

ProjectorWrites ==
    /\ pc[Projector] \in {"idle", "projecting", "completing"}
    /\ pc[Projector] # "completing" => nextValidation[Projector] = Keep
    /\ pc[Projector] = "completing" =>
          /\ completions = 0
          /\ Assembled
          /\ nextValidation[Projector] = IF ValidationEnabled THEN "PENDING" ELSE Keep

\* The validation is asked for by the completion, never before and always then.
AskedOnce ==
    /\ completions = 0 => validation = "NOT_REQUIRED"
    /\ completions > 0 /\ ValidationEnabled => validation # "NOT_REQUIRED"

PassedIsGood == validation = "PASSED" => upload = "good"

IInv ==
    /\ TypeOK
    /\ RequestsWrite
    /\ WorkersWrite
    /\ ProjectorWrites
    /\ AskedOnce
    /\ PassedIsGood
    /\ ValidatedByOne

LEMMA InitHolds == Init => IInv
<1> SUFFICES ASSUME Init PROVE IInv
  OBVIOUS
<1> USE DEF Init
<1>1. TypeOK
  BY DEF TypeOK, DatasetStatus, ValidationStatus, RecoveryStatus
<1>2. RequestsWrite /\ WorkersWrite /\ ProjectorWrites
  BY DatasetAssumption
  DEF RequestsWrite, WorkersWrite, ProjectorWrites, Actors, ValidationStatus
<1>3. AskedOnce /\ PassedIsGood /\ ValidatedByOne
  BY DEF AskedOnce, PassedIsGood, ValidatedByOne, Validators, Actors
<1> QED
  BY <1>1, <1>2, <1>3 DEF IInv

-----------------------------------------------------------------------------
(* API requests.  They leave validation_status alone.                       *)

LEMMA Types ==
    ASSUME NEW a \in Actors, TypeOK, NEW s \in DatasetStatus,
           NEW v \in {validation, "PENDING", "PASSED", "FAILED"}, NEW l \in BOOLEAN,
           NEW point \in {"idle", "writing", "purging", "validating", "judged",
                          "projecting", "completing"},
           Prepare(a, point, s, v, l)
    PROVE  /\ pc' \in [Actors -> {"idle", "writing", "purging", "validating",
                                  "judged", "projecting", "completing"}]
           /\ nextStatus' \in [Actors -> DatasetStatus \cup {Keep}]
           /\ nextValidation' \in [Actors -> {"PENDING", "PASSED", "FAILED", Keep}]
           /\ nextLocated' \in [Actors -> BOOLEAN \cup {Keep}]
  BY DatasetAssumption DEF TypeOK, Prepare, Changed

\* An actor that prepares an UPDATE moves alone, and so does one that returns.
LEMMA PrepareMoves ==
    ASSUME NEW a \in Actors, TypeOK, NEW point, NEW s, NEW v, NEW l,
           Prepare(a, point, s, v, l)
    PROVE  /\ pc'[a] = point
           /\ nextValidation'[a] = Changed(v, validation)
           /\ \A b \in Actors \ {a} : /\ pc'[b] = pc[b]
                                      /\ nextValidation'[b] = nextValidation[b]
  BY DEF TypeOK, Prepare

LEMMA ReturnMoves ==
    ASSUME NEW a \in Actors, TypeOK, Return(a)
    PROVE  /\ pc'[a] = "idle"
           /\ nextValidation'[a] = Keep
           /\ \A b \in Actors \ {a} : /\ pc'[b] = pc[b]
                                      /\ nextValidation'[b] = nextValidation[b]
           /\ pc' \in [Actors -> {"idle", "writing", "purging", "validating",
                                  "judged", "projecting", "completing"}]
           /\ nextStatus' \in [Actors -> DatasetStatus \cup {Keep}]
           /\ nextValidation' \in [Actors -> {"PENDING", "PASSED", "FAILED", Keep}]
           /\ nextLocated' \in [Actors -> BOOLEAN \cup {Keep}]
  BY DEF TypeOK, Return

\* What an UPDATE writes is of the columns' types.
LEMMA WriteTypes ==
    ASSUME NEW a \in Actors, TypeOK, Write(a)
    PROVE  /\ status' \in DatasetStatus
           /\ validation' \in ValidationStatus
           /\ located' \in BOOLEAN
           /\ recovery' \in RecoveryStatus
  BY DEF TypeOK, Write, Written, ValidationStatus

\* A request, wherever it goes, moves nobody else and writes no validation.
LEMMA RequestStep ==
    ASSUME NEW r \in Requests, IInv, TypeOK',
           pc'[r] \in {"idle", "writing", "purging"}, nextValidation'[r] = Keep,
           \A b \in Actors \ {r} : /\ pc'[b] = pc[b]
                                   /\ nextValidation'[b] = nextValidation[b],
           UNCHANGED <<validation, upload, completions, lost>>
    PROVE  IInv'
<1> USE DatasetAssumption DEF IInv, Actors
<1>1. RequestsWrite'
  BY DEF RequestsWrite
<1>2. WorkersWrite'
  BY DEF WorkersWrite
<1>3. ProjectorWrites'
  BY DEF ProjectorWrites, Assembled
<1>4. AskedOnce' /\ PassedIsGood'
  BY DEF AskedOnce, PassedIsGood
<1>5. ValidatedByOne'
  <2>1. Validators' = Validators
    BY DEF Validators
  <2> QED
    BY <2>1 DEF ValidatedByOne
<1> QED
  BY <1>1, <1>2, <1>3, <1>4, <1>5

LEMMA AssignStep ==
    ASSUME NEW r \in Requests, NEW s \in DatasetStatus, IInv, Assign(r, s)
    PROVE  IInv'
<1> USE DEF IInv
<1>1. r \in Actors
  BY DEF Actors
<1>2. Prepare(r, "writing", s, validation, located)
  BY DEF Assign
<1>3. UNCHANGED <<row, session, stored, lost>>
  BY DEF Assign
<1>4. TypeOK'
  <2>1. located \in BOOLEAN
    BY DEF TypeOK
  <2> QED
    BY <1>1, <1>2, <1>3, <2>1, Types DEF TypeOK, row, session
<1>5. nextValidation'[r] = Keep
  BY <1>1, <1>2, PrepareMoves DEF Changed
<1> QED
  BY <1>1, <1>2, <1>3, <1>4, <1>5, PrepareMoves, RequestStep DEF row, session

LEMMA BeginPurgeStep ==
    ASSUME NEW r \in Requests, IInv, BeginPurge(r)
    PROVE  IInv'
<1> USE DEF IInv
<1>1. r \in Actors
  BY DEF Actors
<1>2. Prepare(r, "purging", "PURGED", validation, FALSE)
  BY DEF BeginPurge
<1>3. UNCHANGED <<row, session, stored, lost>>
  BY DEF BeginPurge
<1>4. TypeOK'
  <2>1. "PURGED" \in DatasetStatus /\ FALSE \in BOOLEAN
    BY DEF DatasetStatus
  <2> QED
    BY <1>1, <1>2, <1>3, <2>1, Types DEF TypeOK, row, session
<1>5. nextValidation'[r] = Keep
  BY <1>1, <1>2, PrepareMoves DEF Changed
<1> QED
  BY <1>1, <1>2, <1>3, <1>4, <1>5, PrepareMoves, RequestStep DEF row, session

LEMMA DeleteObjectStep ==
    ASSUME NEW r \in Requests, IInv, DeleteObject(r)
    PROVE  IInv'
<1> USE DEF IInv
<1>1. r \in Actors
  BY DEF Actors
<1>2. UNCHANGED <<row, session, lost>>
  BY DEF DeleteObject
<1>3. CASE /\ stored' = (stored /\ nextLocated[r] = Keep)
           /\ pc' = [pc EXCEPT ![r] = "writing"]
           /\ UNCHANGED <<nextStatus, nextValidation, nextLocated>>
  <2>1. TypeOK'
    BY <1>1, <1>2, <1>3 DEF TypeOK, row, session
  <2>2. pc'[r] = "writing" /\ \A b \in Actors \ {r} : pc'[b] = pc[b]
    BY <1>1, <1>3 DEF TypeOK
  <2>3. nextValidation'[r] = Keep
    BY <1>3 DEF RequestsWrite
  <2> QED
    BY <1>2, <1>3, <2>1, <2>2, <2>3, RequestStep DEF row, session
<1>4. CASE stored' \in {stored, FALSE} /\ Return(r)
  <2>1. TypeOK'
    BY <1>1, <1>2, <1>4, ReturnMoves DEF TypeOK, row, session
  <2> QED
    BY <1>1, <1>2, <1>4, <2>1, ReturnMoves, RequestStep DEF row, session
<1> QED
  BY <1>3, <1>4 DEF DeleteObject

LEMMA CommitStep ==
    ASSUME NEW r \in Requests, IInv, Commit(r)
    PROVE  IInv'
<1> USE DEF IInv
<1>1. r \in Actors
  BY DEF Actors
<1>2. Write(r) /\ Return(r) /\ UNCHANGED <<session, stored, lost>>
  BY DEF Commit
<1>3. TypeOK'
  BY <1>1, <1>2, WriteTypes, ReturnMoves DEF TypeOK, session
<1>4. validation' = validation
  BY <1>2 DEF Write, Written, RequestsWrite
<1> QED
  BY <1>1, <1>2, <1>3, <1>4, ReturnMoves, RequestStep DEF session

LEMMA RetryValidationStep ==
    ASSUME IInv, RetryValidation
    PROVE  IInv'
<1> USE DatasetAssumption DEF IInv, RetryValidation, session, pending
<1>1. TypeOK'
  BY DEF TypeOK, DatasetStatus, ValidationStatus
<1>2. RequestsWrite' /\ WorkersWrite' /\ ProjectorWrites'
  BY DEF RequestsWrite, WorkersWrite, ProjectorWrites, Assembled
<1>3. AskedOnce' /\ PassedIsGood'
  BY DEF AskedOnce, PassedIsGood
<1>4. ValidatedByOne'
  BY DEF ValidatedByOne, Validators
<1> QED
  BY <1>1, <1>2, <1>3, <1>4

-----------------------------------------------------------------------------
(* The worker.  Only the one that claimed a dataset writes its verdict.      *)

\* A worker that moves without writing the row.
LEMMA WorkerStep ==
    ASSUME NEW w \in Workers, IInv, TypeOK', WorkersWrite', ValidatedByOne',
           \A b \in Actors \ {w} : /\ pc'[b] = pc[b]
                                   /\ nextValidation'[b] = nextValidation[b],
           UNCHANGED <<validation, upload, completions>>
    PROVE  IInv'
<1> USE DatasetAssumption DEF IInv, Actors
<1>1. RequestsWrite' /\ ProjectorWrites'
  BY DEF RequestsWrite, ProjectorWrites, Assembled
<1>2. AskedOnce' /\ PassedIsGood'
  BY DEF AskedOnce, PassedIsGood
<1> QED
  BY <1>1, <1>2

LEMMA ClaimStep ==
    ASSUME NEW w \in Workers, IInv, Claim(w)
    PROVE  IInv'
<1> USE DatasetAssumption DEF IInv, Claim, session
<1>1. w \in Actors
  BY DEF Actors
<1>2. TypeOK'
  BY <1>1 DEF TypeOK, DatasetStatus, ValidationStatus
<1>3. pc'[w] = "validating" /\ \A b \in Actors \ {w} : pc'[b] = pc[b]
  BY <1>1 DEF TypeOK
<1>4. RequestsWrite' /\ ProjectorWrites'
  BY <1>3 DEF RequestsWrite, ProjectorWrites, Assembled, Actors
<1>5. WorkersWrite'
  BY <1>3 DEF WorkersWrite, At, Actors
<1>6. AskedOnce' /\ PassedIsGood'
  BY DEF AskedOnce, PassedIsGood
<1>7. ValidatedByOne'
  <2>1. Validators = {}
    BY DEF ValidatedByOne
  <2>2. Validators' = {w}
    BY <1>3, <2>1 DEF Validators, Actors
  <2> QED
    BY <2>2 DEF ValidatedByOne
<1> QED
  BY <1>2, <1>4, <1>5, <1>6, <1>7

\* A verdict is prepared by the one that validates, and that stays so.
LEMMA JudgedStep ==
    ASSUME NEW w \in Validators, NEW s \in DatasetStatus,
           NEW v \in {"PASSED", "FAILED"}, v = "PASSED" => upload = "good",
           IInv, Prepare(w, "judged", s, v, located),
           UNCHANGED <<row, session, stored, lost>>
    PROVE  IInv'
<1> USE DatasetAssumption DEF IInv, row, session
<1>1. w \in Workers /\ w \in Actors
  BY DEF Validators, Actors
<1>2. TypeOK'
  <2>1. located \in BOOLEAN
    BY DEF TypeOK
  <2> QED
    BY <1>1, <2>1, Types DEF TypeOK
<1>3. /\ pc'[w] = "judged"
      /\ nextValidation'[w] = Changed(v, validation)
      /\ \A b \in Actors \ {w} : /\ pc'[b] = pc[b]
                                 /\ nextValidation'[b] = nextValidation[b]
  BY <1>1, PrepareMoves
<1>4. nextValidation'[w] = v
  BY <1>3 DEF Changed, ValidatedByOne
<1>5. WorkersWrite'
  BY <1>1, <1>3, <1>4 DEF WorkersWrite, Actors
<1>6. ValidatedByOne'
  <2>1. Validators' = Validators
    BY <1>1, <1>3 DEF Validators, Actors
  <2> QED
    BY <2>1 DEF ValidatedByOne
<1> QED
  BY <1>1, <1>2, <1>3, <1>5, <1>6, WorkerStep

LEMMA AcceptStep ==
    ASSUME NEW w \in Workers, IInv, Accept(w)
    PROVE  IInv'
<1>1. w \in Validators
  BY DEF Accept, At, Validators
<1>2. "READY" \in DatasetStatus /\ "PASSED" \in {"PASSED", "FAILED"}
  BY DEF DatasetStatus
<1> QED
  BY <1>1, <1>2, JudgedStep DEF Accept, InspectionPasses

LEMMA RejectStep ==
    ASSUME NEW w \in Workers, IInv, Reject(w)
    PROVE  IInv'
<1>1. w \in Validators
  BY DEF Reject, Validators
<1>2. "REJECTED" \in DatasetStatus /\ "FAILED" \in {"PASSED", "FAILED"}
  BY DEF DatasetStatus
<1> QED
  BY <1>1, <1>2, JudgedStep DEF Reject

LEMMA CommitVerdictStep ==
    ASSUME NEW w \in Workers, IInv, CommitVerdict(w)
    PROVE  IInv'
<1> USE DatasetAssumption DEF IInv, CommitVerdict, session
<1>1. w \in Actors
  BY DEF Actors
<1>2. TypeOK'
  BY <1>1, WriteTypes, ReturnMoves DEF TypeOK
<1>3. /\ pc'[w] = "idle" /\ nextValidation'[w] = Keep
      /\ \A b \in Actors \ {w} : /\ pc'[b] = pc[b]
                                 /\ nextValidation'[b] = nextValidation[b]
  BY <1>1, ReturnMoves
<1>4. /\ validation = "RUNNING"
      /\ validation' = nextValidation[w]
      /\ nextValidation[w] \in {"PASSED", "FAILED"}
      /\ nextValidation[w] = "PASSED" => upload = "good"
  BY DEF At, Write, Written, WorkersWrite, ValidatedByOne, Validators,
         ValidationStatus
<1>5. RequestsWrite' /\ ProjectorWrites'
  BY <1>3 DEF RequestsWrite, ProjectorWrites, Assembled, Actors
<1>6. WorkersWrite'
  BY <1>3 DEF WorkersWrite, Actors, ValidationStatus
<1>7. AskedOnce' /\ PassedIsGood'
  BY <1>4 DEF AskedOnce, PassedIsGood
<1>8. ValidatedByOne'
  <2>1. \A x \in Validators : x = w
    BY DEF ValidatedByOne, Validators, At
  <2>2. Validators' = {}
    BY <1>3, <2>1 DEF Validators, Actors
  <2> QED
    BY <1>4, <2>2 DEF ValidatedByOne
<1> QED
  BY <1>2, <1>5, <1>6, <1>7, <1>8

\* Retention and reconciliation write neither validation nor anybody's UPDATE.
LEMMA RowStep ==
    ASSUME IInv, TypeOK', UNCHANGED <<validation, session, pending, lost>>
    PROVE  IInv'
<1> USE DatasetAssumption DEF IInv, session, pending
<1>1. RequestsWrite' /\ WorkersWrite' /\ ProjectorWrites'
  BY DEF RequestsWrite, WorkersWrite, ProjectorWrites, Assembled
<1>2. AskedOnce' /\ PassedIsGood'
  BY DEF AskedOnce, PassedIsGood
<1>3. ValidatedByOne'
  BY DEF ValidatedByOne, Validators
<1> QED
  BY <1>1, <1>2, <1>3

LEMMA EnforceRetentionStep ==
    ASSUME NEW w \in Workers, IInv, EnforceRetention(w)
    PROVE  IInv'
<1>1. TypeOK'
  BY DEF IInv, EnforceRetention, TypeOK, DatasetStatus, session, pending
<1> QED
  BY <1>1, RowStep DEF EnforceRetention

LEMMA ReconcileStep ==
    ASSUME NEW w \in Workers, IInv, Reconcile(w)
    PROVE  IInv'
<1>1. TypeOK'
  BY DEF IInv, Reconcile, TypeOK, RecoveryStatus, session, pending
<1> QED
  BY <1>1, RowStep DEF Reconcile

-----------------------------------------------------------------------------
(* The upload session.                                                      *)

LEMMA DecideStep ==
    ASSUME IInv, Decide
    PROVE  IInv'
<1> USE DatasetAssumption DEF IInv, row, pending
<1>1. /\ upload \notin {"good", "bad"}
      /\ upload' \in {"good", "bad", "ABORTED"}
      /\ stored' = Assembled'
      /\ UNCHANGED <<row, pending, lost, record, completions>>
  BY DEF Decide, Session!Decide, Assembled
<1>2. TypeOK'
  BY <1>1 DEF TypeOK, Assembled
<1>3. RequestsWrite' /\ WorkersWrite'
  BY <1>1 DEF RequestsWrite, WorkersWrite
<1>4. ProjectorWrites'
  BY <1>1 DEF ProjectorWrites, Assembled
<1>5. AskedOnce' /\ PassedIsGood' /\ ValidatedByOne'
  BY <1>1 DEF AskedOnce, PassedIsGood, ValidatedByOne, Validators
<1> QED
  BY <1>2, <1>3, <1>4, <1>5

\* The projector moves nobody else.
LEMMA ProjectorMoves ==
    ASSUME IInv, UNCHANGED <<upload, lost>>,
           \A b \in Actors \ {Projector} :
               /\ pc'[b] = pc[b]
               /\ nextValidation'[b] = nextValidation[b]
    PROVE  /\ RequestsWrite' /\ WorkersWrite'
           /\ Validators' = Validators
<1> USE DatasetAssumption DEF IInv, Actors
<1>1. RequestsWrite' /\ WorkersWrite'
  BY DEF RequestsWrite, WorkersWrite
<1>2. Validators' = Validators
  BY DEF Validators
<1> QED
  BY <1>1, <1>2

LEMMA BeginProjectionStep ==
    ASSUME IInv, BeginProjection
    PROVE  IInv'
<1> USE DEF IInv, row, session
<1>1. Projector \in Actors
  BY DEF Actors
<1>2. PICK s \in {"UPLOAD_PENDING", "UPLOADING", "PAUSED", "PROCESSING"} :
          Prepare(Projector, "projecting", s, validation, located)
  BY DEF BeginProjection
<1>3. UNCHANGED <<row, session, stored, lost>>
  BY DEF BeginProjection
<1>4. TypeOK'
  <2>1. located \in BOOLEAN /\ s \in DatasetStatus
    BY DEF TypeOK, DatasetStatus
  <2> QED
    BY <1>1, <1>2, <1>3, <2>1, Types DEF TypeOK
<1>5. /\ pc'[Projector] = "projecting" /\ nextValidation'[Projector] = Keep
      /\ \A b \in Actors \ {Projector} :
            /\ pc'[b] = pc[b]
            /\ nextValidation'[b] = nextValidation[b]
  BY <1>1, <1>2, PrepareMoves DEF Changed
<1>6. RequestsWrite' /\ WorkersWrite' /\ Validators' = Validators
  BY <1>3, <1>5, ProjectorMoves
<1>7. ProjectorWrites' /\ AskedOnce' /\ PassedIsGood' /\ ValidatedByOne'
  BY <1>3, <1>5, <1>6
  DEF ProjectorWrites, AskedOnce, PassedIsGood, ValidatedByOne
<1> QED
  BY <1>4, <1>6, <1>7

LEMMA CommitProjectionStep ==
    ASSUME IInv, CommitProjection
    PROVE  IInv'
<1> USE DEF IInv
<1>1. Projector \in Actors
  BY DEF Actors
<1>2. /\ Write(Projector) /\ Return(Projector)
      /\ record' = "none"
      /\ UNCHANGED <<upload, stored, lost, completions>>
  BY DEF CommitProjection, Session!Withdraw
<1>3. TypeOK'
  BY <1>1, <1>2, WriteTypes, ReturnMoves DEF TypeOK
<1>4. validation' = validation
  BY <1>2 DEF CommitProjection, At, ProjectorWrites, Write, Written
<1>5. RequestsWrite' /\ WorkersWrite' /\ Validators' = Validators
  BY <1>1, <1>2, ReturnMoves, ProjectorMoves
<1>6. pc'[Projector] = "idle" /\ nextValidation'[Projector] = Keep
  BY <1>1, <1>2, ReturnMoves
<1>7. ProjectorWrites' /\ AskedOnce' /\ PassedIsGood' /\ ValidatedByOne'
  BY <1>2, <1>4, <1>5, <1>6
  DEF ProjectorWrites, AskedOnce, PassedIsGood, ValidatedByOne
<1> QED
  BY <1>3, <1>5, <1>7

LEMMA BeginCompletionStep ==
    ASSUME IInv, BeginCompletion
    PROVE  IInv'
<1> USE DatasetAssumption DEF IInv, row, session
<1> DEFINE v == IF ValidationEnabled /\ validation = "NOT_REQUIRED"
                THEN "PENDING" ELSE validation
<1>1. Projector \in Actors
  BY DEF Actors
<1>2. /\ Prepare(Projector, "completing", "PROCESSING", v, TRUE)
      /\ Assembled /\ completions = 0
      /\ UNCHANGED <<row, session, stored, lost>>
  BY DEF BeginCompletion
<1>3. TypeOK'
  <2>1. "PROCESSING" \in DatasetStatus /\ TRUE \in BOOLEAN
        /\ v \in {validation, "PENDING", "PASSED", "FAILED"}
    BY DEF DatasetStatus
  <2> QED
    BY <1>1, <1>2, <2>1, Types DEF TypeOK
<1>4. /\ pc'[Projector] = "completing"
      /\ nextValidation'[Projector] = Changed(v, validation)
      /\ \A b \in Actors \ {Projector} :
            /\ pc'[b] = pc[b]
            /\ nextValidation'[b] = nextValidation[b]
  BY <1>1, <1>2, PrepareMoves
<1>5. RequestsWrite' /\ WorkersWrite' /\ Validators' = Validators
  BY <1>2, <1>4, ProjectorMoves
<1>6. ProjectorWrites'
  BY <1>2, <1>4 DEF ProjectorWrites, AskedOnce, Changed, Assembled
<1>7. AskedOnce' /\ PassedIsGood' /\ ValidatedByOne'
  BY <1>2, <1>5 DEF AskedOnce, PassedIsGood, ValidatedByOne
<1> QED
  BY <1>3, <1>5, <1>6, <1>7

LEMMA CommitCompletionStep ==
    ASSUME IInv, CommitCompletion
    PROVE  IInv'
<1> USE DatasetAssumption DEF IInv
<1>1. Projector \in Actors
  BY DEF Actors
<1>2. /\ Write(Projector) /\ Return(Projector)
      /\ record' = "COMPLETED" /\ completions = 0 /\ completions' = 1
      /\ UNCHANGED <<upload, stored, lost>>
  BY DEF CommitCompletion, Session!RecordCompleted
<1>3. TypeOK'
  BY <1>1, <1>2, WriteTypes, ReturnMoves DEF TypeOK
<1>4. /\ validation = "NOT_REQUIRED"
      /\ validation' = IF ValidationEnabled THEN "PENDING" ELSE validation
  BY <1>2
  DEF CommitCompletion, At, ProjectorWrites, AskedOnce, Write, Written,
      ValidationStatus
<1>5. RequestsWrite' /\ WorkersWrite' /\ Validators' = Validators
  BY <1>1, <1>2, ReturnMoves, ProjectorMoves
<1>6. pc'[Projector] = "idle" /\ nextValidation'[Projector] = Keep
  BY <1>1, <1>2, ReturnMoves
<1>7. ProjectorWrites'
  BY <1>6 DEF ProjectorWrites
<1>8. AskedOnce' /\ PassedIsGood' /\ ValidatedByOne'
  BY <1>2, <1>4, <1>5 DEF AskedOnce, PassedIsGood, ValidatedByOne
<1> QED
  BY <1>3, <1>5, <1>7, <1>8

LEMMA RecordAbortedStep ==
    ASSUME IInv, RecordAborted
    PROVE  IInv'
<1> USE DEF IInv, row, pending
<1>1. /\ record' = "ABORTED"
      /\ UNCHANGED <<upload, completions, row, stored, pending, lost>>
  BY DEF RecordAborted, Session!RecordAborted
<1>2. TypeOK'
  BY <1>1 DEF TypeOK
<1>3. RequestsWrite' /\ WorkersWrite' /\ ProjectorWrites'
  BY <1>1 DEF RequestsWrite, WorkersWrite, ProjectorWrites, Assembled
<1>4. AskedOnce' /\ PassedIsGood' /\ ValidatedByOne'
  BY <1>1 DEF AskedOnce, PassedIsGood, ValidatedByOne, Validators
<1> QED
  BY <1>2, <1>3, <1>4

\* A worker that dies while it validates leaves the row RUNNING: that is what
\* lost remembers.
LEMMA CrashStep ==
    ASSUME NEW a \in Crashing, IInv, Crash(a)
    PROVE  IInv'
<1> USE DatasetAssumption DEF IInv, row, session
<1>1. a \in Actors
  BY DEF Actors
<1>2. Return(a) /\ lost' = (lost \/ a \in Workers)
      /\ UNCHANGED <<row, session, stored>>
  BY DEF Crash
<1>3. TypeOK'
  BY <1>1, <1>2, ReturnMoves DEF TypeOK
<1>4. /\ pc'[a] = "idle" /\ nextValidation'[a] = Keep
      /\ \A b \in Actors \ {a} : /\ pc'[b] = pc[b]
                                 /\ nextValidation'[b] = nextValidation[b]
  BY <1>1, <1>2, ReturnMoves
<1>5. RequestsWrite'
  BY <1>4 DEF RequestsWrite, Actors
<1>6. WorkersWrite'
  BY <1>2, <1>4 DEF WorkersWrite, Actors, ValidationStatus
<1>7. ProjectorWrites'
  BY <1>2, <1>4 DEF ProjectorWrites, Actors, Assembled
<1>8. AskedOnce' /\ PassedIsGood'
  BY <1>2 DEF AskedOnce, PassedIsGood
<1>9. ValidatedByOne'
  <2>1. Validators' \subseteq Validators
    BY <1>4 DEF Validators, Actors
  <2>2. Validators # {} => Validators' # {} \/ lost'
    BY <1>2, <1>4 DEF Validators, Actors
  <2> QED
    BY <1>2, <2>1, <2>2 DEF ValidatedByOne, TypeOK
<1> QED
  BY <1>3, <1>5, <1>6, <1>7, <1>8, <1>9

-----------------------------------------------------------------------------
LEMMA StutterStep ==
    ASSUME IInv, UNCHANGED vars
    PROVE  IInv'
<1>1. TypeOK'
  BY DEF IInv, TypeOK, vars, row, session, pending
<1> QED
  BY <1>1, RowStep DEF vars, row

LEMMA CommandStep ==
    ASSUME NEW r \in Requests, IInv, Command(r)
    PROVE  IInv'
<1>1. {"READY", "ARCHIVED", "DELETED"} \subseteq DatasetStatus
  BY DEF DatasetStatus
<1>2. CASE ArchiveDataset(r)
  BY <1>1, <1>2, AssignStep DEF ArchiveDataset
<1>3. CASE SoftDeleteDataset(r)
  BY <1>1, <1>3, AssignStep DEF SoftDeleteDataset
<1>4. CASE RestoreDataset(r)
  BY <1>1, <1>4, AssignStep DEF RestoreDataset
<1>5. CASE BeginPurge(r)
  BY <1>5, BeginPurgeStep
<1> QED
  BY <1>2, <1>3, <1>4, <1>5 DEF Command

LEMMA NextStep ==
    ASSUME IInv, [Next]_vars
    PROVE  IInv'
<1>1. CASE \E r \in Requests : Command(r) \/ Handle(r)
  BY <1>1, CommandStep, DeleteObjectStep, CommitStep DEF Handle
<1>2. CASE RetryValidation
  BY <1>2, RetryValidationStep
<1>3. CASE \E w \in Workers : Validate(w) \/ EnforceRetention(w) \/ Reconcile(w)
  BY <1>3, ClaimStep, AcceptStep, RejectStep, CommitVerdictStep,
     EnforceRetentionStep, ReconcileStep DEF Validate
<1>4. CASE Decide
  BY <1>4, DecideStep
<1>5. CASE BeginProjection
  BY <1>5, BeginProjectionStep
<1>6. CASE BeginCompletion
  BY <1>6, BeginCompletionStep
<1>7. CASE FinishUpload
  BY <1>7, CommitProjectionStep, CommitCompletionStep DEF FinishUpload
<1>8. CASE RecordAborted
  BY <1>8, RecordAbortedStep
<1>9. CASE \E a \in Crashing : Crash(a)
  BY <1>9, CrashStep
<1>10. CASE UNCHANGED vars
  BY <1>10, StutterStep
<1> QED
  BY <1>1, <1>2, <1>3, <1>4, <1>5, <1>6, <1>7, <1>8, <1>9, <1>10 DEF Next

\* IInv holds in every reachable state.
THEOREM Inductive == Spec => []IInv
  BY InitHolds, NextStep, PTL DEF Spec

\* The row, the pending UPDATEs and whoever writes them are well typed: no
\* transaction writes a value its column does not admit.
THEOREM TypeCorrect == Spec => []TypeOK
<1>1. IInv => TypeOK
  BY DEF IInv
<1> QED
  BY <1>1, Inductive, PTL

\* However commands, worker and upload interleave, one worker at a time holds
\* the dataset's validation, and RUNNING is not left behind unless it died.
THEOREM AlwaysValidatedByOne == Spec => []ValidatedByOne
<1>1. IInv => ValidatedByOne
  BY DEF IInv
<1> QED
  BY <1>1, Inductive, PTL

\* After the completion, with validation on, create_download_url gives out
\* accepted objects only.
THEOREM ExposedAlwaysAccepted == Spec => []ExposedWasAccepted
<1>1. IInv => ExposedWasAccepted
  BY DEF IInv, ExposedWasAccepted, AskedOnce, PassedIsGood, Downloadable,
         Exposable, TypeOK, ValidationStatus
<1> QED
  BY <1>1, Inductive, PTL

LEMMA AcceptedStep ==
    ASSUME IInv, [Next]_vars, validation = "PASSED"
    PROVE  validation' = "PASSED"
<1> USE DEF IInv
<1>1. completions # 0 /\ Validators = {}
  BY DEF AskedOnce, ValidatedByOne
<1>2. \A r \in Requests : Command(r) \/ DeleteObject(r) => UNCHANGED validation
  BY DEF Command, ArchiveDataset, SoftDeleteDataset, RestoreDataset, Assign,
         BeginPurge, DeleteObject, row
<1>3. \A r \in Requests : Commit(r) => UNCHANGED validation
  BY DEF Commit, Write, Written, RequestsWrite
<1>4. ~RetryValidation
  BY DEF RetryValidation
<1>5. \A w \in Workers : ~Validate(w)
  BY <1>1 DEF Validate, Claim, Accept, Reject, CommitVerdict, At, Validators
<1>6. \A w \in Workers : EnforceRetention(w) \/ Reconcile(w) => UNCHANGED validation
  BY DEF EnforceRetention, Reconcile
<1>7. Decide \/ BeginProjection \/ BeginCompletion \/ RecordAborted
          => UNCHANGED validation
  BY DEF Decide, BeginProjection, BeginCompletion, RecordAborted, row
<1>8. CommitProjection => UNCHANGED validation
  BY DEF CommitProjection, Write, Written, At, ProjectorWrites
<1>9. ~CommitCompletion
  BY <1>1 DEF CommitCompletion, At, ProjectorWrites
<1>10. \A a \in Crashing : Crash(a) => UNCHANGED validation
  BY DEF Crash, row
<1>11. UNCHANGED vars => UNCHANGED validation
  BY DEF vars, row
<1> QED
  BY <1>2, <1>3, <1>4, <1>5, <1>6, <1>7, <1>8, <1>9, <1>10, <1>11
  DEF Next, Handle, FinishUpload

\* No command, worker or upload takes PASSED back.
THEOREM AcceptedAlwaysStays == Spec => AcceptedStays
<1>1. IInv /\ [Next]_vars => [validation = "PASSED" => validation' = "PASSED"]_validation
  BY AcceptedStep
<1> QED
  BY <1>1, Inductive, PTL DEF Spec, AcceptedStays

-----------------------------------------------------------------------------
(* The upload session of this model is one that UploadOutcome allows, which  *)
(* UploadSession is proved to implement.                                    *)

LEMMA SessionStep == [Next]_vars => [Session!Next]_(Session!vars)
<1> SUFFICES ASSUME [Next]_vars PROVE [Session!Next]_(Session!vars)
  OBVIOUS
<1> USE DEF Session!Next, Session!vars, session
<1>1. ASSUME UNCHANGED session PROVE [Session!Next]_(Session!vars)
  BY <1>1 DEF Assembled
<1>2. ASSUME NEW r \in Requests, Command(r) \/ Handle(r) PROVE UNCHANGED session
  BY <1>2 DEF Command, ArchiveDataset, SoftDeleteDataset, RestoreDataset, Assign,
              BeginPurge, Handle, DeleteObject, Commit
<1>3. CASE RetryValidation
  BY <1>1, <1>3 DEF RetryValidation
<1>4. ASSUME NEW w \in Workers, Validate(w) \/ EnforceRetention(w) \/ Reconcile(w)
      PROVE  UNCHANGED session
  BY <1>4 DEF Validate, Claim, Accept, Reject, CommitVerdict, EnforceRetention, Reconcile
<1>5. CASE Decide
  BY <1>5 DEF Decide
<1>6. CASE BeginProjection \/ BeginCompletion
  BY <1>1, <1>6 DEF BeginProjection, BeginCompletion
<1>7. CASE FinishUpload
  BY <1>7 DEF FinishUpload, CommitProjection, CommitCompletion
<1>8. CASE RecordAborted
  BY <1>8 DEF RecordAborted
<1>9. ASSUME NEW a \in Crashing, Crash(a) PROVE UNCHANGED session
  BY <1>9 DEF Crash
<1>10. CASE UNCHANGED vars
  BY <1>1, <1>10 DEF vars
<1> QED
  BY <1>1, <1>2, <1>3, <1>4, <1>5, <1>6, <1>7, <1>8, <1>9, <1>10 DEF Next

\* What the dataset's handlers read of their upload session is no more than
\* UploadOutcome allows: no action here decides, records or withdraws in a way
\* that UploadSession is not proved to be confined to.
THEOREM SessionAsPromised == Spec => Session!Spec
<1>1. Init => Session!Init
  BY DEF Init, Session!Init, Assembled
<1> QED
  BY <1>1, SessionStep, PTL DEF Spec, Session!Spec

-----------------------------------------------------------------------------
(* A validation whose worker died.                                          *)

\* The row says RUNNING, and no worker has it.
Stranded == validation = "RUNNING" /\ Validators = {}

LEMMA StrandedStep ==
    ASSUME IInv, [Next]_vars, Stranded
    PROVE  Stranded'
<1> USE DEF IInv, Stranded
<1>1. completions # 0
  BY DEF AskedOnce
<1>2. \A w \in Workers : pc[w] = "idle"
  BY DEF WorkersWrite, Validators
<1>3. pc \in [Actors -> {"idle", "writing", "purging", "validating", "judged",
                         "projecting", "completing"}]
  BY DEF TypeOK
<1>4. ASSUME UNCHANGED validation, \A w \in Workers : pc'[w] = pc[w]
      PROVE  Stranded'
  BY <1>4 DEF Validators
<1>5. ASSUME NEW a \in Actors \ Workers, NEW point,
             pc' = [pc EXCEPT ![a] = point], UNCHANGED validation
      PROVE  Stranded'
  BY <1>3, <1>4, <1>5 DEF Actors
<1>6. ASSUME NEW r \in Requests, Command(r) \/ Handle(r)
      PROVE  Stranded'
  <2>1. r \in Actors \ Workers
    BY DatasetAssumption DEF Actors
  <2>2. UNCHANGED validation
    BY <1>6 DEF Command, ArchiveDataset, SoftDeleteDataset, RestoreDataset, Assign,
                BeginPurge, Handle, DeleteObject, Commit, Write, Written,
                RequestsWrite, row
  <2>3. \E point : pc' = [pc EXCEPT ![r] = point]
    BY <1>6 DEF Command, ArchiveDataset, SoftDeleteDataset, RestoreDataset, Assign,
                BeginPurge, Handle, DeleteObject, Commit, Prepare, Return
  <2> QED
    BY <1>5, <2>1, <2>2, <2>3
<1>7. ~RetryValidation
  BY DEF RetryValidation
<1>8. ASSUME NEW w \in Workers, Validate(w) \/ EnforceRetention(w) \/ Reconcile(w)
      PROVE  Stranded'
  <2>1. ~Validate(w)
    BY <1>2 DEF Validate, Claim, Accept, Reject, CommitVerdict, At
  <2> QED
    BY <1>4, <1>8, <2>1 DEF EnforceRetention, Reconcile, pending
<1>9. CASE Decide \/ RecordAborted
  BY <1>4, <1>9 DEF Decide, RecordAborted, row, pending
<1>10. CASE BeginProjection \/ BeginCompletion \/ FinishUpload
  <2>1. Projector \in Actors \ Workers
    BY DatasetAssumption DEF Actors
  <2>2. UNCHANGED validation
    BY <1>1, <1>10 DEF BeginProjection, BeginCompletion, FinishUpload,
       CommitProjection, CommitCompletion, Write, Written, At, ProjectorWrites, row
  <2>3. \E point : pc' = [pc EXCEPT ![Projector] = point]
    BY <1>10 DEF BeginProjection, BeginCompletion, FinishUpload,
                 CommitProjection, CommitCompletion, Prepare, Return
  <2> QED
    BY <1>5, <2>1, <2>2, <2>3
<1>11. ASSUME NEW a \in Crashing, Crash(a)
       PROVE  Stranded'
  <2>1. a \in Actors \ Workers
    BY <1>2, <1>11, DatasetAssumption DEF Crash, At, Actors
  <2>2. pc' = [pc EXCEPT ![a] = "idle"] /\ UNCHANGED validation
    BY <1>11 DEF Crash, Return, row
  <2> QED
    BY <1>5, <2>1, <2>2
<1>12. CASE UNCHANGED vars
  BY <1>4, <1>12 DEF vars, row, pending
<1> QED
  BY <1>6, <1>7, <1>8, <1>9, <1>10, <1>11, <1>12 DEF Next

\* A dataset whose worker died validating it (section 4 of the README): no claim,
\* retry, command or projection takes it up, so that it says RUNNING for ever
\* and is never downloaded.
THEOREM StrandedForEver ==
    Spec => [](Stranded => [](validation = "RUNNING" /\ ~Downloadable))
<1>1. IInv /\ [Next]_vars /\ Stranded => Stranded'
  BY StrandedStep
<1>2. Stranded => validation = "RUNNING" /\ ~Downloadable
  BY DEF Stranded, Downloadable, Exposable
<1> QED
  BY <1>1, <1>2, Inductive, PTL DEF Spec

=============================================================================
