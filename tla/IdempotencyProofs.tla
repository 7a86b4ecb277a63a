--------------------------- MODULE IdempotencyProofs ---------------------------
(***************************************************************************)
(* Proofs about Idempotency for any number of requests with a key, of any   *)
(* kinds, whoever of them dies.                                             *)
(***************************************************************************)
EXTENDS Idempotency, Naturals, TLAPS

Served == \A r \in Requests : pc[r] # "idle" => request[r] \in Fingerprints

\* The open insertion is that of the one request inside its first transaction,
\* and the key has no committed record meanwhile.
InsertionHeld ==
    /\ \A r \in Requests : pc[r] = "working" <=> inserting = r
    /\ inserting # None => record = None

OutsideIsDouble == \A r \in Requests : pc[r] = "outside" => request[r] \in Doubles

ExecutedIsDone == \A r \in executed : pc[r] = "done"

\* What a command in one transaction leaves behind bars its next execution.
ExecutedIsRecorded ==
    \A r \in executed :
        request[r] \notin Doubles =>
            Answered /\ record.fingerprint = request[r]

\* The answer on record is that of the record's own command, or of a complete or
\* an abort, and either has been carried out.
RecordedWasExecuted ==
    Answered =>
        /\ record.answer = record.fingerprint \/ record.answer \in Doubles
        /\ \E q \in executed : request[q] = record.answer

\* The first half of UnusableIsExplained; the second is RecordedWasExecuted.
UnansweredAttended ==
    InProgress => pc[record.owner] \in {"outside", "deleting", "dead"}

IInv ==
    /\ TypeOK
    /\ Served
    /\ InsertionHeld
    /\ OutsideIsDouble
    /\ ExecutedIsDone
    /\ ExecutedIsRecorded
    /\ RecordedWasExecuted
    /\ UnansweredAttended
    /\ ExecutedOnce
    /\ AnswersWereExecuted

\* The kinds of command with two transactions, and those with the status 201.
LEMMA KindsApart ==
    /\ Doubles \subseteq Fingerprints /\ Creates \subseteq Fingerprints
    /\ Doubles \cap Creates = {}
    /\ Kind \in [Fingerprints -> Kinds]
  BY IdempotencyAssumption DEF Doubles, Creates

\* An answer of the record's own command has the right status and body.
LEMMA OwnAnswerFits ==
    Answered /\ ~(StatusFits /\ BodyFits) => record.answer # record.fingerprint
  BY DEF StatusFits, BodyFits

LEMMA InitHolds == Init => IInv
<1> SUFFICES ASSUME Init PROVE IInv
  OBVIOUS
<1> USE IdempotencyAssumption, KindsApart DEF Init
<1>1. TypeOK /\ Served /\ InsertionHeld /\ OutsideIsDouble
  BY DEF TypeOK, Served, InsertionHeld, OutsideIsDouble, Steps
<1>2. ExecutedIsDone /\ ExecutedIsRecorded /\ RecordedWasExecuted
  BY DEF ExecutedIsDone, ExecutedIsRecorded, RecordedWasExecuted, Answered
<1>3. UnansweredAttended /\ ExecutedOnce /\ AnswersWereExecuted
  BY DEF UnansweredAttended, InProgress, ExecutedOnce, AnswersWereExecuted
<1> QED
  BY <1>1, <1>2, <1>3 DEF IInv

-----------------------------------------------------------------------------
LEMMA ResolveKeeps ==
  ASSUME IInv, NEW r \in Requests, NEW f \in Fingerprints, Resolve(r, f)
  PROVE  IInv'
<1> USE IdempotencyAssumption, KindsApart DEF IInv, TypeOK, Resolve, Finish, Replay, SameRequest, StatusFits,
        BodyFits, Answered
<1>1. TypeOK' /\ Served'
  BY DEF Served, Steps, Records
<1>2. InsertionHeld' /\ OutsideIsDouble' /\ ExecutedIsDone'
  BY DEF InsertionHeld, OutsideIsDouble, ExecutedIsDone
<1>3. ExecutedIsRecorded' /\ RecordedWasExecuted'
  BY DEF ExecutedIsRecorded, RecordedWasExecuted, ExecutedIsDone,
         OutsideIsDouble, Answered, Records
<1>4. UnansweredAttended'
  BY DEF UnansweredAttended, InProgress, Served, Records
<1>5. ExecutedOnce'
  BY DEF ExecutedOnce, ExecutedIsRecorded, ExecutedIsDone, OutsideIsDouble,
         InsertionHeld, Answered
<1>6. AnswersWereExecuted'
  BY DEF AnswersWereExecuted, RecordedWasExecuted, ExecutedIsDone, Answered
<1> QED
  BY <1>1, <1>2, <1>3, <1>4, <1>5, <1>6

LEMMA CommitAnswerKeeps ==
  ASSUME IInv, NEW r \in Requests, CommitAnswer(r)
  PROVE  IInv'
<1> USE IdempotencyAssumption, KindsApart DEF IInv, TypeOK, CommitAnswer, Finish
<1>1. TypeOK' /\ Served'
  BY DEF Served, Steps, Records
<1>2. InsertionHeld' /\ OutsideIsDouble' /\ ExecutedIsDone'
  BY DEF InsertionHeld, OutsideIsDouble, ExecutedIsDone
<1>3. ExecutedIsRecorded' /\ RecordedWasExecuted'
  <2>1. record = None /\ request[r] \in Fingerprints
    BY DEF InsertionHeld, Served
  <2>2. Answered' /\ record'.fingerprint = request[r]
    BY <2>1 DEF Answered, Records
  <2>3. \A q \in executed : request[q] \in Doubles
    BY <2>1 DEF ExecutedIsRecorded, Answered
  <2>4. ExecutedIsRecorded'
    BY <2>2, <2>3 DEF ExecutedIsRecorded
  <2>5. RecordedWasExecuted'
    BY DEF RecordedWasExecuted
  <2> QED
    BY <2>4, <2>5
<1>4. UnansweredAttended'
  BY DEF UnansweredAttended, InProgress, Served, Records
<1>5. ExecutedOnce'
  BY DEF ExecutedOnce, ExecutedIsRecorded, ExecutedIsDone, OutsideIsDouble,
         InsertionHeld, Answered
<1>6. AnswersWereExecuted'
  BY DEF AnswersWereExecuted, RecordedWasExecuted, ExecutedIsDone, Answered
<1> QED
  BY <1>1, <1>2, <1>3, <1>4, <1>5, <1>6

LEMMA CommitFirstKeeps ==
  ASSUME IInv, NEW r \in Requests, CommitFirst(r)
  PROVE  IInv'
<1> USE IdempotencyAssumption, KindsApart DEF IInv, TypeOK, CommitFirst, FirstAnswer
<1>1. TypeOK' /\ Served'
  BY DEF Served, Steps, Records
<1>2. InsertionHeld' /\ OutsideIsDouble' /\ ExecutedIsDone'
  BY DEF InsertionHeld, OutsideIsDouble, ExecutedIsDone
<1>3. ExecutedIsRecorded' /\ RecordedWasExecuted'
  <2>1. record = None
    BY DEF InsertionHeld
  <2>2. \A q \in executed : request[q] \in Doubles
    BY <2>1 DEF ExecutedIsRecorded, Answered
  <2>3. ExecutedIsRecorded'
    BY <2>2 DEF ExecutedIsRecorded
  <2>4. RecordedWasExecuted'
    BY DEF RecordedWasExecuted, Answered
  <2> QED
    BY <2>3, <2>4
<1>4. UnansweredAttended'
  BY DEF UnansweredAttended, InProgress, Served, Records
<1>5. ExecutedOnce'
  BY DEF ExecutedOnce, ExecutedIsRecorded, ExecutedIsDone, OutsideIsDouble,
         InsertionHeld, Answered
<1>6. AnswersWereExecuted'
  BY DEF AnswersWereExecuted, RecordedWasExecuted, ExecutedIsDone, Answered
<1> QED
  BY <1>1, <1>2, <1>3, <1>4, <1>5, <1>6

LEMMA CommitSecondKeeps ==
  ASSUME IInv, NEW r \in Requests, CommitSecond(r)
  PROVE  IInv'
<1> USE IdempotencyAssumption, KindsApart DEF IInv, TypeOK, CommitSecond, Store, Finish
<1>1. TypeOK' /\ Served'
  BY DEF Served, Steps, Records
<1>2. InsertionHeld' /\ OutsideIsDouble' /\ ExecutedIsDone'
  BY DEF InsertionHeld, OutsideIsDouble, ExecutedIsDone
<1>3. ExecutedIsRecorded' /\ RecordedWasExecuted'
  <2>1. request[r] \in Doubles /\ request[r] # None
    BY DEF OutsideIsDouble, Served
  <2>2. Answered' /\ record'.fingerprint = record.fingerprint
    BY <2>1 DEF Answered, Records
  <2>3. ExecutedIsRecorded'
    BY <2>1, <2>2 DEF ExecutedIsRecorded
  <2>4. record'.answer = request[r] /\ r \in executed' /\ request' = request
    BY <2>1 DEF Records
  <2>5. RecordedWasExecuted'
    BY <2>1, <2>4 DEF RecordedWasExecuted
  <2> QED
    BY <2>3, <2>5
<1>4. UnansweredAttended'
  BY DEF UnansweredAttended, InProgress, Served, Records
<1>5. ExecutedOnce'
  BY DEF ExecutedOnce, ExecutedIsRecorded, ExecutedIsDone, OutsideIsDouble,
         InsertionHeld, Answered
<1>6. AnswersWereExecuted'
  BY DEF AnswersWereExecuted, RecordedWasExecuted, ExecutedIsDone, Answered
<1> QED
  BY <1>1, <1>2, <1>3, <1>4, <1>5, <1>6

LEMMA DeleteRecordKeeps ==
  ASSUME IInv, NEW r \in Requests, DeleteRecord(r)
  PROVE  IInv'
<1> USE IdempotencyAssumption, KindsApart DEF IInv, TypeOK, DeleteRecord, Deletable, InProgress
<1>1. TypeOK' /\ Served'
  BY DEF Served, Steps, Records
<1>2. InsertionHeld' /\ OutsideIsDouble' /\ ExecutedIsDone'
  BY DEF InsertionHeld, OutsideIsDouble, ExecutedIsDone
<1>3. ExecutedIsRecorded' /\ RecordedWasExecuted'
  BY DEF ExecutedIsRecorded, RecordedWasExecuted, ExecutedIsDone,
         OutsideIsDouble, Answered, Records
<1>4. UnansweredAttended'
  BY DEF UnansweredAttended, InProgress, Served, Records
<1>5. ExecutedOnce'
  BY DEF ExecutedOnce, ExecutedIsRecorded, ExecutedIsDone, OutsideIsDouble,
         InsertionHeld, Answered
<1>6. AnswersWereExecuted'
  BY DEF AnswersWereExecuted, RecordedWasExecuted, ExecutedIsDone, Answered
<1> QED
  BY <1>1, <1>2, <1>3, <1>4, <1>5, <1>6

(* Steps that commit nothing: the record and what was executed stay.        *)

LEMMA InsertKeeps ==
  ASSUME IInv, NEW r \in Requests, Insert(r)
  PROVE  IInv'
<1> USE IdempotencyAssumption, KindsApart DEF IInv, TypeOK, Insert, Vacant
<1>1. TypeOK' /\ Served'
  BY DEF Served, Steps
<1>2. InsertionHeld' /\ OutsideIsDouble' /\ ExecutedIsDone'
  BY DEF InsertionHeld, OutsideIsDouble, ExecutedIsDone
<1>3. ExecutedIsRecorded' /\ RecordedWasExecuted' /\ ExecutedOnce'
  BY DEF ExecutedIsRecorded, RecordedWasExecuted, ExecutedOnce, Answered
<1>4. UnansweredAttended' /\ AnswersWereExecuted'
  BY DEF UnansweredAttended, InProgress, OutsideIsDouble, AnswersWereExecuted
<1> QED
  BY <1>1, <1>2, <1>3, <1>4

LEMMA InsertConflictsKeeps ==
  ASSUME IInv, NEW r \in Requests, InsertConflicts(r)
  PROVE  IInv'
<1> USE IdempotencyAssumption, KindsApart DEF IInv, TypeOK, InsertConflicts, Finish, Vacant
<1>1. TypeOK' /\ Served'
  BY DEF Served, Steps
<1>2. InsertionHeld' /\ OutsideIsDouble' /\ ExecutedIsDone'
  BY DEF InsertionHeld, OutsideIsDouble, ExecutedIsDone
<1>3. ExecutedIsRecorded' /\ RecordedWasExecuted' /\ ExecutedOnce'
  BY DEF ExecutedIsRecorded, RecordedWasExecuted, ExecutedOnce, Answered
<1>4. UnansweredAttended' /\ AnswersWereExecuted'
  BY DEF UnansweredAttended, InProgress, OutsideIsDouble, AnswersWereExecuted
<1> QED
  BY <1>1, <1>2, <1>3, <1>4

LEMMA FailKeeps ==
  ASSUME IInv, NEW r \in Requests, Fail(r)
  PROVE  IInv'
<1> USE IdempotencyAssumption, KindsApart DEF IInv, TypeOK, Fail, RolledBack, AfterFailure
<1>1. TypeOK' /\ Served'
  BY DEF Served, Steps
<1>2. InsertionHeld' /\ OutsideIsDouble' /\ ExecutedIsDone'
  BY DEF InsertionHeld, OutsideIsDouble, ExecutedIsDone
<1>3. ExecutedIsRecorded' /\ RecordedWasExecuted' /\ ExecutedOnce'
  BY DEF ExecutedIsRecorded, RecordedWasExecuted, ExecutedOnce, Answered
<1>4. UnansweredAttended' /\ AnswersWereExecuted'
  BY DEF UnansweredAttended, InProgress, OutsideIsDouble, AnswersWereExecuted
<1> QED
  BY <1>1, <1>2, <1>3, <1>4

LEMMA FailOutsideKeeps ==
  ASSUME IInv, NEW r \in Requests, FailOutside(r)
  PROVE  IInv'
<1> USE IdempotencyAssumption, KindsApart DEF IInv, TypeOK, FailOutside, AfterFailure
<1>1. TypeOK' /\ Served'
  BY DEF Served, Steps
<1>2. InsertionHeld' /\ OutsideIsDouble' /\ ExecutedIsDone'
  BY DEF InsertionHeld, OutsideIsDouble, ExecutedIsDone
<1>3. ExecutedIsRecorded' /\ RecordedWasExecuted' /\ ExecutedOnce'
  BY DEF ExecutedIsRecorded, RecordedWasExecuted, ExecutedOnce, Answered
<1>4. UnansweredAttended' /\ AnswersWereExecuted'
  BY DEF UnansweredAttended, InProgress, OutsideIsDouble, AnswersWereExecuted
<1> QED
  BY <1>1, <1>2, <1>3, <1>4

LEMMA AnswerLostKeeps ==
  ASSUME IInv, NEW r \in Requests, AnswerLost(r)
  PROVE  IInv'
<1> USE IdempotencyAssumption, KindsApart DEF IInv, TypeOK, AnswerLost, Finish
<1>1. TypeOK' /\ Served'
  BY DEF Served, Steps
<1>2. InsertionHeld' /\ OutsideIsDouble' /\ ExecutedIsDone'
  BY DEF InsertionHeld, OutsideIsDouble, ExecutedIsDone
<1>3. ExecutedIsRecorded' /\ RecordedWasExecuted' /\ ExecutedOnce'
  BY DEF ExecutedIsRecorded, RecordedWasExecuted, ExecutedOnce, Answered
<1>4. UnansweredAttended' /\ AnswersWereExecuted'
  BY DEF UnansweredAttended, InProgress, OutsideIsDouble, AnswersWereExecuted
<1> QED
  BY <1>1, <1>2, <1>3, <1>4

LEMMA CrashKeeps ==
  ASSUME IInv, NEW r \in Requests, Crash(r)
  PROVE  IInv'
<1> USE IdempotencyAssumption, KindsApart DEF IInv, TypeOK, Crash
<1>1. TypeOK' /\ Served'
  BY DEF Served, Steps
<1>2. InsertionHeld' /\ OutsideIsDouble' /\ ExecutedIsDone'
  BY DEF InsertionHeld, OutsideIsDouble, ExecutedIsDone
<1>3. ExecutedIsRecorded' /\ RecordedWasExecuted' /\ ExecutedOnce'
  BY DEF ExecutedIsRecorded, RecordedWasExecuted, ExecutedOnce, Answered
<1>4. UnansweredAttended' /\ AnswersWereExecuted'
  BY DEF UnansweredAttended, InProgress, OutsideIsDouble, AnswersWereExecuted
<1> QED
  BY <1>1, <1>2, <1>3, <1>4

-----------------------------------------------------------------------------
LEMMA NextKeeps == IInv /\ [Next]_vars => IInv'
<1> SUFFICES ASSUME IInv, [Next]_vars PROVE IInv'
  OBVIOUS
<1>1. ASSUME NEW r \in Requests, NEW f \in Fingerprints, Resolve(r, f)
      PROVE  IInv'
  BY <1>1, ResolveKeeps
<1>2. ASSUME NEW r \in Requests, Continue(r)
      PROVE  IInv'
  BY <1>2, InsertKeeps, InsertConflictsKeeps, CommitAnswerKeeps,
     CommitFirstKeeps, FailKeeps, FailOutsideKeeps, CommitSecondKeeps,
     AnswerLostKeeps, DeleteRecordKeeps
  DEF Continue
<1>3. ASSUME NEW r \in Requests, Crash(r)
      PROVE  IInv'
  BY <1>3, CrashKeeps
<1>4. CASE UNCHANGED vars
  BY <1>4
  DEF vars, IInv, TypeOK, Served, InsertionHeld, OutsideIsDouble,
      ExecutedIsDone, ExecutedIsRecorded, RecordedWasExecuted,
      UnansweredAttended, ExecutedOnce, AnswersWereExecuted, Answered,
      InProgress
<1> QED
  BY <1>1, <1>2, <1>3, <1>4 DEF Next

(* Every reachable state satisfies the inductive invariant. *)
THEOREM Invariance == Spec => []IInv
<1> QED
  BY InitHolds, NextKeeps, PTL DEF Spec

(* The record, the open insertion and the requests keep their types. *)
THEOREM TypeCorrect == Spec => []TypeOK
<1>1. IInv => TypeOK
  BY DEF IInv
<1> QED
  BY <1>1, Invariance, PTL

(* A key that gives its own requests no answer is taken by a request that is
   still at work, is about to delete the record, or has died; or it holds the
   answer of a complete or an abort for something else that was carried out. *)
THEOREM UnusableAlwaysExplained == Spec => []UnusableIsExplained
<1>1. IInv => UnusableIsExplained
  BY OwnAnswerFits
  DEF IInv, UnansweredAttended, RecordedWasExecuted, UnusableIsExplained
<1> QED
  BY <1>1, Invariance, PTL

(* Creating, pausing or resuming is executed at most once under a key. *)
THEOREM AlwaysExecutedOnce == Spec => []ExecutedOnce
<1>1. IInv => ExecutedOnce
  BY DEF IInv
<1> QED
  BY <1>1, Invariance, PTL

(* No request is answered with what no command has carried through. *)
THEOREM AnswersAlwaysExecuted == Spec => []AnswersWereExecuted
<1>1. IInv => AnswersWereExecuted
  BY DEF IInv
<1> QED
  BY <1>1, Invariance, PTL

-----------------------------------------------------------------------------
(* An answered record can only be rewritten by the second transaction of a  *)
(* complete or an abort, which leaves it answered and its fingerprint alone.*)

\* The answer the record's own command gave, replaced by that of a complete or
\* an abort for something else, carried out in this very step.
Overwritten ==
    \E q \in executed' \ executed : request[q] \in Doubles \ {record.fingerprint}

LEMMA StepKeepsAnswer ==
  ASSUME IInv, [Next]_vars, Answered
  PROVE  /\ Answered' /\ record'.fingerprint = record.fingerprint
         /\ record.answer = record.fingerprint /\ record'.answer # record.answer
                => Overwritten
<1> DEFINE Kept == /\ Answered' /\ record'.fingerprint = record.fingerprint
                   /\ record.answer = record.fingerprint
                        /\ record'.answer # record.answer => Overwritten
<1> USE IdempotencyAssumption, KindsApart DEF IInv, Answered
<1>1. record \in Records /\ record # None
  BY DEF TypeOK
<1>2. ASSUME NEW r \in Requests, CommitAnswer(r) \/ CommitFirst(r)
      PROVE  FALSE
  BY <1>1, <1>2 DEF InsertionHeld, CommitAnswer, CommitFirst
<1>3. ASSUME NEW r \in Requests, CommitSecond(r)
      PROVE  Kept
  <2>1. request[r] \in Doubles /\ record' = [record EXCEPT !.answer = request[r]]
    BY <1>3 DEF CommitSecond, Store, OutsideIsDouble
  <2>2. /\ record'.answer = request[r] /\ record' \in Records
        /\ record'.fingerprint = record.fingerprint
    BY <1>1, <2>1 DEF Records
  <2>3. r \in executed' \ executed
    BY <1>3 DEF CommitSecond, ExecutedIsDone
  <2> QED
    BY <1>1, <2>1, <2>2, <2>3 DEF Records, Overwritten
<1>4. ASSUME NEW r \in Requests, DeleteRecord(r)
      PROVE  record' = record
  BY <1>4 DEF DeleteRecord, Deletable, InProgress
<1>5. ASSUME NEW r \in Requests,
             \/ Insert(r) \/ InsertConflicts(r) \/ Fail(r) \/ FailOutside(r)
             \/ AnswerLost(r) \/ Crash(r)
             \/ \E f \in Fingerprints : Resolve(r, f)
      PROVE  record' = record
  BY <1>5 DEF Insert, InsertConflicts, Fail, FailOutside, AnswerLost, Crash, Resolve
<1>6. CASE UNCHANGED vars
  BY <1>6 DEF vars
<1> QED
  BY <1>2, <1>3, <1>4, <1>5, <1>6 DEF Next, Continue

(* An answered record is never deleted nor given to another command, and the
   answer of its own command is replaced in one way only. *)
THEOREM AnswerAlwaysStays == Spec => AnswerStays
<1>1. IInv /\ [Next]_vars =>
        [Answered =>
            /\ Answered' /\ record'.fingerprint = record.fingerprint
            /\ record.answer = record.fingerprint /\ record'.answer # record.answer =>
                  \E q \in executed' \ executed :
                      request[q] \in Doubles \ {record.fingerprint}]_vars
  BY StepKeepsAnswer DEF Overwritten
<1> QED
  BY <1>1, Invariance, PTL DEF Spec, AnswerStays

-----------------------------------------------------------------------------
(* The key keeps the promise of KeyedCommand.                               *)

\* Until it is answered a request has no reply; once anything was carried out
\* the key has an answered record.
PromiseInv ==
    /\ \A r \in Requests :
          /\ pc[r] = "idle" => request[r] = None
          /\ pc[r] \in {"idle", "unseen", "working", "outside"} => reply[r] = None
    /\ executed # {} => Answered

LEMMA PromiseInvKept ==
  ASSUME IInv, PromiseInv, [Next]_vars
  PROVE  PromiseInv'
<1> USE IdempotencyAssumption, KindsApart DEF PromiseInv, Answered
<1>1. /\ pc \in [Requests -> Steps] /\ reply \in [Requests -> Fingerprints \cup {None, Refused, Failed}]
      /\ request \in [Requests -> Fingerprints \cup {None}]
      /\ record \in Records \cup {None}
  BY DEF IInv, TypeOK
<1>2. ASSUME NEW r \in Requests, NEW f \in Fingerprints, Resolve(r, f)
      PROVE  PromiseInv'
  BY <1>1, <1>2 DEF Resolve, Finish
<1>3. ASSUME NEW r \in Requests, CommitAnswer(r)
      PROVE  PromiseInv'
  <2>1. request[r] \in Fingerprints
    BY <1>3 DEF CommitAnswer, IInv, Served
  <2>2. /\ record' # None /\ record'.answer = request[r]
        /\ record'.fingerprint = request[r]
    <3>1. record' \in Records
      BY <1>3, <2>1 DEF CommitAnswer, Records
    <3> QED
      BY <1>3, <3>1 DEF CommitAnswer
  <2>3. \A q \in Requests :
           /\ pc'[q] = "idle" => request'[q] = None
           /\ pc'[q] \in {"idle", "unseen", "working", "outside"} => reply'[q] = None
    BY <1>1, <1>3 DEF CommitAnswer, Finish
  <2> QED
    BY <2>1, <2>2, <2>3
<1>4. ASSUME NEW r \in Requests, CommitFirst(r)
      PROVE  PromiseInv'
  <2>1. executed = {}
    BY <1>4 DEF CommitFirst, IInv, InsertionHeld
  <2>2. executed' = {} /\ ~Answered'
    BY <1>4, <2>1 DEF CommitFirst, FirstAnswer
  <2>3. \A q \in Requests :
           /\ pc'[q] = "idle" => request'[q] = None
           /\ pc'[q] \in {"idle", "unseen", "working", "outside"} => reply'[q] = None
    BY <1>1, <1>4 DEF CommitFirst
  <2> QED
    BY <2>2, <2>3
<1>5. ASSUME NEW r \in Requests, CommitSecond(r)
      PROVE  PromiseInv'
  <2>1. request[r] \in Fingerprints /\ request[r] \in Doubles
    BY <1>5 DEF CommitSecond, IInv, Served, OutsideIsDouble
  <2>2. record' # None /\ record'.answer \in Doubles
    <3>1. record \in Records /\ record' = [record EXCEPT !.answer = request[r]]
      BY <1>1, <1>5 DEF CommitSecond, Store
    <3>2. record' \in Records /\ record'.answer = request[r]
      BY <2>1, <3>1 DEF Records
    <3> QED
      BY <2>1, <3>2
  <2>3. \A q \in Requests :
           /\ pc'[q] = "idle" => request'[q] = None
           /\ pc'[q] \in {"idle", "unseen", "working", "outside"} => reply'[q] = None
    BY <1>1, <1>5 DEF CommitSecond, Finish
  <2> QED
    BY <2>1, <2>2, <2>3
<1>6. ASSUME NEW r \in Requests, DeleteRecord(r)
      PROVE  PromiseInv'
  BY <1>1, <1>6 DEF DeleteRecord, Deletable, InProgress
<1>7. ASSUME NEW r \in Requests,
             Insert(r) \/ InsertConflicts(r) \/ Fail(r) \/ FailOutside(r)
             \/ AnswerLost(r) \/ Crash(r)
      PROVE  PromiseInv'
  BY <1>1, <1>7
  DEF Insert, InsertConflicts, Fail, FailOutside, AnswerLost, Crash, Finish,
      AfterFailure
<1>8. CASE UNCHANGED vars
  BY <1>8 DEF vars
<1> QED
  BY <1>2, <1>3, <1>4, <1>5, <1>6, <1>7, <1>8 DEF Next, Continue

\* Looking the record up asks, and may replay or refuse; committing the answer,
\* in one transaction or in the second of two, executes; every failure gives
\* up; and what happens to the record in between does not show.
LEMMA PromiseStep ==
  ASSUME IInv, PromiseInv, [Next]_vars
  PROVE  [Promise!Next]_(Promise!vars)
<1> USE IdempotencyAssumption, KindsApart DEF Promise!Next, Promise!vars
<1>1. request \in [Requests -> Fingerprints \cup {None}]
  BY DEF IInv, TypeOK
<1>2. ASSUME NEW r \in Requests, NEW f \in Fingerprints, Resolve(r, f)
      PROVE  Promise!Ask(r, f)
  <2>1. request[r] = None /\ reply[r] = None
    BY <1>2 DEF Resolve, PromiseInv
  <2>2. PICK answer : /\ reply' = [reply EXCEPT ![r] = answer]
                      /\ \/ answer \in {None, Refused, Failed}
                         \/ /\ SameRequest(f) /\ StatusFits /\ BodyFits
                            /\ answer = record.answer
    <3>1. CASE record = None
      <4>1. reply' = [reply EXCEPT ![r] = None]
        BY <1>2, <2>1, <3>1 DEF Resolve, IInv, TypeOK
      <4> QED
        BY <4>1
    <3>2. CASE record # None
      BY <1>2, <3>2 DEF Resolve, Finish, Replay
    <3> QED
      BY <3>1, <3>2
  <2>3. answer \in {None, Refused, Failed} \cup Promise!Replayed(f)
    <3>1. CASE SameRequest(f) /\ StatusFits /\ BodyFits /\ answer = record.answer
      <4>1. answer = f \/ (answer \in Doubles /\ Kind[answer] = Kind[f])
        BY <3>1 DEF IInv, RecordedWasExecuted, StatusFits, BodyFits, SameRequest
      <4>2. \E q \in executed : request[q] = answer
        BY <3>1 DEF IInv, RecordedWasExecuted, StatusFits
      <4> QED
        BY <4>1, <4>2 DEF Promise!Replayed
    <3> QED
      BY <2>2, <3>1
  <2> QED
    BY <1>2, <2>1, <2>2, <2>3 DEF Promise!Ask, Resolve
<1>3. ASSUME NEW r \in Requests, CommitAnswer(r) \/ CommitSecond(r)
      PROVE  Promise!Execute(r)
  <2>1. pc[r] \in {"working", "outside"}
    BY <1>3 DEF CommitAnswer, CommitSecond
  <2>2. request[r] # None /\ reply[r] = None
    BY <2>1 DEF IInv, Served, PromiseInv
  <2>3. executed = {} \/ request[r] \in Doubles
    <3>1. CASE CommitAnswer(r)
      BY <3>1 DEF CommitAnswer, IInv, InsertionHeld, PromiseInv, Answered
    <3>2. CASE CommitSecond(r)
      BY <3>2 DEF CommitSecond, IInv, OutsideIsDouble
    <3> QED
      BY <1>3, <3>1, <3>2
  <2> QED
    BY <1>3, <2>2, <2>3 DEF Promise!Execute, CommitAnswer, CommitSecond, Finish
<1>4. ASSUME NEW r \in Requests,
             InsertConflicts(r) \/ Fail(r) \/ FailOutside(r) \/ AnswerLost(r)
      PROVE  Promise!GiveUp(r)
  <2>1. pc[r] \in {"unseen", "working", "outside"}
    BY <1>4 DEF InsertConflicts, Fail, FailOutside, AnswerLost
  <2>2. request[r] # None /\ reply[r] = None
    BY <2>1 DEF IInv, Served, PromiseInv
  <2> QED
    BY <1>4, <2>2
    DEF Promise!GiveUp, InsertConflicts, Fail, FailOutside, AnswerLost, Finish
<1>5. ASSUME NEW r \in Requests,
             Insert(r) \/ CommitFirst(r) \/ DeleteRecord(r) \/ Crash(r)
      PROVE  UNCHANGED <<request, reply, executed>>
  BY <1>5 DEF Insert, CommitFirst, DeleteRecord, Crash
<1>6. CASE UNCHANGED vars
  BY <1>6 DEF vars
<1> QED
  BY <1>2, <1>3, <1>4, <1>5, <1>6 DEF Next, Continue

(* However many requests carry the key, whatever they ask for, in whatever
   order records are inserted, deleted and overwritten and whoever dies, the
   clients see what KeyedCommand promises. *)
THEOREM KeyKeepsPromise == Spec => KeepsPromise
<1>1. Init => PromiseInv
  BY DEF Init, PromiseInv, Answered
<1>2. IInv /\ PromiseInv /\ [Next]_vars => PromiseInv'
  BY PromiseInvKept
<1>3. Init => Promise!Init
  BY DEF Init, Promise!Init
<1>4. IInv /\ PromiseInv /\ [Next]_vars => [Promise!Next]_(Promise!vars)
  BY PromiseStep
<1> QED
  BY <1>1, <1>2, <1>3, <1>4, Invariance, PTL DEF Spec, KeepsPromise, Promise!Spec

-----------------------------------------------------------------------------
(* Why every request is answered in the end (EventuallyAnswered, which is    *)
(* only model-checked): nobody waits for a request that is gone, and there   *)
(* is only so much that a request can do.                                    *)

\* The unique index makes a request wait for the insertion of another.
WaitedForIsAtWork ==
    inserting # None => inserting \in Requests /\ pc[inserting] = "working"

\* How far a request has come.
Stage == [idle |-> 0, unseen |-> 1, working |-> 2, outside |-> 3, deleting |-> 4,
          done |-> 5, dead |-> 5]

\* One request goes on, and none goes back or begins again.
OneGoesOn ==
    \E r \in Requests :
        /\ Stage[pc[r]] < Stage[pc'[r]]
        /\ \A q \in Requests \ {r} : pc'[q] = pc[q]

LEMMA StepGoesOn ==
  ASSUME IInv, Next
  PROVE  OneGoesOn
<1> USE IdempotencyAssumption, KindsApart DEF IInv, TypeOK, Stage
<1>1. ASSUME NEW r \in Requests, NEW point \in Steps,
             pc' = [pc EXCEPT ![r] = point], Stage[pc[r]] < Stage[point]
      PROVE  OneGoesOn
  BY <1>1 DEF OneGoesOn
<1>2. ASSUME NEW r \in Requests, NEW f \in Fingerprints, Resolve(r, f)
      PROVE  OneGoesOn
  <2>1. PICK point \in {"unseen", "done"} : pc' = [pc EXCEPT ![r] = point]
    BY <1>2 DEF Resolve, Finish
  <2>2. Stage[pc[r]] < Stage[point] /\ point \in Steps
    BY <1>2 DEF Resolve, Steps
  <2> QED
    BY <1>1, <2>1, <2>2
<1>3. ASSUME NEW r \in Requests, Continue(r) \/ Crash(r)
      PROVE  OneGoesOn
  <2>1. CASE Insert(r) \/ InsertConflicts(r)
    BY <1>1, <1>3, <2>1 DEF Insert, InsertConflicts, Finish, Steps
  <2>2. CASE CommitAnswer(r) \/ CommitFirst(r)
    BY <1>1, <1>3, <2>2 DEF CommitAnswer, CommitFirst, Finish, Steps
  <2>3. CASE Fail(r) \/ FailOutside(r)
    <3>1. PICK point \in {"deleting", "done"} : pc' = [pc EXCEPT ![r] = point]
      BY <2>3 DEF Fail, FailOutside, AfterFailure
    <3>2. Stage[pc[r]] < Stage[point] /\ point \in Steps
      BY <2>3 DEF Fail, FailOutside, Steps
    <3> QED
      BY <1>1, <3>1, <3>2
  <2>4. CASE CommitSecond(r) \/ AnswerLost(r) \/ DeleteRecord(r)
    BY <1>1, <1>3, <2>4 DEF CommitSecond, AnswerLost, DeleteRecord, Finish, Steps
  <2>5. CASE Crash(r)
    <3>1. pc' = [pc EXCEPT ![r] = "dead"]
      BY <2>5 DEF Crash
    <3>2. Stage[pc[r]] < Stage["dead"] /\ "dead" \in Steps
      BY <2>5 DEF Crash, Steps
    <3> QED
      BY <1>1, <3>1, <3>2
  <2> QED
    BY <1>3, <2>1, <2>2, <2>3, <2>4, <2>5 DEF Continue
<1> QED
  BY <1>2, <1>3 DEF Next

(* However requests fail and die, an insertion that others wait for belongs to
   a request that is at work, and waits for none itself; and each step of the
   service takes one request further towards its end. *)
THEOREM WaitsComeToAnEnd ==
    Spec => []WaitedForIsAtWork /\ [][OneGoesOn]_vars
<1>1. IInv => WaitedForIsAtWork
  BY IdempotencyAssumption DEF IInv, TypeOK, InsertionHeld, WaitedForIsAtWork
<1>2. IInv /\ [Next]_vars => [OneGoesOn]_vars
  BY StepGoesOn
<1> QED
  BY <1>1, <1>2, Invariance, PTL DEF Spec

-----------------------------------------------------------------------------
(* A record whose request died between its two transactions.                *)

\* The record has no answer, and no request is left that could store one or
\* delete it.
Abandoned ==
    InProgress /\ \A r \in Requests : pc[r] \in {"idle", "done", "dead"}

LEMMA AbandonedStep ==
  ASSUME IInv, [Next]_vars, Abandoned
  PROVE  /\ Abandoned' /\ record' = record
         /\ \A r \in Requests : pc'[r] # pc[r] => reply'[r] = Refused
<1> USE IdempotencyAssumption, KindsApart DEF IInv, TypeOK, Abandoned, InProgress
<1>1. ASSUME NEW r \in Requests, NEW f \in Fingerprints, Resolve(r, f)
      PROVE  /\ Abandoned' /\ record' = record
             /\ \A q \in Requests : pc'[q] # pc[q] => reply'[q] = Refused
  <2>1. /\ pc' = [pc EXCEPT ![r] = "done"]
        /\ reply' = [reply EXCEPT ![r] = Refused]
        /\ record' = record
    BY <1>1 DEF Resolve, Finish, Replay, StatusFits, Answered
  <2> QED
    BY <2>1
<1>2. ASSUME NEW r \in Requests PROVE ~Continue(r) /\ ~Crash(r)
  BY DEF Continue, Insert, InsertConflicts, CommitAnswer, CommitFirst, Fail,
         FailOutside, CommitSecond, AnswerLost, DeleteRecord, Crash
<1>3. CASE UNCHANGED vars
  BY <1>3 DEF vars
<1> QED
  BY <1>1, <1>2, <1>3 DEF Next

(* Nothing frees the key of a complete or an abort that died around its storage
   call (section 4 of the README): locked_until is never read, and every later
   request with the key, the same or another, is answered 409. *)
THEOREM AbandonedKeyStaysTaken ==
    Spec => [][Abandoned =>
                 /\ Abandoned' /\ record' = record
                 /\ \A r \in Requests : pc'[r] # pc[r] => reply'[r] = Refused]_vars
<1>1. IInv /\ [Next]_vars =>
        [Abandoned =>
            /\ Abandoned' /\ record' = record
            /\ \A r \in Requests : pc'[r] # pc[r] => reply'[r] = Refused]_vars
  BY AbandonedStep
<1> QED
  BY <1>1, Invariance, PTL DEF Spec

-----------------------------------------------------------------------------
(* A create's record whose answer has been overwritten.                     *)

\* The answer on record has the status 200; a create looks for 201.
SpoiledCreate ==
    Answered /\ record.fingerprint \in Creates /\ record.answer \notin Creates

LEMMA SpoiledStep ==
  ASSUME IInv, [Next]_vars, SpoiledCreate
  PROVE  /\ SpoiledCreate'
         /\ \A r \in Requests : pc[r] = "idle" /\ pc'[r] # "idle" => reply'[r] = Refused
<1> DEFINE Refuses ==
        \A r \in Requests : pc[r] = "idle" /\ pc'[r] # "idle" => reply'[r] = Refused
<1> USE IdempotencyAssumption, KindsApart DEF IInv, TypeOK, SpoiledCreate, Answered
<1>1. ASSUME NEW r \in Requests, NEW f \in Fingerprints, Resolve(r, f)
      PROVE  SpoiledCreate' /\ Refuses
  <2>1. /\ pc' = [pc EXCEPT ![r] = "done"]
        /\ reply' = [reply EXCEPT ![r] = Refused]
        /\ record' = record
    BY <1>1 DEF Resolve, Finish, Replay, StatusFits
  <2> QED
    BY <2>1
<1>2. ASSUME NEW r \in Requests, CommitSecond(r)
      PROVE  SpoiledCreate' /\ Refuses
  <2>1. request[r] \in Doubles /\ record' = [record EXCEPT !.answer = request[r]]
    BY <1>2 DEF CommitSecond, Store, OutsideIsDouble
  <2>2. /\ record'.answer = request[r] /\ record' \in Records
        /\ record'.fingerprint = record.fingerprint
    BY <2>1 DEF Records
  <2>3. Refuses
    BY <1>2 DEF CommitSecond, Finish
  <2> QED
    BY <2>1, <2>2, <2>3
<1>3. ASSUME NEW r \in Requests PROVE ~CommitAnswer(r) /\ ~CommitFirst(r)
  BY DEF InsertionHeld, CommitAnswer, CommitFirst
<1>4. ASSUME NEW r \in Requests,
             \/ Insert(r) \/ InsertConflicts(r) \/ Fail(r) \/ FailOutside(r)
             \/ AnswerLost(r) \/ DeleteRecord(r) \/ Crash(r)
      PROVE  SpoiledCreate' /\ Refuses
  <2>1. record' = record
    BY <1>4
    DEF Insert, InsertConflicts, Fail, FailOutside, AnswerLost, DeleteRecord,
        Deletable, InProgress, Crash
  <2>2. Refuses
    BY <1>4
    DEF Insert, InsertConflicts, Fail, FailOutside, AnswerLost, DeleteRecord,
        Crash, Finish
  <2> QED
    BY <2>1, <2>2
<1>5. CASE UNCHANGED vars
  BY <1>5 DEF vars
<1> QED
  BY <1>1, <1>2, <1>3, <1>4, <1>5 DEF Next, Continue

(* Once a complete or an abort has stored its answer in a create's record
   (section 4 of the README), the key is taken for good though nobody died: the
   create's own retries, and every other request with the key, are answered 409. *)
THEOREM SpoiledCreateStaysRefused ==
    Spec => [][SpoiledCreate =>
                 /\ SpoiledCreate'
                 /\ \A r \in Requests :
                        pc[r] = "idle" /\ pc'[r] # "idle" => reply'[r] = Refused]_vars
<1>1. IInv /\ [Next]_vars =>
        [SpoiledCreate =>
            /\ SpoiledCreate'
            /\ \A r \in Requests :
                   pc[r] = "idle" /\ pc'[r] # "idle" => reply'[r] = Refused]_vars
  BY SpoiledStep
<1> QED
  BY <1>1, Invariance, PTL DEF Spec

=============================================================================
