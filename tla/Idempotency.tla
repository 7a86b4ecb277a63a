------------------------------ MODULE Idempotency ------------------------------
(***************************************************************************)
(* Idempotency keys (upload_sessions/idempotency.py, upload_tasks/           *)
(* idempotency.py) under concurrent requests that carry the same key.       *)
(* Keys are independent of each other, so there is one.                     *)
(*                                                                          *)
(* A request looks the key's record up, inserts one if there is none, runs  *)
(* its command and stores the answer.  Creating a task, pausing and         *)
(* resuming do all of it in one transaction.  Completing and aborting       *)
(* commit the record without an answer, call storage, and store the answer  *)
(* in a second transaction.  A failed request rolls back and, unless it was *)
(* a create, deletes whatever unanswered record the key has.                *)
(*                                                                          *)
(* PostgreSQL's READ COMMITTED: an insertion is unseen until it commits,     *)
(* and another insertion of the key waits until then.                       *)
(***************************************************************************)
EXTENDS FiniteSets

CONSTANTS
    Requests,       \* HTTP requests with the key, each served once
    Fingerprints,   \* what they ask for: method, path, tenant and body
    Kind,           \* the command a fingerprint's path stands for
    Crashing,       \* requests whose process may die
    None            \* nothing

Refused == "REFUSED"    \* 409, before the command has run
Failed == "FAILED"      \* any other error

Kinds == {"create", "pause", "resume", "complete", "abort"}

\* create_upload_task, whose answer has the status 201; all others have 200
Creates == {f \in Fingerprints : Kind[f] = "create"}

\* The commands of two transactions
Doubles == {f \in Fingerprints : Kind[f] \in {"complete", "abort"}}

\* An answer is the fingerprint of the command it answers.
Records == [fingerprint : Fingerprints,
            answer : Fingerprints \cup {None},
            owner : Requests]

ASSUME IdempotencyAssumption ==
    /\ Kind \in [Fingerprints -> Kinds]
    /\ Crashing \subseteq Requests
    /\ None \notin Requests \cup Fingerprints \cup Records \cup {Refused, Failed}
    /\ {Refused, Failed} \cap Fingerprints = {}

VARIABLES
    record,      \* the key's committed record, or None
    inserting,   \* the request whose insertion is not committed yet, or None
    pc,          \* where each request is
    request,     \* the fingerprint of each request served
    reply,       \* the answer each request will give or has given
    executed     \* requests that ran their command to its last commit

vars == <<record, inserting, pc, request, reply, executed>>

-----------------------------------------------------------------------------
Steps == {"idle", "unseen", "working", "outside", "deleting", "done", "dead"}

Answered == record # None /\ record.answer # None
InProgress == record # None /\ record.answer = None

\* The answer has the status that the record's own requests look for.
StatusFits == Answered /\ (record.answer \in Creates <=> record.fingerprint \in Creates)

\* The answer has the body that their result_loader reads.
BodyFits == Kind[record.answer] = Kind[record.fingerprint]

\* Mutant: a record found by its key is replayed to whatever is asked for.
MutantSameRequest(f) == TRUE

SameRequest(f) == record.fingerprint = f

\* Mutant: the table has no UNIQUE (tenant_id, key).
MutantVacant == TRUE

Vacant == record = None

\* Mutant: a failing complete or abort leaves its record behind.
MutantAfterFailure(r) ==
    IF request[r] \in Creates \cup Doubles THEN "done" ELSE "deleting"

\* create_upload_task leaves the rollback to the end of its session.
AfterFailure(r) == IF request[r] \in Creates THEN "done" ELSE "deleting"

Finish(r, answer) ==
    /\ pc' = [pc EXCEPT ![r] = "done"]
    /\ reply' = [reply EXCEPT ![r] = answer]

-----------------------------------------------------------------------------
Init ==
    /\ record = None
    /\ inserting = None
    /\ pc = [r \in Requests |-> "idle"]
    /\ request = [r \in Requests |-> None]
    /\ reply = [r \in Requests |-> None]
    /\ executed = {}

\* What a request for f is told about a record that is there: 409 if it is of
\* another request, or without an answer of the right status; the answer; or a
\* KeyError out of the loader, if it is the answer of a command of another kind.
Replay(f) ==
    IF ~(SameRequest(f) /\ StatusFits) THEN Refused
    ELSE IF BodyFits THEN record.answer ELSE Failed

\* The key's record, SELECTed FOR UPDATE.
Resolve(r, f) ==
    /\ pc[r] = "idle"
    /\ request' = [request EXCEPT ![r] = f]
    /\ \/ /\ record = None
          /\ pc' = [pc EXCEPT ![r] = "unseen"]
          /\ reply' = reply
       \/ /\ record # None
          /\ Finish(r, Replay(f))
    /\ UNCHANGED <<record, inserting, executed>>

\* The INSERT waits for one that is not committed.
Insert(r) ==
    /\ pc[r] = "unseen"
    /\ inserting = None
    /\ Vacant
    /\ inserting' = r
    /\ pc' = [pc EXCEPT ![r] = "working"]
    /\ UNCHANGED <<record, request, reply, executed>>

\* The unique constraint; the error is no ApiError and nothing handles it.
InsertConflicts(r) ==
    /\ pc[r] = "unseen"
    /\ inserting = None
    /\ ~Vacant
    /\ Finish(r, Failed)
    /\ UNCHANGED <<record, inserting, request, executed>>

\* Command, record and answer in one transaction.  Complete and abort end
\* here too when the session already is what they ask for.
CommitAnswer(r) ==
    /\ pc[r] = "working"
    /\ record' = [fingerprint |-> request[r], answer |-> request[r], owner |-> r]
    /\ inserting' = None
    /\ Finish(r, request[r])
    /\ executed' = executed \cup {r}
    /\ UNCHANGED request

\* Mutants: the answer is stored before storage is called, or an empty body is.
MutantFirstAnswer(f) == f
MutantFirstBody(f) == "EMPTY"

FirstAnswer(f) == None

\* COMPLETING or ABORTING and the record are committed, storage is called.
CommitFirst(r) ==
    /\ pc[r] = "working"
    /\ request[r] \in Doubles
    /\ record' = [fingerprint |-> request[r],
                  answer |-> FirstAnswer(request[r]), owner |-> r]
    /\ inserting' = None
    /\ pc' = [pc EXCEPT ![r] = "outside"]
    /\ UNCHANGED <<request, reply, executed>>

\* Mutant: the rollback of a create does not reach the insertion.
MutantRolledBack(r) == IF request[r] \in Creates THEN r ELSE None

RolledBack(r) == None

\* An error inside the first transaction, which is rolled back
Fail(r) ==
    /\ pc[r] = "working"
    /\ inserting' = RolledBack(r)
    /\ pc' = [pc EXCEPT ![r] = AfterFailure(r)]
    /\ reply' = [reply EXCEPT ![r] = Failed]
    /\ UNCHANGED <<record, request, executed>>

\* Storage fails, parts are missing, or the second transaction is refused.
FailOutside(r) ==
    /\ pc[r] = "outside"
    /\ pc' = [pc EXCEPT ![r] = AfterFailure(r)]
    /\ reply' = [reply EXCEPT ![r] = Failed]
    /\ UNCHANGED <<record, inserting, request, executed>>

\* store_idempotency_response looks the record up by its key again.
Store(r) == [record EXCEPT !.answer = request[r]]

CommitSecond(r) ==
    /\ pc[r] = "outside"
    /\ record # None
    /\ record' = Store(r)
    /\ Finish(r, request[r])
    /\ executed' = executed \cup {r}
    /\ UNCHANGED <<inserting, request>>

\* .one() finds no record: the second transaction is rolled back.
AnswerLost(r) ==
    /\ pc[r] = "outside"
    /\ record = None
    /\ Finish(r, Failed)
    /\ UNCHANGED <<record, inserting, request, executed>>

\* Mutant: answered records are deleted too.
MutantDeletable == record # None

Deletable == InProgress

\* rollback_idempotency_on_failure's second half, a transaction of its own
DeleteRecord(r) ==
    /\ pc[r] = "deleting"
    /\ record' = IF Deletable THEN None ELSE record
    /\ pc' = [pc EXCEPT ![r] = "done"]
    /\ UNCHANGED <<inserting, request, reply, executed>>

\* The process dies and PostgreSQL rolls its open transaction back.
Crash(r) ==
    /\ r \in Crashing
    /\ pc[r] \in {"unseen", "working", "outside", "deleting"}
    /\ pc' = [pc EXCEPT ![r] = "dead"]
    /\ inserting' = IF inserting = r THEN None ELSE inserting
    /\ UNCHANGED <<record, request, reply, executed>>

-----------------------------------------------------------------------------
Continue(r) ==
    \/ Insert(r) \/ InsertConflicts(r)
    \/ CommitAnswer(r) \/ CommitFirst(r) \/ Fail(r)
    \/ FailOutside(r) \/ CommitSecond(r) \/ AnswerLost(r)
    \/ DeleteRecord(r)

Next ==
    \/ \E r \in Requests, f \in Fingerprints : Resolve(r, f)
    \/ \E r \in Requests : Continue(r) \/ Crash(r)

Spec == Init /\ [][Next]_vars

\* A request that is being served runs on; nobody has to send one.
FairSpec == Spec /\ \A r \in Requests : WF_vars(Continue(r))

-----------------------------------------------------------------------------
(* The record, the open insertion and the requests are of the right types. *)
TypeOK ==
    /\ record \in Records \cup {None}
    /\ inserting \in Requests \cup {None}
    /\ pc \in [Requests -> Steps]
    /\ request \in [Requests -> Fingerprints \cup {None}]
    /\ reply \in [Requests -> Fingerprints \cup {None, Refused, Failed}]
    /\ executed \subseteq Requests

(* A key whose own requests get no answer from its record is explained: either
   a request is still going to store the answer or to delete the record, or its
   process has died; or a complete or an abort that was sent with the same key,
   for something else, has been carried out and has stored its answer there. *)
UnusableIsExplained ==
    /\ InProgress => pc[record.owner] \in {"outside", "deleting", "dead"}
    /\ Answered /\ ~(StatusFits /\ BodyFits) =>
           /\ record.answer \in Doubles \ {record.fingerprint}
           /\ \E q \in executed : request[q] = record.answer

(* A command that runs in one transaction is executed at most once under a
   key, however many requests are sent, fail, die or delete records. *)
ExecutedOnce ==
    \A q, r \in executed :
        request[q] = request[r] /\ request[r] \notin Doubles => q = r

(* What a request is answered, by its own run or by a replay, is the answer of
   a command that was carried through. *)
AnswersWereExecuted ==
    \A r \in Requests :
        reply[r] \in Fingerprints =>
            \E q \in executed : request[q] = reply[r]

(* Seen by the clients that send it, the key keeps the promise of KeyedCommand:
   one answer to each request, one execution of a command in one transaction
   and nothing else with it, and no answer but that of an execution of the same
   command or, for complete and abort, of one of the same kind. *)
Promise == INSTANCE KeyedCommand WITH
    Commands <- Fingerprints,
    Repeatable <- Doubles,
    asked <- request

KeepsPromise == Promise!Spec

(* An answered record is never deleted and stays the record of the same request.
   Its answer stays too, unless a complete or an abort for something else, whose
   own record a failing request deleted, stores its answer under the key. *)
AnswerStays ==
    [][Answered =>
          /\ Answered' /\ record'.fingerprint = record.fingerprint
          /\ record.answer = record.fingerprint /\ record'.answer # record.answer =>
                 \E q \in executed' \ executed :
                     request[q] \in Doubles \ {record.fingerprint}]_vars

(* Requests that wait for another's insertion are let on: every request that
   is served is answered, or its process dies. *)
EventuallyAnswered ==
    \A r \in Requests : pc[r] # "idle" ~> pc[r] \in {"done", "dead"}

(* 10-retry-resume-completion-lifecycle.md, 18.1: while a request is being
   processed, another with its key is answered 409 and does not run. *)
OneRunsAtATime ==
    \A q, r \in Requests :
        {pc[q], pc[r]} \subseteq {"working", "outside"} => q = r

=============================================================================
