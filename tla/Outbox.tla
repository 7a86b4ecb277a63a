-------------------------------- MODULE Outbox --------------------------------
(***************************************************************************)
(* The transactional outbox (application/outbox.py).  Event rows are         *)
(* appended with the domain change they tell of; dispatchers, one per       *)
(* worker process, claim the due rows in one transaction, then call the     *)
(* sink and record what came of it in one transaction per row.  Several     *)
(* dispatchers may run, and one may die between any two of these steps.     *)
(*                                                                          *)
(* A clock is not kept: a row has the time it must still wait, and a pass    *)
(* the time since it read the clock.  Which of more due rows than fit a      *)
(* batch is taken (the code's ORDER BY) is left open.                       *)
(***************************************************************************)
EXTENDS Integers, FiniteSets

CONSTANTS
    Events,        \* outbox rows, by id
    Dispatchers,   \* processes that run passes of OutboxDispatcher
    Crashing,      \* the dispatchers that may die (and are started again)
    BatchSize,     \* outbox_batch_size
    MaxAttempts,   \* outbox_max_attempts
    MaxDelay,      \* the longest retry delay, 300 s
    None           \* no event

ASSUME OutboxAssumption ==
    /\ Crashing \subseteq Dispatchers
    /\ {BatchSize, MaxAttempts, MaxDelay} \subseteq Nat \ {0}
    /\ None \notin Events

VARIABLES
    status, attempts, wait,     \* of each row of outbox_events
    left, at, raised, age,      \* per pass: rows to send, row sent, clock
    calls, accepted,            \* per event: calls of the sink, taken ones
    lost                        \* events a dispatcher held when it died

rows == <<status, attempts, wait>>
passes == <<left, at, raised, age>>
sink == <<calls, accepted>>
vars == <<rows, passes, sink, lost>>

-----------------------------------------------------------------------------
OutboxStatus == {"PENDING", "PROCESSING", "DELIVERED", "FAILED", "DEAD_LETTERED"}
Absent == "ABSENT"

\* Mutant: rows another dispatcher is working on are claimed again.
MutantPendingStatuses == {"PENDING", "FAILED", "PROCESSING"}

PendingStatuses == {"PENDING", "FAILED"}

\* _retry_delay: 1 s, 2 s, 4 s, ... and never more than MaxDelay
RetryDelay(n) == IF 2 ^ (n - 1) \in 1 .. MaxDelay THEN 2 ^ (n - 1) ELSE MaxDelay

\* next_attempt_at is the delay after the clock the pass read at its start.
StillToWait(n, elapsed) ==
    IF RetryDelay(n) > elapsed THEN RetryDelay(n) - elapsed ELSE 0

Due == {e \in Events : status[e] \in PendingStatuses /\ wait[e] = 0}

Idle(d) == left[d] = {} /\ at[d] = None

-----------------------------------------------------------------------------
Init ==
    /\ status = [e \in Events |-> Absent]
    /\ attempts = [e \in Events |-> 0]
    /\ wait = [e \in Events |-> 0]
    /\ left = [d \in Dispatchers |-> {}]
    /\ at = [d \in Dispatchers |-> None]
    /\ raised = [d \in Dispatchers |-> FALSE]
    /\ age = [d \in Dispatchers |-> 0]
    /\ calls = [e \in Events |-> 0]
    /\ accepted = [e \in Events |-> 0]
    /\ lost = {}

\* append_outbox_event, committed with the caller's transaction
Append(e) ==
    /\ status[e] = Absent
    /\ status' = [status EXCEPT ![e] = "PENDING"]
    /\ UNCHANGED <<attempts, wait, passes, sink, lost>>

\* _claim_due_events; SKIP LOCKED keeps two claims at once apart.  A pass that
\* finds no row due changes nothing.
ClaimDue(d) ==
    /\ Idle(d)
    /\ \E batch \in SUBSET Due \ {{}} :
          /\ \/ batch = Due /\ Cardinality(batch) <= BatchSize
             \/ Cardinality(batch) = BatchSize
          /\ status' = [e \in Events |-> IF e \in batch THEN "PROCESSING" ELSE status[e]]
          /\ left' = [left EXCEPT ![d] = batch]
    /\ UNCHANGED <<attempts, wait, at, raised, age, sink, lost>>

\* sink.deliver is called; it returns or raises.
Deliver(d, e) ==
    /\ at[d] = None
    /\ e \in left[d]
    /\ status[e] = "PROCESSING"
    /\ left' = [left EXCEPT ![d] = @ \ {e}]
    /\ at' = [at EXCEPT ![d] = e]
    /\ calls' = [calls EXCEPT ![e] = @ + 1]
    /\ \/ /\ raised' = [raised EXCEPT ![d] = TRUE]
          /\ UNCHANGED accepted
       \/ /\ raised' = [raised EXCEPT ![d] = FALSE]
          /\ accepted' = [accepted EXCEPT ![e] = @ + 1]
    /\ UNCHANGED <<rows, age, lost>>

\* The pass has no row at the sink any more; when it is over, it has no age.
Forget(d, remaining) ==
    /\ at' = [at EXCEPT ![d] = None]
    /\ raised' = [raised EXCEPT ![d] = FALSE]
    /\ age' = [age EXCEPT ![d] = IF remaining = {} THEN 0 ELSE @]

\* The commit for the row that was sent; the pass goes on to its next row.
Record(d, e, outcome, delay) ==
    /\ status' = [status EXCEPT ![e] = outcome]
    /\ attempts' = [attempts EXCEPT ![e] = @ + 1]
    /\ wait' = [wait EXCEPT ![e] = delay]
    /\ Forget(d, left[d])
    /\ UNCHANGED <<left, sink, lost>>

\* Mutant: the attempt that delivered is not counted.
MutantMarkDelivered(d, e) ==
    /\ at[d] = e
    /\ ~raised[d]
    /\ status' = [status EXCEPT ![e] = "DELIVERED"]
    /\ Forget(d, left[d])
    /\ UNCHANGED <<attempts, wait, left, sink, lost>>

\* dispatch_due, the sink returned
MarkDelivered(d, e) ==
    /\ at[d] = e
    /\ ~raised[d]
    /\ Record(d, e, "DELIVERED", 0)

\* Mutant: one attempt too many before the dead letter.
MutantExhausted(n) == n > MaxAttempts

Exhausted(n) == n >= MaxAttempts

\* Mutant: a failed row is left PROCESSING instead of FAILED.
MutantMarkFailed(d, e) ==
    /\ at[d] = e
    /\ raised[d]
    /\ \/ /\ Exhausted(attempts[e] + 1)
          /\ Record(d, e, "DEAD_LETTERED", 0)
       \/ /\ ~Exhausted(attempts[e] + 1)
          /\ Record(d, e, "PROCESSING", 0)

\* _mark_failed_or_dead_lettered, the sink raised
MarkFailed(d, e) ==
    /\ at[d] = e
    /\ raised[d]
    /\ \/ /\ Exhausted(attempts[e] + 1)
          /\ Record(d, e, "DEAD_LETTERED", 0)
       \/ /\ ~Exhausted(attempts[e] + 1)
          /\ Record(d, e, "FAILED", StillToWait(attempts[e] + 1, age[d]))

\* The process dies, or a commit raises and ends it; what its open transaction
\* wrote is lost, what it committed is not.
Crash(d) ==
    /\ d \in Crashing
    /\ ~Idle(d)
    /\ lost' = lost \cup {e \in Events : e \in left[d] \/ at[d] = e}
    /\ left' = [left EXCEPT ![d] = {}]
    /\ Forget(d, {})
    /\ UNCHANGED <<rows, sink>>

\* A second passes.
Tick ==
    /\ wait' = [e \in Events |-> IF wait[e] > 0 THEN wait[e] - 1 ELSE 0]
    /\ age' = [d \in Dispatchers |->
                   IF ~Idle(d) /\ age[d] < MaxDelay THEN age[d] + 1 ELSE age[d]]
    /\ UNCHANGED <<status, attempts, left, at, raised, sink, lost>>

DispatchDue(d) ==
    \/ ClaimDue(d)
    \/ \E e \in Events : Deliver(d, e) \/ MarkDelivered(d, e) \/ MarkFailed(d, e)

Next ==
    \/ Tick
    \/ \E e \in Events : Append(e)
    \/ \E d \in Dispatchers : DispatchDue(d) \/ Crash(d)

Spec == Init /\ [][Next]_vars

\* The worker's loop goes on passing and its sink answers; time passes.
FairSpec ==
    /\ Spec
    /\ \A d \in Dispatchers : WF_vars(DispatchDue(d))
    /\ WF_vars(Tick)

-----------------------------------------------------------------------------
Holders(e) == {d \in Dispatchers : e \in left[d] \/ at[d] = e}

\* Rows and passes are well typed; no row is tried more often than allowed.
TypeOK ==
    /\ status \in [Events -> OutboxStatus \cup {Absent}]
    /\ attempts \in [Events -> 0 .. MaxAttempts]
    /\ wait \in [Events -> 0 .. MaxDelay]
    /\ left \in [Dispatchers -> SUBSET Events]
    /\ at \in [Dispatchers -> Events \cup {None}]
    /\ raised \in [Dispatchers -> BOOLEAN]
    /\ age \in [Dispatchers -> 0 .. MaxDelay]
    /\ calls \in [Events -> Nat]
    /\ accepted \in [Events -> Nat]
    /\ lost \subseteq Events

\* No two dispatchers have the same row in hand, and what one has in hand is
\* still PROCESSING when it gets to it, however long its pass takes: no other
\* pass delivers the row or records an outcome for it meanwhile.  A row is
\* PROCESSING and in nobody's hand only if the one that held it died.
HeldByOne ==
    /\ \A d1, d2 \in Dispatchers, e \in Events :
          {d1, d2} \subseteq Holders(e) => d1 = d2
    /\ \A e \in Events : Holders(e) # {} => status[e] = "PROCESSING"
    /\ \A e \in Events : status[e] = "PROCESSING" => Holders(e) # {} \/ e \in lost

\* An event is never handed to the sink again after the sink has taken it
\* without raising, nor more often than MaxAttempts, whoever dies on the way.
SentWithinBounds == \A e \in Events : accepted[e] <= 1 /\ calls[e] <= MaxAttempts

\* What a row says of its delivery is true: DELIVERED rows were taken by the
\* sink, all others that nobody is working on were not, every call is counted,
\* and a dead letter had all its attempts.
OutcomeIsTrue ==
    \A e \in Events :
        /\ status[e] = "DELIVERED" => accepted[e] = 1
        /\ status[e] \in {Absent, "PENDING", "FAILED", "DEAD_LETTERED"}
              => accepted[e] = 0
        /\ status[e] # "PROCESSING" => attempts[e] = calls[e]
        /\ status[e] = "DEAD_LETTERED" => calls[e] = MaxAttempts

\* The outbox keeps the promise of EventDelivery: a row's outcome is decided
\* once and is final, and nothing is sent before its row is committed, after
\* the sink has taken it or after its verdict.
Delivery == INSTANCE EventDelivery WITH
    published <- {e \in Events : status[e] # Absent},
    verdict <- [e \in Events |->
                   IF status[e] \in {"DELIVERED", "DEAD_LETTERED"}
                   THEN status[e] ELSE "none"]

KeepsDelivery == Delivery!Spec

\* Unless the dispatcher that claimed it dies, an appended event is delivered
\* or becomes a dead letter, whatever the sink does.
EventuallySettled ==
    \A e \in Events :
        (status[e] # Absent)
            ~> (status[e] \in {"DELIVERED", "DEAD_LETTERED"} \/ e \in lost)

=============================================================================
