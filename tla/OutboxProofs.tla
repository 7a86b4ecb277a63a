----------------------------- MODULE OutboxProofs -----------------------------
(***************************************************************************)
(* Proofs about Outbox for any number of events and dispatchers, any batch  *)
(* size, any bound on attempts and any set of dispatchers that may die.     *)
(***************************************************************************)
EXTENDS Outbox, TLAPS

\* What a row says of its calls: all of them are counted, but for the last one
\* of a row that is PROCESSING.
RowCounts(e) ==
    /\ status[e] \in {Absent, "PENDING", "FAILED"}
          => calls[e] = attempts[e] /\ attempts[e] < MaxAttempts /\ accepted[e] = 0
    /\ status[e] = "DELIVERED" => calls[e] = attempts[e] /\ accepted[e] = 1
    /\ status[e] = "DEAD_LETTERED"
          => calls[e] = attempts[e] /\ attempts[e] = MaxAttempts /\ accepted[e] = 0
    /\ status[e] = "PROCESSING"
          => calls[e] <= attempts[e] + 1 /\ attempts[e] < MaxAttempts /\ accepted[e] <= 1

\* A claimed row the pass has yet to send, and the one it has sent: the row is
\* a call behind only until the outcome of that call is recorded.
HoldCounts(d, e) ==
    /\ e \in left[d] =>
          /\ status[e] = "PROCESSING"
          /\ at[d] # e
          /\ e \notin lost
          /\ calls[e] = attempts[e]
          /\ accepted[e] = 0
    /\ at[d] = e =>
          /\ status[e] = "PROCESSING"
          /\ e \notin lost
          /\ calls[e] = attempts[e] + 1
          /\ accepted[e] = IF raised[d] THEN 0 ELSE 1

Holds(d, e) == e \in left[d] \/ at[d] = e

Apart ==
    \A d1, d2 \in Dispatchers, e \in Events :
        Holds(d1, e) /\ Holds(d2, e) => d1 = d2

Attended ==
    \A e \in Events :
        status[e] = "PROCESSING" => e \in lost \/ \E d \in Dispatchers : Holds(d, e)

IInv ==
    /\ TypeOK
    /\ \A e \in Events : RowCounts(e)
    /\ \A d \in Dispatchers, e \in Events : HoldCounts(d, e)
    /\ Apart
    /\ Attended
    /\ \A e \in lost : status[e] = "PROCESSING"

\* What is left to wait after a pass of some age is a delay in range.
LEMMA Waits ==
    ASSUME NEW n, NEW elapsed \in 0 .. MaxDelay
    PROVE  StillToWait(n, elapsed) \in 0 .. MaxDelay
<1>1. MaxDelay \in Nat \ {0}
  BY OutboxAssumption
<1>2. RetryDelay(n) \in 1 .. MaxDelay
  BY <1>1 DEF RetryDelay
<1> QED
  BY <1>1, <1>2 DEF StillToWait

\* A row whose outcome is recorded, and the pass that records it, stay typed.
LEMMA RecordTypes ==
    ASSUME TypeOK, NEW d \in Dispatchers, NEW e \in Events,
           attempts[e] < MaxAttempts,
           NEW outcome \in OutboxStatus, NEW delay \in 0 .. MaxDelay,
           Record(d, e, outcome, delay)
    PROVE  TypeOK'
<1>1. MaxDelay \in Nat /\ MaxAttempts \in Nat
  BY OutboxAssumption
<1> QED
  BY <1>1 DEF TypeOK, Record, Forget, passes, rows, sink

LEMMA InitHolds == Init => IInv
  BY OutboxAssumption DEF Init, IInv, TypeOK, Absent, RowCounts, HoldCounts,
     Apart, Attended, Holds, OutboxStatus

-----------------------------------------------------------------------------
\* Each step in turn keeps IInv.

LEMMA TickStep == IInv /\ Tick => IInv'
  BY OutboxAssumption DEF IInv, TypeOK, Tick, RowCounts, HoldCounts, Apart,
     Attended, Holds, Idle, sink

LEMMA AppendStep == ASSUME NEW e \in Events, IInv, Append(e) PROVE IInv'
  BY OutboxAssumption DEF IInv, TypeOK, Append, RowCounts, HoldCounts, Apart,
     Attended, Holds, OutboxStatus, Absent, passes, sink

LEMMA ClaimStep == ASSUME NEW d \in Dispatchers, IInv, ClaimDue(d) PROVE IInv'
<1>1. PICK batch \in SUBSET Due :
          /\ status' = [e \in Events |-> IF e \in batch THEN "PROCESSING" ELSE status[e]]
          /\ left' = [left EXCEPT ![d] = batch]
  BY DEF ClaimDue
<1>2. \A e \in batch : e \in Events /\ status[e] \in {"PENDING", "FAILED"}
  BY DEF Due, PendingStatuses
<1>3. Idle(d) /\ UNCHANGED <<attempts, wait, at, raised, age, calls, accepted, lost>>
  BY DEF ClaimDue, sink
<1>4. TypeOK'
  BY <1>1, <1>2, <1>3 DEF IInv, TypeOK, OutboxStatus
<1>5. \A e \in Events : RowCounts(e)'
  BY <1>1, <1>2, <1>3 DEF IInv, TypeOK, RowCounts, Absent
<1>6. \A c \in Dispatchers, e \in Events : HoldCounts(c, e)'
  BY <1>1, <1>2, <1>3, OutboxAssumption
     DEF IInv, TypeOK, HoldCounts, RowCounts, Idle
<1>7. Apart'
  BY <1>1, <1>2, <1>3, OutboxAssumption
     DEF IInv, TypeOK, Apart, Holds, HoldCounts, Idle
<1>8. Attended'
  BY <1>1, <1>2, <1>3 DEF IInv, TypeOK, Attended, Holds, Idle
<1>9. (\A e \in lost : status[e] = "PROCESSING")'
  BY <1>1, <1>3 DEF IInv, TypeOK
<1> QED
  BY <1>4, <1>5, <1>6, <1>7, <1>8, <1>9 DEF IInv

LEMMA DeliverStep ==
    ASSUME NEW d \in Dispatchers, NEW e \in Events, IInv, Deliver(d, e)
    PROVE  IInv'
<1>1. TypeOK'
  <2>1. calls' \in [Events -> Nat] /\ accepted' \in [Events -> Nat]
    BY DEF IInv, TypeOK, Deliver
  <2>2. raised' \in [Dispatchers -> BOOLEAN]
    BY DEF IInv, TypeOK, Deliver
  <2>3. left' \in [Dispatchers -> SUBSET Events] /\ at' \in [Dispatchers -> Events \cup {None}]
    BY DEF IInv, TypeOK, Deliver
  <2> QED
    BY <2>1, <2>2, <2>3 DEF IInv, TypeOK, Deliver, rows
<1>2. \A f \in Events : RowCounts(f)'
  BY OutboxAssumption DEF IInv, TypeOK, Deliver, rows, RowCounts, HoldCounts, Absent
<1>3. ASSUME NEW c \in Dispatchers, NEW f \in Events PROVE HoldCounts(c, f)'
  BY OutboxAssumption
     DEF IInv, TypeOK, Deliver, rows, HoldCounts, Apart, Holds
<1>4. Apart'
  BY OutboxAssumption DEF IInv, TypeOK, Deliver, Apart, Holds
<1>5. Attended'
  BY OutboxAssumption DEF IInv, TypeOK, Deliver, rows, Attended, Holds
<1>6. (\A f \in lost : status[f] = "PROCESSING")'
  BY DEF IInv, Deliver, rows
<1> QED
  BY <1>1, <1>2, <1>3, <1>4, <1>5, <1>6 DEF IInv

\* Recording the outcome of a call that raised or returned, truthfully.
LEMMA RecordStep ==
    ASSUME NEW d \in Dispatchers, NEW e \in Events, IInv, at[d] = e,
           NEW outcome, NEW delay \in 0 .. MaxDelay,
           \/ outcome = "DELIVERED" /\ ~raised[d]
           \/ outcome = "DEAD_LETTERED" /\ raised[d] /\ attempts[e] + 1 >= MaxAttempts
           \/ outcome = "FAILED" /\ raised[d] /\ attempts[e] + 1 < MaxAttempts,
           Record(d, e, outcome, delay)
    PROVE  IInv'
<1>1. /\ status[e] = "PROCESSING" /\ e \notin lost
      /\ calls[e] = attempts[e] + 1
      /\ accepted[e] = IF raised[d] THEN 0 ELSE 1
      /\ attempts[e] < MaxAttempts
  BY DEF IInv, HoldCounts, RowCounts
<1>2. TypeOK'
  <2>1. outcome \in OutboxStatus
    BY DEF OutboxStatus
  <2> QED
    BY <1>1, <2>1, RecordTypes DEF IInv
<1>3. \A f \in Events : RowCounts(f)'
  BY <1>1, OutboxAssumption DEF IInv, TypeOK, Record, sink, RowCounts, Absent
<1>4. ASSUME NEW c \in Dispatchers, NEW f \in Events PROVE HoldCounts(c, f)'
  BY <1>1, OutboxAssumption
     DEF IInv, TypeOK, Record, Forget, sink, HoldCounts, Apart, Holds
<1>5. Apart'
  BY OutboxAssumption DEF IInv, TypeOK, Record, Forget, Apart, Holds
<1>6. Attended'
  BY OutboxAssumption DEF IInv, TypeOK, Record, Forget, Attended, Holds
<1>7. (\A f \in lost : status[f] = "PROCESSING")'
  BY <1>1 DEF IInv, TypeOK, Record
<1> QED
  BY <1>2, <1>3, <1>4, <1>5, <1>6, <1>7 DEF IInv

LEMMA MarkStep ==
    ASSUME NEW d \in Dispatchers, NEW e \in Events, IInv,
           MarkDelivered(d, e) \/ MarkFailed(d, e)
    PROVE  IInv'
<1>1. MaxDelay \in Nat \ {0} /\ MaxAttempts \in Nat \ {0} /\ attempts[e] \in 0 .. MaxAttempts
  BY OutboxAssumption DEF IInv, TypeOK
<1>2. 0 \in 0 .. MaxDelay
  BY <1>1
<1>3. StillToWait(attempts[e] + 1, age[d]) \in 0 .. MaxDelay
  BY Waits DEF IInv, TypeOK
<1>4. CASE MarkDelivered(d, e)
  BY <1>2, <1>4, RecordStep DEF MarkDelivered
<1>5. CASE MarkFailed(d, e)
  <2>1. CASE Exhausted(attempts[e] + 1) /\ Record(d, e, "DEAD_LETTERED", 0)
    BY <1>1, <1>2, <1>5, <2>1, RecordStep DEF MarkFailed, Exhausted
  <2>2. CASE /\ ~Exhausted(attempts[e] + 1)
             /\ Record(d, e, "FAILED", StillToWait(attempts[e] + 1, age[d]))
    <3>1. attempts[e] + 1 < MaxAttempts
      BY <1>1, <2>2 DEF Exhausted
    <3> QED
      BY <1>3, <1>5, <2>2, <3>1, RecordStep DEF MarkFailed
  <2> QED
    BY <1>5, <2>1, <2>2 DEF MarkFailed
<1> QED
  BY <1>4, <1>5

LEMMA CrashStep == ASSUME NEW d \in Dispatchers, IInv, Crash(d) PROVE IInv'
<1>1. TypeOK'
  BY OutboxAssumption DEF IInv, TypeOK, Crash, Forget, rows, sink
<1>2. \A e \in Events : RowCounts(e)'
  BY DEF IInv, Crash, rows, sink, RowCounts
<1>3. ASSUME NEW c \in Dispatchers, NEW e \in Events PROVE HoldCounts(c, e)'
  BY OutboxAssumption
     DEF IInv, TypeOK, Crash, Forget, rows, sink, HoldCounts, Apart, Holds
<1>4. Apart'
  BY OutboxAssumption DEF IInv, TypeOK, Crash, Forget, Apart, Holds
<1>5. Attended'
  BY OutboxAssumption DEF IInv, TypeOK, Crash, Forget, rows, Attended, Holds
<1>6. (\A e \in lost : status[e] = "PROCESSING")'
  BY DEF IInv, Crash, rows, HoldCounts
<1> QED
  BY <1>1, <1>2, <1>3, <1>4, <1>5, <1>6 DEF IInv

LEMMA NextStep == IInv /\ [Next]_vars => IInv'
<1> SUFFICES ASSUME IInv, [Next]_vars PROVE IInv'
  OBVIOUS
<1>1. CASE UNCHANGED vars
  BY <1>1 DEF vars, rows, passes, sink, IInv, TypeOK, RowCounts, HoldCounts,
     Apart, Attended, Holds
<1>2. CASE Next
  BY <1>2, TickStep, AppendStep, ClaimStep, DeliverStep, MarkStep, CrashStep
     DEF Next, DispatchDue
<1> QED
  BY <1>1, <1>2

LEMMA Invariance == Spec => []IInv
  BY InitHolds, NextStep, PTL DEF Spec

-----------------------------------------------------------------------------
\* Rows and passes are well typed; attempts never exceed their bound.
THEOREM TypeCorrect == Spec => []TypeOK
<1>1. IInv => TypeOK
  BY DEF IInv
<1> QED
  BY Invariance, <1>1, PTL

\* A row is in the hand of at most one dispatcher and stays PROCESSING until
\* that one records its outcome or dies.
THEOREM AlwaysHeldByOne == Spec => []HeldByOne
<1>1. IInv => HeldByOne
  BY DEF IInv, HeldByOne, Holders, Holds, Apart, Attended, HoldCounts
<1> QED
  BY Invariance, <1>1, PTL

\* The sink sees no event more than MaxAttempts times, and none again that it
\* has taken, whoever dies.
THEOREM AlwaysWithinBounds == Spec => []SentWithinBounds
<1>1. IInv => SentWithinBounds
  BY OutboxAssumption DEF IInv, TypeOK, SentWithinBounds, RowCounts, OutboxStatus
<1> QED
  BY Invariance, <1>1, PTL

\* What the table says of a delivery agrees with what the sink was sent.
THEOREM OutcomeAlwaysTrue == Spec => []OutcomeIsTrue
<1>1. IInv => OutcomeIsTrue
  BY DEF IInv, TypeOK, OutcomeIsTrue, RowCounts, OutboxStatus
<1> QED
  BY Invariance, <1>1, PTL

-----------------------------------------------------------------------------
(* The outbox keeps the promise of EventDelivery.                           *)

Published == {e \in Events : status[e] # Absent}
Verdict == [e \in Events |-> IF status[e] \in {"DELIVERED", "DEAD_LETTERED"}
                             THEN status[e] ELSE "none"]

LEMMA RecordSettles ==
    ASSUME NEW d \in Dispatchers, NEW e \in Events, IInv, at[d] = e,
           NEW delay, NEW outcome \in {"DELIVERED", "DEAD_LETTERED"},
           outcome = "DELIVERED" <=> ~raised[d],
           outcome = "DEAD_LETTERED" => attempts[e] + 1 >= MaxAttempts,
           Record(d, e, outcome, delay)
    PROVE  Delivery!Settle(e)
<1>1. /\ status[e] = "PROCESSING"
      /\ calls[e] = attempts[e] + 1
      /\ accepted[e] = IF raised[d] THEN 0 ELSE 1
      /\ attempts[e] < MaxAttempts
  BY DEF IInv, HoldCounts, RowCounts
<1>2. attempts[e] \in Nat /\ MaxAttempts \in Nat /\ status \in [Events -> OutboxStatus \cup {Absent}]
  BY OutboxAssumption DEF IInv, TypeOK
<1>3. status' = [status EXCEPT ![e] = outcome] /\ UNCHANGED <<calls, accepted>>
  BY DEF Record, sink
<1>4. Verdict' = [Verdict EXCEPT ![e] = outcome] /\ Verdict[e] = "none"
  BY <1>1, <1>2, <1>3 DEF Verdict
<1>5. Published' = Published /\ e \in Published
  BY <1>1, <1>2, <1>3 DEF Published, Absent
<1>6. outcome = "DEAD_LETTERED" => accepted[e] = 0 /\ calls[e] = MaxAttempts
  BY <1>1, <1>2
<1>7. outcome = "DELIVERED" => accepted[e] = 1
  BY <1>1
<1> QED
  BY <1>3, <1>4, <1>5, <1>6, <1>7
  DEF Delivery!Settle, Delivery!Open, Published, Verdict

\* Appending publishes, calling the sink tries, recording that it took the
\* event or that the last attempt failed settles; the rest does not show.
LEMMA DeliveryStep == IInv /\ [Next]_vars => [Delivery!Next]_(Delivery!vars)
<1> SUFFICES ASSUME IInv, [Next]_vars PROVE [Delivery!Next]_(Delivery!vars)
  OBVIOUS
<1> USE DEF Delivery!Next, Delivery!vars
<1>1. status \in [Events -> OutboxStatus \cup {Absent}]
  BY DEF IInv, TypeOK
<1>2. ASSUME UNCHANGED <<Published, Verdict, calls, accepted>>
      PROVE  [Delivery!Next]_(Delivery!vars)
  BY <1>2 DEF Published, Verdict
<1>3. ASSUME NEW e \in Events, Append(e) PROVE Delivery!Publish(e)
  <2>1. status[e] = Absent /\ status' = [status EXCEPT ![e] = "PENDING"]
    BY <1>3 DEF Append
  <2>2. Published' = Published \cup {e} /\ e \notin Published
    BY <1>1, <2>1 DEF Published, Absent
  <2>3. Verdict' = Verdict
    BY <1>1, <2>1 DEF Verdict, Absent
  <2> QED
    BY <1>3, <2>2, <2>3 DEF Append, sink, Delivery!Publish, Published, Verdict
<1>4. ASSUME NEW d \in Dispatchers, ClaimDue(d)
      PROVE  UNCHANGED <<Published, Verdict, calls, accepted>>
  <2>1. PICK batch \in SUBSET Due :
           status' = [e \in Events |-> IF e \in batch THEN "PROCESSING" ELSE status[e]]
    BY <1>4 DEF ClaimDue
  <2>2. \A e \in batch : status[e] \in {"PENDING", "FAILED"}
    BY DEF Due, PendingStatuses
  <2>3. Published' = Published
    BY <2>1, <2>2 DEF Published, Absent
  <2>4. Verdict' = Verdict
    BY <2>1, <2>2 DEF Verdict
  <2> QED
    BY <1>4, <2>3, <2>4 DEF ClaimDue, sink
<1>5. ASSUME NEW d \in Dispatchers, NEW e \in Events, Deliver(d, e)
      PROVE  Delivery!Try(e)
  <2>1. /\ status[e] = "PROCESSING" /\ accepted[e] = 0
        /\ calls[e] = attempts[e] /\ attempts[e] < MaxAttempts
    BY <1>5 DEF IInv, HoldCounts, RowCounts, Deliver
  <2>2. \E taken \in {0, 1} : accepted' = [accepted EXCEPT ![e] = taken]
    <3>1. accepted \in [Events -> Nat]
      BY DEF IInv, TypeOK
    <3>2. accepted = [accepted EXCEPT ![e] = 0]
      BY <2>1, <3>1
    <3>3. CASE UNCHANGED accepted
      BY <3>2, <3>3
    <3>4. CASE accepted' = [accepted EXCEPT ![e] = @ + 1]
      <4>1. accepted' = [accepted EXCEPT ![e] = 1]
        BY <2>1, <3>1, <3>4
      <4> QED
        BY <4>1
    <3> QED
      BY <1>5, <3>3, <3>4 DEF Deliver
  <2>3. Delivery!Open(e)
    BY <2>1 DEF Delivery!Open, Absent
  <2>4. status' = status /\ calls' = [calls EXCEPT ![e] = @ + 1]
    BY <1>5 DEF Deliver, rows
  <2> QED
    BY <2>1, <2>2, <2>3, <2>4 DEF Delivery!Try
<1>6. ASSUME NEW d \in Dispatchers, NEW e \in Events, MarkDelivered(d, e)
      PROVE  Delivery!Settle(e)
  BY <1>6, RecordSettles DEF MarkDelivered
<1>7. ASSUME NEW d \in Dispatchers, NEW e \in Events, MarkFailed(d, e)
      PROVE  [Delivery!Next]_(Delivery!vars)
  <2>1. CASE Exhausted(attempts[e] + 1) /\ Record(d, e, "DEAD_LETTERED", 0)
    <3>1. Delivery!Settle(e)
      BY <1>7, <2>1, RecordSettles DEF MarkFailed, Exhausted
    <3> QED
      BY <3>1
  <2>2. CASE Record(d, e, "FAILED", StillToWait(attempts[e] + 1, age[d]))
    <3>1. status[e] = "PROCESSING" /\ status' = [status EXCEPT ![e] = "FAILED"]
      BY <1>7, <2>2 DEF MarkFailed, IInv, HoldCounts, Record
    <3>2. Published' = Published
      BY <1>1, <3>1 DEF Published, Absent
    <3>3. Verdict' = Verdict
      BY <1>1, <3>1 DEF Verdict
    <3> QED
      BY <1>2, <2>2, <3>2, <3>3 DEF Record, sink
  <2> QED
    BY <1>7, <2>1, <2>2 DEF MarkFailed
<1>8. ASSUME NEW d \in Dispatchers, Crash(d)
      PROVE  UNCHANGED <<Published, Verdict, calls, accepted>>
  BY <1>8 DEF Crash, rows, sink, Published, Verdict
<1>9. CASE Tick \/ UNCHANGED vars
  <2>1. UNCHANGED <<status, calls, accepted>>
    BY <1>9 DEF Tick, vars, rows, sink
  <2> QED
    BY <1>2, <2>1 DEF Published, Verdict
<1> QED
  BY <1>2, <1>3, <1>4, <1>5, <1>6, <1>7, <1>8, <1>9 DEF Next, DispatchDue

\* However many dispatchers share the rows, whatever the batch size and the
\* bound on attempts, and whoever dies between a claim, a call of the sink and
\* the commit of its outcome, the outbox keeps the promise of EventDelivery.
THEOREM OutboxKeepsDelivery == Spec => KeepsDelivery
<1>1. Init => Delivery!Init
  BY DEF Init, Delivery!Init, Absent
<1>2. IInv /\ [Next]_vars => [Delivery!Next]_(Delivery!vars)
  BY DeliveryStep
<1> QED
  BY <1>1, <1>2, Invariance, PTL DEF Spec, KeepsDelivery, Delivery!Spec

-----------------------------------------------------------------------------
(* A claimed row whose dispatcher died.                                     *)

LEMMA AbandonedStep ==
    ASSUME IInv, [Next]_vars, NEW e \in lost
    PROVE  e \in lost' /\ status'[e] = "PROCESSING" /\ calls'[e] = calls[e]
<1> USE DEF IInv, TypeOK
<1>1. e \in Events /\ status[e] = "PROCESSING"
  OBVIOUS
<1>2. \A d \in Dispatchers : e \notin left[d] /\ at[d] # e
  BY <1>1 DEF HoldCounts
<1>3. ASSUME NEW f \in Events, Append(f)
      PROVE  e \in lost' /\ status'[e] = "PROCESSING" /\ calls'[e] = calls[e]
  BY <1>1, <1>3 DEF Append, Absent, sink
<1>4. ASSUME NEW d \in Dispatchers, ClaimDue(d)
      PROVE  e \in lost' /\ status'[e] = "PROCESSING" /\ calls'[e] = calls[e]
  BY <1>1, <1>4 DEF ClaimDue, sink
<1>5. ASSUME NEW d \in Dispatchers, NEW f \in Events, Deliver(d, f)
      PROVE  e \in lost' /\ status'[e] = "PROCESSING" /\ calls'[e] = calls[e]
  BY <1>1, <1>2, <1>5 DEF Deliver, rows
<1>6. ASSUME NEW d \in Dispatchers, NEW f \in Events,
             MarkDelivered(d, f) \/ MarkFailed(d, f)
      PROVE  e \in lost' /\ status'[e] = "PROCESSING" /\ calls'[e] = calls[e]
  BY <1>1, <1>2, <1>6 DEF MarkDelivered, MarkFailed, Record, sink
<1>7. ASSUME NEW d \in Dispatchers, Crash(d)
      PROVE  e \in lost' /\ status'[e] = "PROCESSING" /\ calls'[e] = calls[e]
  BY <1>1, <1>7 DEF Crash, rows, sink
<1>8. CASE Tick \/ UNCHANGED vars
  BY <1>1, <1>8 DEF Tick, vars, rows, sink
<1> QED
  BY <1>3, <1>4, <1>5, <1>6, <1>7, <1>8 DEF Next, DispatchDue

\* No pass selects PROCESSING rows and locked_until is never read (section 4 of
\* the README): a row whose dispatcher died after the claim stays PROCESSING and
\* its event is not handed to the sink again, however many dispatchers there are.
THEOREM LostIsNeverRetried ==
    Spec => [][\A e \in lost :
                  e \in lost' /\ status'[e] = "PROCESSING" /\ calls'[e] = calls[e]]_vars
<1>1. IInv /\ [Next]_vars =>
        [\A e \in lost :
            e \in lost' /\ status'[e] = "PROCESSING" /\ calls'[e] = calls[e]]_vars
  BY AbandonedStep
<1> QED
  BY <1>1, Invariance, PTL DEF Spec

=============================================================================
