----------------------------- MODULE EventDelivery -----------------------------
(***************************************************************************)
(* What the outbox promises of an event, however many dispatchers run and   *)
(* whichever of them die.  An event is handed to the sink only after it was *)
(* published, at most MaxAttempts times, and never again once the sink has  *)
(* taken it or a verdict was reached.  The verdict is reached once and is   *)
(* the truth: delivered if the sink took it, a dead letter if it raised at  *)
(* every attempt.  That a verdict is reached is not promised.               *)
(***************************************************************************)
EXTENDS Naturals

CONSTANTS Events, MaxAttempts

VARIABLES
    published,   \* the events whose rows are committed
    calls,       \* per event, how often it was handed to the sink
    accepted,    \* per event, how often the sink took it
    verdict      \* per event, "none" until it is settled

vars == <<published, calls, accepted, verdict>>

Init ==
    /\ published = {}
    /\ calls = [e \in Events |-> 0]
    /\ accepted = [e \in Events |-> 0]
    /\ verdict = [e \in Events |-> "none"]

Publish(e) ==
    /\ e \notin published
    /\ published' = published \cup {e}
    /\ UNCHANGED <<calls, accepted, verdict>>

Open(e) == e \in published /\ verdict[e] = "none"

Try(e) ==
    /\ Open(e)
    /\ accepted[e] = 0
    /\ calls[e] < MaxAttempts
    /\ calls' = [calls EXCEPT ![e] = @ + 1]
    /\ \E taken \in {0, 1} : accepted' = [accepted EXCEPT ![e] = taken]
    /\ UNCHANGED <<published, verdict>>

Settle(e) ==
    /\ Open(e)
    /\ \/ accepted[e] = 1 /\ verdict' = [verdict EXCEPT ![e] = "DELIVERED"]
       \/ /\ accepted[e] = 0 /\ calls[e] = MaxAttempts
          /\ verdict' = [verdict EXCEPT ![e] = "DEAD_LETTERED"]
    /\ UNCHANGED <<published, calls, accepted>>

Next == \E e \in Events : Publish(e) \/ Try(e) \/ Settle(e)

Spec == Init /\ [][Next]_vars

=============================================================================
