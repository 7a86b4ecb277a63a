------------------------------- MODULE MCOutbox -------------------------------
(* Outbox with two dispatchers and two or three events for TLC. *)
EXTENDS Outbox, TLC

CONSTANTS e1, e2, e3, d1, d2

OneEvent == {e1}
TwoEvents == {e1, e2}
ThreeEvents == {e1, e2, e3}
BothDispatchers == {d1, d2}
FirstDispatcher == {d1}

=============================================================================
