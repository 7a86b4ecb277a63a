----------------------------- MODULE MCIdempotency -----------------------------
(* Idempotency with three or four requests of three kinds for TLC: a create, a
   pause, and the completion of one session or of two. *)
EXTENDS Idempotency, TLC

CONSTANTS r1, r2, r3, r4, create, pause, complete, other

ThreeRequests == {r1, r2, r3}
FourRequests == {r1, r2, r3, r4}
FourCommands == {create, pause, complete, other}
OneCommand == {complete}
KindOfFour == [f \in FourCommands |->
                  CASE f = create -> "create"
                    [] f = pause  -> "pause"
                    [] OTHER      -> "complete"]
KindOfOne == [f \in OneCommand |-> "complete"]
NoRequests == {}
TwoOfThem == {r1, r2}

=============================================================================
