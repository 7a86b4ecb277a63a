----------------------------- MODULE MCUploadTask -----------------------------
(* UploadTask for TLC: one task of two objects whose sessions move, and tasks *)
(* of one object that only count against the quota.                          *)
EXTENDS UploadTask, TLC

CONSTANTS t1, t2, t3, t4, o1, o2, o3

MCTasks == {t1, t2, t3, t4}
MCObjects == {o1, o2, o3}
MCObjectsOf == [t \in MCTasks |-> IF t = t1 THEN {o1, o2} ELSE {o3}]
MCDriven == {t1} \X {o1, o2}

Symmetry == Permutations({t2, t3, t4}) \cup Permutations({o1, o2})

=============================================================================
