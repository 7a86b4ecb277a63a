---------------------------- MODULE UploadOutcome ----------------------------
(***************************************************************************)
(* What an upload session promises about its file, whatever the order in    *)
(* which requests, the worker and crashes interleave.  The multipart        *)
(* upload has one outcome, decided once and never revised; the session may  *)
(* record COMPLETED only after the object was assembled, counts that        *)
(* completion once, and may record ABORTED only when no multipart upload    *)
(* is left open in storage.  What it records may be wrong in one way only:  *)
(* the record may be withdrawn, or an assembled object recorded ABORTED.    *)
(***************************************************************************)
EXTENDS Naturals

VARIABLES
    outcome,      \* "OPEN", then "COMPLETED" (object exists) or "ABORTED"
    record,       \* the terminal status the row shows, "none" otherwise
    completions   \* how often a completion was recorded

vars == <<outcome, record, completions>>

Init == outcome = "OPEN" /\ record = "none" /\ completions = 0

Decide == /\ outcome = "OPEN"
          /\ outcome' \in {"COMPLETED", "ABORTED"}
          /\ UNCHANGED <<record, completions>>

RecordCompleted == /\ outcome = "COMPLETED"
                   /\ completions = 0
                   /\ record' = "COMPLETED"
                   /\ completions' = 1
                   /\ UNCHANGED outcome

RecordAborted == /\ outcome # "OPEN"
                 /\ record' = "ABORTED"
                 /\ UNCHANGED <<outcome, completions>>

Withdraw == /\ record' = "none"
            /\ UNCHANGED <<outcome, completions>>

Next == Decide \/ RecordCompleted \/ RecordAborted \/ Withdraw

Spec == Init /\ [][Next]_vars

=============================================================================
