---------------------------- MODULE MCClientUpload ----------------------------
(* ClientUpload for TLC: two runs on one manifest.  Liveness, so no symmetry. *)
EXTENDS ClientUpload, TLC

=============================================================================
