-------------------------- MODULE MCDeviceCredentials --------------------------
(* DeviceCredentials for TLC: requests are interchangeable.                 *)
EXTENDS DeviceCredentials, TLC

Symmetry == Permutations(Requests)

=============================================================================
