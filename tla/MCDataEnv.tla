----------------------------- MODULE MCDataEnv ------------------------------
(* Finite instances of DataEnv.  No action looks at the identity or at the *)
(* order of a host pointer, a buffer or a device.                          *)
EXTENDS DataEnv, TLC

Symmetric ==
  Permutations(HostPtrs) \cup Permutations(DevPtrs) \cup Permutations(Devices)
=============================================================================
