------------------------------ MODULE MCTuner -------------------------------
(* Finite instances of Tuner.                                              *)
EXTENDS Tuner

CONSTANTS r1, r2, r3, r4

(* Two groups, of three runs and of one.                                   *)
UnevenGroups == {{r1, r2, r3}, {r4}}
=============================================================================
