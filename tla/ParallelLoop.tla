---------------------------- MODULE ParallelLoop ----------------------------
(***************************************************************************)
(* What a parallel loop promises: its iterations are executed in any order *)
(* and any number at a time, but each at most once.  The tiled loops of    *)
(* the runtime are shown to implement this (see LoopTiling).               *)
(***************************************************************************)
EXTENDS Bags

VARIABLES
  iterations,   \* the iterations of the loop
  executed      \* those executed: a bag

LoopInit == executed = EmptyBag

Remaining == iterations \ BagToSet(executed)

ExecuteSome ==
  /\ \E S \in SUBSET Remaining : executed' = executed (+) SetToBag(S)
  /\ UNCHANGED iterations

LoopSpec == LoopInit /\ [][ExecuteSome]_<<iterations, executed>>
=============================================================================
