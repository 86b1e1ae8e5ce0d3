----------------------------- MODULE LoopTiling -----------------------------
(***************************************************************************)
(* How the iterations of a loop are shared between the work-items of a     *)
(* device (internal/kernel.c): a version of the kernel is selected, the    *)
(* numbers of iterations of its seven tiles are completed so that they     *)
(* cover the loop, and each work-item runs its part of the tiles           *)
(* (opencl/libopenacc.cl and the kernels of tests/501/kernels.cl).         *)
(*                                                                         *)
(* A kernel has one loop here, and an increasing one.  An iteration is the *)
(* value of the loop variable in it.                                       *)
(***************************************************************************)
EXTENDS Integers, Sequences, FiniteSets, Bags

CONSTANTS
  Lowers, Lengths, Strides,   \* loops: lower bounds, upper - lower, strides
  Gangs, Workers, Vectors,    \* launches: num_gang, num_worker, vector_length
  VersionLists                \* the versions a kernel may come with

ASSUME LoopsAssumption ==
  Lowers \subseteq Nat /\ Lengths \subseteq Nat /\ Strides \subseteq Nat \ {0}
ASSUME LaunchesAssumption ==
  (Gangs \cup Workers \cup Vectors) \subseteq Nat \ {0}

(* internal/loop.h: work-sharing levels and the filling tiles around them. *)
e_tile_0 == 0
e_gang == 1
e_tile_1 == 2
e_worker == 3
e_tile_2 == 4
e_vector == 5
e_tile_3 == 6
Tile == e_tile_0..e_tile_3
FillingTile == {e_tile_0, e_tile_1, e_tile_2, e_tile_3}

(* A version of a kernel: what it assumes of the launch and how many       *)
(* iterations each tile has, 0 standing for dynamic.                       *)
Version ==
  [affine : BOOLEAN, num_gang : Nat, num_worker : Nat, vector_length : Nat,
   num_iterations : [Tile -> Nat]]

ASSUME VersionsAssumption == VersionLists \subseteq Seq(Version)

VARIABLES
  loop,         \* original: lower, length, stride
  context,      \* num_gang, num_worker, vector_length
  versions,     \* the versions of the kernel
  pc,           \* "select", "run" or "abort"
  version_idx,  \* the version looked at
  best,         \* best_matching_: version, score and loops
  pending,      \* the work-items still to run
  executed      \* the iterations executed: a bag

selectVars == <<pc, version_idx, best>>
inputVars == <<loop, context, versions>>
vars == <<inputVars, selectVars, pending, executed>>

-----------------------------------------------------------------------------
(* init_loop_triplet: the launch completes the levels of work sharing.     *)
Counts(v) ==
  LET given(t, n) == IF v.num_iterations[t] = 0 THEN n ELSE v.num_iterations[t]
  IN [v.num_iterations EXCEPT ![e_gang]   = given(e_gang, context.num_gang),
                              ![e_worker] = given(e_worker, context.num_worker),
                              ![e_vector] = given(e_vector, context.vector_length)]

(* num_dynamic_tiles                                                       *)
DynamicTiles(v) == {t \in FillingTile : v.num_iterations[t] = 0}

(* Lengths from the innermost tile outwards: a tile steps over the length  *)
(* of the next one.                                                        *)
InnerLength(nbr_it) ==
  LET length[t \in Tile] ==
        nbr_it[t] * (IF t = e_tile_3 THEN loop.stride ELSE length[t + 1])
  IN length

InnerTile(nbr_it, t) ==
  [length |-> InnerLength(nbr_it)[t],
   nbr_it |-> nbr_it[t],
   stride |-> IF t = e_tile_3 THEN loop.stride ELSE InnerLength(nbr_it)[t + 1]]

(* Strides from the outermost tile inwards: a tile divides the stride of   *)
(* the one before into its iterations, rounding down.                      *)
OuterStride(nbr_it) ==
  LET stride[t \in Tile] ==
        (IF t = e_tile_0 THEN loop.length ELSE stride[t - 1]) \div nbr_it[t]
  IN stride

OuterLength(nbr_it, t) ==
  IF t = e_tile_0 THEN loop.length ELSE OuterStride(nbr_it)[t - 1]

OuterTile(nbr_it, t) ==
  [length |-> OuterLength(nbr_it, t),
   nbr_it |-> nbr_it[t],
   stride |-> OuterStride(nbr_it)[t]]

solve_no_dynamic(nbr_it) == [t \in Tile |-> InnerTile(nbr_it, t)]

(* Mutant: tile 1 is not given its length either.                          *)
MiddleTile_1(nbr_it, d) ==
  LET length == IF d \in {e_tile_1, e_tile_3} THEN 0 ELSE OuterLength(nbr_it, d)
      stride == InnerTile(nbr_it, d).stride
  IN [length |-> length, nbr_it |-> length \div stride, stride |-> stride]

(* The tile where the two propagations meet.  For the innermost one the    *)
(* code gives the length to tile 2: its own stays 0.                       *)
MiddleTile(nbr_it, d) ==
  LET length == IF d = e_tile_3 THEN 0 ELSE OuterLength(nbr_it, d)
      stride == InnerTile(nbr_it, d).stride
  IN [length |-> length, nbr_it |-> length \div stride, stride |-> stride]

solve_one_dynamic(nbr_it, d) ==
  LET solved == [t \in Tile |-> IF t < d THEN OuterTile(nbr_it, t)
                                ELSE IF t > d THEN InnerTile(nbr_it, t)
                                ELSE MiddleTile(nbr_it, d)]
  IN IF d = e_tile_3
     THEN [solved EXCEPT ![e_tile_2].length = solved[e_vector].stride]
     ELSE solved

Solve(v) ==
  IF DynamicTiles(v) = {} THEN solve_no_dynamic(Counts(v))
  ELSE solve_one_dynamic(Counts(v), CHOOSE t \in DynamicTiles(v) : TRUE)

(* The assertions of the solvers; a second dynamic tile is one of them.    *)
FailsAssertion(v) ==
  \/ DynamicTiles(v) = {} /\ InnerLength(Counts(v))[e_tile_0] # loop.length
  \/ DynamicTiles(v) = {e_tile_0} /\ loop.length = 0
  \/ Cardinality(DynamicTiles(v)) > 1

(* set_ctx_loop: a tile with nothing in it makes the version unusable.     *)
Usable(tiles) ==
  \A t \in Tile :
    tiles[t].length # 0 /\ tiles[t].nbr_it # 0 /\ tiles[t].stride # 0

-----------------------------------------------------------------------------
version_match(v) ==
  /\ v.affine
  /\ v.num_gang \in {0, context.num_gang}
  /\ v.num_worker \in {0, context.num_worker}
  /\ v.vector_length \in {0, context.vector_length}

(* One point for each assumption that agrees with the launch and for each  *)
(* tile that is not dynamic.                                               *)
Score(v) ==
  Cardinality({t \in Tile : v.num_iterations[t] # 0})
    + (IF v.num_gang = context.num_gang THEN 1 ELSE 0)
    + (IF v.num_worker = context.num_worker THEN 1 ELSE 0)
    + (IF v.vector_length = context.vector_length THEN 1 ELSE 0)

NoVersion == [idx |-> 0, score |-> 0, tiles |-> <<>>]

(* One turn of the loop over the versions, which remembers a usable one    *)
(* as version idx if it is better than the best one.                       *)
Evaluate(idx, better) ==
  /\ pc = "select"
  /\ version_idx <= Len(versions)
  /\ LET v == versions[version_idx] IN
     IF version_match(v) /\ FailsAssertion(v)
     THEN pc' = "abort" /\ UNCHANGED best
     ELSE /\ best' = IF version_match(v) /\ Usable(Solve(v)) /\ better
                     THEN [idx |-> idx, score |-> Score(v), tiles |-> Solve(v)]
                     ELSE best
          /\ UNCHANGED pc
  /\ version_idx' = version_idx + 1
  /\ UNCHANGED <<inputVars, pending, executed>>

AtLeastBest == Score(versions[version_idx]) >= best.score

(* Mutant: every usable version replaces the best one.                     *)
acc_eval_kernel_version_last == Evaluate(version_idx, TRUE)

(* Of equal scores the last wins.                                          *)
acc_eval_kernel_version == Evaluate(version_idx, AtLeastBest)

WorkItems == (0..(context.num_gang - 1)) \X (0..(context.num_worker - 1))

(* The kernel is launched with the loops of the best version; without one  *)
(* an assertion stops the program.                                         *)
acc_build_ocl_kernel ==
  /\ pc = "select"
  /\ version_idx > Len(versions)
  /\ IF best = NoVersion
     THEN pc' = "abort" /\ UNCHANGED pending
     ELSE pc' = "run" /\ pending' = WorkItems
  /\ UNCHANGED <<inputVars, version_idx, best, executed>>

-----------------------------------------------------------------------------
(* Mutant: loops run up to their bound inclusively.                        *)
Steps_inclusive(start, t) ==
  LET tile == best.tiles[t]
  IN {start + i * tile.stride : i \in 0..(tile.length \div tile.stride)}

(* The values a tile's loop goes through from a start.                     *)
Steps(start, t) ==
  LET tile == best.tiles[t]
      turns == (tile.length + tile.stride - 1) \div tile.stride
  IN {start + i * tile.stride : i \in 0..(turns - 1)}

acc_gang_iteration(g, it_tile_0) == it_tile_0 + g * best.tiles[e_gang].stride

(* Mutant: workers are as far apart as gangs.                              *)
acc_worker_iteration_gang(w, it_tile_1) == it_tile_1 + w * best.tiles[e_gang].stride

acc_worker_iteration(w, it_tile_1) == it_tile_1 + w * best.tiles[e_worker].stride

(* The turns of the loop nest of a kernel in one work-item: the values of  *)
(* its five loop variables.  Each kernel has the loops of its version's    *)
(* tiles only; a tile it leaves out is one of a single iteration here.     *)
LoopNest(g, w) ==
  UNION {UNION {UNION {UNION {{<<t0, t1, t2, v, t3>>
    : t3 \in Steps(v, e_tile_3)}
    : v \in Steps(t2, e_vector)}
    : t2 \in Steps(acc_worker_iteration(w, t1), e_tile_2)}
    : t1 \in Steps(acc_gang_iteration(g, t0), e_tile_1)}
    : t0 \in Steps(loop.lower, e_tile_0)}

(* What it executes: an iteration as often as the innermost loop is there. *)
Work(g, w) ==
  [i \in {p[5] : p \in LoopNest(g, w)} |->
     Cardinality({p \in LoopNest(g, w) : p[5] = i})]

RunWorkItem(g, w) ==
  /\ <<g, w>> \in pending
  /\ executed' = executed (+) Work(g, w)
  /\ pending' = pending \ {<<g, w>>}
  /\ UNCHANGED <<inputVars, selectVars>>

-----------------------------------------------------------------------------
Init ==
  /\ loop \in [lower : Lowers, length : Lengths, stride : Strides]
  /\ context \in [num_gang : Gangs, num_worker : Workers, vector_length : Vectors]
  /\ versions \in VersionLists
  /\ pc = "select"
  /\ version_idx = 1
  /\ best = NoVersion
  /\ pending = {}
  /\ executed = EmptyBag

Next ==
  \/ acc_eval_kernel_version
  \/ acc_build_ocl_kernel
  \/ \E g \in 0..(context.num_gang - 1), w \in 0..(context.num_worker - 1) :
       RunWorkItem(g, w)

Spec == Init /\ [][Next]_vars

(* A version divides a loop evenly when the iterations of its other tiles  *)
(* leave a whole number, not 0, for the dynamic one.                       *)
Even(v) ==
  LET others == InnerLength([t \in Tile |->
                  IF t \in DynamicTiles(v) THEN 1 ELSE Counts(v)[t]])[e_tile_0]
  IN /\ Cardinality(DynamicTiles(v)) <= 1
     /\ loop.length # 0
     /\ IF DynamicTiles(v) = {} THEN loop.length = others
        ELSE loop.length % others = 0

(* It is for the launch when the numbers it fixes for gangs and workers    *)
(* are those there are, and its innermost tile has a number.               *)
ForLaunch(v) ==
  /\ Counts(v)[e_gang] = context.num_gang
  /\ Counts(v)[e_worker] = context.num_worker
  /\ e_tile_3 \notin DynamicTiles(v)

Matching == {i \in DOMAIN versions : version_match(versions[i])}

EvenInit ==
  Init /\ \A i \in Matching : Even(versions[i]) /\ ForLaunch(versions[i])

EvenSpec == EvenInit /\ [][Next]_vars

-----------------------------------------------------------------------------
Iterations ==
  {loop.lower + i * loop.stride :
     i \in 0..((loop.length + loop.stride - 1) \div loop.stride - 1)}

(* host-context.h: the iteration domain is distributed on the seven levels *)
(* of tiles.  When the work-items are done every iteration was executed,   *)
(* once, and nothing else was.                                             *)
EveryIterationOnce ==
  pc = "run" /\ pending = {} => executed = SetToBag(Iterations)

(* kernel.c looks for a matching version of the kernel: if one matches the *)
(* launch and divides the loop evenly the program is not stopped.          *)
MatchingVersionIsFound ==
  pc = "abort" => \A i \in Matching : ~Even(versions[i])

(* The version launched matches, and none that matches, and has a use for  *)
(* every tile, agrees with more of the launch.                             *)
BestVersionIsRun ==
  pc = "run" =>
    /\ best.idx \in Matching
    /\ best.tiles = Solve(versions[best.idx])
    /\ \A i \in Matching :
         Usable(Solve(versions[i])) => Score(versions[i]) <= Score(versions[best.idx])

(* However the work-items interleave, none executes an iteration that      *)
(* another has executed or that is not of the loop.                        *)
Loop == INSTANCE ParallelLoop WITH iterations <- Iterations

ImplementsParallelLoop == Loop!LoopSpec
=============================================================================
