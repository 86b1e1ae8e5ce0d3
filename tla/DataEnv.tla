------------------------------ MODULE DataEnv -------------------------------
(***************************************************************************)
(* The memory manager (internal/mem-manager.c) and the data environments   *)
(* (internal/data-env.c, private/data-env.c) with the calls of             *)
(* private/memory.c that change them.                                      *)
(*                                                                         *)
(* Each device has a two-way map of its allocations: host pointer (key 1)  *)
(* and buffer (key 2) to the allocation, whose own copy of the two         *)
(* pointers is not repeated here, so the data of a slot is the size.  The  *)
(* environments form a stack; each keeps, per device, the set of host      *)
(* pointers mapped while it was the current one.                           *)
(*                                                                         *)
(* The maps and the sets are associative containers, which find every key  *)
(* up to six entries only (see Associative): the programs of this module   *)
(* have no more arrays than that on a device at a time (FewEntries).       *)
(*                                                                         *)
(* Transfers between host and device are the subject of Transfers.         *)
(***************************************************************************)
EXTENDS BimapOps, Sequences

CONSTANTS
  Devices,    \* indices of the OpenCL devices
  HostPtrs,   \* host addresses the program maps
  DevPtrs,    \* buffer handles OpenCL can return
  Sizes,      \* sizes in bytes
  Capacity,   \* slots of each two-way map (42 in init_memory_manager)
  MaxDepth,   \* bound on the nesting of data environments explored
  Junk, None

ASSUME CapacityAssumption == Capacity \in Nat
ASSUME DepthAssumption == MaxDepth \in Nat \ {0}
ASSUME HostPtrsAreFinite == IsFiniteSet(HostPtrs)
ASSUME NoneAssumption == None \notin [k1 : HostPtrs, k2 : DevPtrs, data : Sizes]

VARIABLES
  envs,      \* the stack of environments; the last is data_environment
  bimaps,    \* data_ptrs_bimap
  buffers,   \* the OpenCL buffers that exist
  halted     \* why the program stopped, or "no"

envVars == <<envs, bimaps, buffers, halted>>

Running == halted = "no"

(* assert and exit end the process; its state no longer matters.           *)
Halt(why) == halted' = why /\ UNCHANGED <<envs, bimaps, buffers>>

Depth == Len(envs)

NoHostPtrs == [d \in Devices |-> {}]

(* The environments once the current one has the host pointers H on d; the *)
(* current one without h, and with it.                                     *)
EnvUpdate(d, H) == [envs EXCEPT ![Depth][d] = H]

EnvWithout(d, h) == EnvUpdate(d, envs[Depth][d] \ {h})
(* Mutant: the host pointer goes to the outermost environment.             *)
EnvWith_outermost(d, h) == [envs EXCEPT ![1][d] = @ \cup {h}]

EnvWith(d, h) == EnvUpdate(d, envs[Depth][d] \cup {h})

-----------------------------------------------------------------------------
(* Queries of the memory manager.                                          *)
Mapped(d, h) == h \in Live1(bimaps[d])

(* Present means mapped from exactly this address with exactly this size.  *)
acc_check_present(d, h, n) ==
  Mapped(d, h) /\ bimap_get_value_by_key_1(bimaps[d], h).data = n

(* The buffer of a mapped host pointer.                                    *)
acc_get_deviceptr(d, h) == bimap_get_value_by_key_1(bimaps[d], h).k2

(* Registers buffer b for h in the memory manager and in the current       *)
(* environment, given the buffers that exist once it is done.  The         *)
(* assertions of bimap_insert stop the program.                            *)
acc_map_data_(d, h, b, n, newBuffers) ==
  IF CanInsert(bimaps[d], h, b)
  THEN /\ bimaps' = [bimaps EXCEPT ![d] = bimap_insert(@, h, b, n)]
       /\ envs' = EnvWith(d, h)
       /\ buffers' = newBuffers
       /\ UNCHANGED halted
  ELSE Halt(IF Mapped(d, h) \/ b \in Live2(bimaps[d]) THEN "assert" ELSE "full")

(* A new buffer, mapped, unless OpenCL fails to create one, which ends the *)
(* program.  acc_copyin_ does the same and then transfers.                 *)
acc_create_(d, h, n) ==
  /\ Running
  /\ IF acc_check_present(d, h, n)
     THEN Halt("assert")
     ELSE \/ Halt("buffer")
          \/ \E b \in DevPtrs \ buffers :
               acc_map_data_(d, h, b, n, buffers \cup {b})

(* Mutants: no test of presence; what is present gets a second owner.      *)
acc_present_or_create_untested(d, h, n) == acc_create_(d, h, n)
acc_present_or_create_owned(d, h, n) ==
  IF acc_check_present(d, h, n)
  THEN Running /\ envs' = EnvWith(d, h) /\ UNCHANGED <<bimaps, buffers, halted>>
  ELSE acc_create_(d, h, n)

acc_present_or_create_(d, h, n) ==
  IF acc_check_present(d, h, n) THEN Running /\ UNCHANGED envVars
  ELSE acc_create_(d, h, n)

(* Mutant: the host pointer stays in the environment.                      *)
acc_unmap_data_kept(d, h) ==
  /\ bimaps' = [bimaps EXCEPT ![d] = bimap_remove_by_key_1(@, h)]
  /\ UNCHANGED envs

(* Unmapping looks in the memory manager and in the current environment.   *)
acc_unmap_data_(d, h) ==
  /\ bimaps' = [bimaps EXCEPT ![d] = bimap_remove_by_key_1(@, h)]
  /\ envs' = EnvWithout(d, h)

(* Mutant: the buffer is not released.                                     *)
acc_delete_leaks(d, h, n) ==
  /\ Running
  /\ IF ~acc_check_present(d, h, n) THEN Halt("assert")
     ELSE acc_unmap_data_(d, h) /\ UNCHANGED <<buffers, halted>>

(* Releasing what is not a buffer is an error of OpenCL that ends the      *)
(* program.                                                                *)
acc_delete_(d, h, n) ==
  /\ Running
  /\ IF ~acc_check_present(d, h, n) THEN Halt("assert")
     ELSE IF acc_get_deviceptr(d, h) \notin buffers THEN Halt("release")
     ELSE /\ acc_unmap_data_(d, h)
          /\ buffers' = buffers \ {acc_get_deviceptr(d, h)}
          /\ UNCHANGED halted

-----------------------------------------------------------------------------
acc_push_data_environment ==
  /\ Running
  /\ Depth < MaxDepth
  /\ envs' = Append(envs, NoHostPtrs)
  /\ UNCHANGED <<bimaps, buffers, halted>>

(* What acc_clear_data_environment releases: the allocation of every host  *)
(* pointer of the current environment, on every device.                    *)
Victims == {v \in Devices \X HostPtrs : v[2] \in envs[Depth][v[1]]}

VictimBuffer(v) == acc_get_deviceptr(v[1], v[2])

(* Every release succeeds: the host pointer still leads to a buffer, and   *)
(* no buffer is released twice.                                            *)
CanClear ==
  /\ \A v \in Victims : Mapped(v[1], v[2]) /\ VictimBuffer(v) \in buffers
  /\ \A v, w \in Victims : VictimBuffer(v) = VictimBuffer(w) => v = w

(* The allocations of the current environment go; so does the environment, *)
(* unless it is the outermost one.                                         *)
acc_pop_data_environment ==
  /\ Running
  /\ IF ~CanClear THEN Halt("release")
     ELSE /\ bimaps' = [d \in Devices |->
                          RemoveAllByKey1(bimaps[d], envs[Depth][d])]
          /\ buffers' = buffers \ {VictimBuffer(v) : v \in Victims}
          /\ envs' = IF Depth > 1 THEN SubSeq(envs, 1, Depth - 1)
                     ELSE <<NoHostPtrs>>
          /\ UNCHANGED halted

(* The calls of the public API on raw buffers.                             *)
acc_malloc(b) ==
  /\ Running
  /\ \/ Halt("buffer")
     \/ /\ b \notin buffers
        /\ buffers' = buffers \cup {b}
        /\ UNCHANGED <<envs, bimaps, halted>>

acc_free(b) ==
  /\ Running
  /\ IF b \notin buffers THEN Halt("release")
     ELSE buffers' = buffers \ {b} /\ UNCHANGED <<envs, bimaps, halted>>

acc_map_data(d, h, b, n) == Running /\ acc_map_data_(d, h, b, n, buffers)

acc_unmap_data(d, h) ==
  Running /\ acc_unmap_data_(d, h) /\ UNCHANGED <<buffers, halted>>

-----------------------------------------------------------------------------
Init ==
  /\ envs = <<NoHostPtrs>>
  /\ bimaps = [d \in Devices |-> bimap_alloc(HostPtrs, DevPtrs, Junk, Capacity)]
  /\ buffers = {}
  /\ halted = "no"

(* No map and no set has more entries than its search can cope with.       *)
FewEntries ==
  \A d \in Devices :
    /\ Searchable(bimaps[d])
    /\ \A i \in 1..Depth : Cardinality(envs[i][d]) <= SearchableEntries

(* Any program: every call, in any order.                                  *)
Next ==
  /\ \/ acc_push_data_environment
     \/ acc_pop_data_environment
     \/ \E b \in DevPtrs : acc_malloc(b) \/ acc_free(b)
     \/ \E d \in Devices, h \in HostPtrs :
          \/ acc_unmap_data(d, h)
          \/ \E n \in Sizes :
               \/ acc_create_(d, h, n)
               \/ acc_present_or_create_(d, h, n)
               \/ acc_delete_(d, h, n)
               \/ \E b \in DevPtrs : acc_map_data(d, h, b, n)
  /\ FewEntries'

Spec == Init /\ [][Next]_envVars

(* A structured program: data constructs only, as the compiler emits them  *)
(* (acc_push_data_environment, clauses, acc_pop_data_environment), that    *)
(*   - asks for a mapped host pointer with the size it was mapped with,    *)
(*   - creates unconditionally only what is not mapped,                    *)
(*   - deletes nothing but its newest allocation on the device, in the     *)
(*     environment that made it.                                           *)
SizeAgrees(d, h, n) == Mapped(d, h) => acc_check_present(d, h, n)

Newest(d, h) ==
  /\ h \in envs[Depth][d]
  /\ \A g \in Live1(bimaps[d]) : bimaps[d].key_1_map[g] <= bimaps[d].key_1_map[h]

StructuredNext ==
  /\ \/ acc_push_data_environment
     \/ acc_pop_data_environment
     \/ \E d \in Devices, h \in HostPtrs, n \in Sizes :
          \/ ~Mapped(d, h) /\ acc_create_(d, h, n)
          \/ SizeAgrees(d, h, n) /\ acc_present_or_create_(d, h, n)
          \/ Newest(d, h) /\ acc_check_present(d, h, n) /\ acc_delete_(d, h, n)
  /\ FewEntries'

StructuredSpec == Init /\ [][StructuredNext]_envVars

-----------------------------------------------------------------------------
TypeOK ==
  /\ envs \in Seq([Devices -> SUBSET HostPtrs])
  /\ Depth \in 1..MaxDepth
  /\ bimaps \in [Devices -> BimapType(HostPtrs, DevPtrs, Sizes, Junk, Capacity)]
  /\ buffers \in SUBSET DevPtrs
  /\ halted \in {"no", "assert", "full", "release", "buffer"}

(* A structured program is never stopped by an assertion of the runtime on *)
(* what is present nor by a release that OpenCL refuses; only the fixed    *)
(* capacity of the two-way map and a buffer OpenCL cannot create stop it.  *)
NoSpuriousHalt == halted \in {"no", "full", "buffer"}

(* data-env.h: an environment holds, per device, a set of allocations:     *)
(* every host pointer of the set is mapped on that device.                 *)
EnvironmentsHoldAllocations ==
  \A i \in 1..Depth, d \in Devices : envs[i][d] \subseteq Live1(bimaps[d])

(* An allocation is in one environment only, so it is released once.       *)
OneOwner ==
  \A d \in Devices : \A i, j \in 1..Depth :
    i # j => envs[i][d] \cap envs[j][d] = {}

(* A buffer exists exactly as long as a host pointer of some device is     *)
(* mapped to it: nothing leaks and nothing mapped is released.             *)
NoBufferLeak == buffers = UNION {Live2(bimaps[d]) : d \in Devices}

(* The memory manager and the environments are nested scopes of            *)
(* allocations: a lookup returns what the innermost open scope that mapped *)
(* the host pointer put there.                                             *)
Scopes ==
  [i \in 1..Depth |-> [d \in Devices |-> [h \in HostPtrs |->
     IF h \in envs[i][d] THEN bimap_get_value_by_key_1(bimaps[d], h)
     ELSE None]]]

Table == INSTANCE PresentTable WITH scopes <- Scopes

ImplementsPresentTable == Table!ScopesSpec
=============================================================================
