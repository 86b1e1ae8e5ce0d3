----------------------------- MODULE Transfers ------------------------------
(***************************************************************************)
(* Transfers between host and devices, and kernels (private/memory.c,      *)
(* private/kernel.c, private/region.c, private/data-env.c), composed with  *)
(* the data environments of DataEnv.                                       *)
(*                                                                         *)
(* Every transfer and every kernel is a command put in the in-order queue  *)
(* of a device: none of the calls waits for it.  The host waits in three   *)
(* places only: acc_region_start and acc_region_stop finish the queue of   *)
(* every device of the region, acc_pop_data_environment the queue of the   *)
(* current device.                                                         *)
(*                                                                         *)
(* A call of the *_regions_ family is a sequence of the per-device calls   *)
(* here.  The distribution gives each device host addresses of its own     *)
(* (see Distribution): Owner.                                              *)
(***************************************************************************)
EXTENDS DataEnv, SequencesExt

CONSTANTS
  Owner,      \* the device each host address is distributed to
  MaxQueue,   \* bound on the commands under way explored
  NumValues   \* number of contents of an array told apart

ASSUME OwnerAssumption == Owner \in [HostPtrs -> Devices]
ASSUME NumValuesAssumption == NumValues \in Nat \ {0}
ASSUME NoneIsNoContent == None \notin 0..(NumValues - 1) \cup {Junk}

VARIABLES
  current,    \* the current device: curr_device_type and curr_device_num
  queues,     \* the command queue of each device
  memory,     \* the content of each buffer
  host,       \* the content of each array in the memory of the host
  inUse       \* the arrays a call was given that no wait was for since

transferVars == <<current, queues, memory, host, inUse>>
vars == <<envVars, transferVars>>

Contents == 0..(NumValues - 1)

Compute(v) == IF v = Junk THEN Junk ELSE (v + 1) % NumValues

(* A command carried out by its device, s.memory and s.host being the      *)
(* contents of buffers and arrays.                                         *)
Perform(s, c) ==
  CASE c.op = "write"  -> [s EXCEPT !.memory[c.b] = s.host[c.h]]
    [] c.op = "read"   -> [s EXCEPT !.host[c.h] = s.memory[c.b]]
    [] c.op = "kernel" -> [s EXCEPT !.memory[c.b] = Compute(@)]

Now == [memory |-> memory, host |-> host]

-----------------------------------------------------------------------------
UnderWay == FoldFunction(+, 0, [d \in Devices |-> Len(queues[d])])

(* Mutant: the newest command overtakes the others.                        *)
Enqueue_first(d, op, b, h) ==
  /\ UnderWay < MaxQueue
  /\ queues' = [queues EXCEPT ![d] = <<[op |-> op, b |-> b, h |-> h]>> \o @]

Enqueue(d, op, b, h) ==
  /\ UnderWay < MaxQueue
  /\ queues' = [queues EXCEPT ![d] = Append(@, [op |-> op, b |-> b, h |-> h])]

(* clEnqueueWriteBuffer and clEnqueueReadBuffer with CL_FALSE: the host    *)
(* goes on while the command waits, and must leave the array alone.        *)
acc_memcpy_to_device_(d, b, h) ==
  Enqueue(d, "write", b, h) /\ inUse' = inUse \cup {h}

acc_memcpy_from_device_(d, b, h) ==
  Enqueue(d, "read", b, h) /\ inUse' = inUse \cup {h}

(* A buffer released while a command uses it exists until the command is   *)
(* done: its handle is not given to a new buffer.                          *)
InQueue ==
  UNION {{queues[d][i].b : i \in 1..Len(queues[d])} : d \in Devices}

(* The buffer of a new allocation, unless the allocation failed; what a    *)
(* new buffer contains is unknown.                                         *)
NewBuffer(d, h) == acc_get_deviceptr(d, h)'

Allocated(d, h) ==
  IF halted' = "no"
  THEN NewBuffer(d, h) \notin InQueue
       /\ memory' = [memory EXCEPT ![NewBuffer(d, h)] = Junk]
  ELSE UNCHANGED memory

Create(d, h, n) ==
  /\ acc_create_(d, h, n)
  /\ Allocated(d, h)
  /\ UNCHANGED <<current, queues, host, inUse>>

acc_copyin_(d, h, n) ==
  /\ acc_create_(d, h, n)
  /\ Allocated(d, h)
  /\ IF halted' = "no" THEN acc_memcpy_to_device_(d, NewBuffer(d, h), h)
     ELSE UNCHANGED <<queues, inUse>>
  /\ UNCHANGED <<current, host>>

(* An array already on the device is not transferred again.                *)
acc_present_or_copyin_(d, h, n) ==
  IF acc_check_present(d, h, n) THEN Running /\ UNCHANGED vars
  ELSE acc_copyin_(d, h, n)

(* A call on an array that must be present, which an assertion checks.     *)
OnPresent(d, h, n, call) ==
  /\ Running
  /\ IF acc_check_present(d, h, n)
     THEN call /\ UNCHANGED <<envVars, current, memory, host>>
     ELSE Halt("assert") /\ UNCHANGED transferVars

acc_copyout_(d, h, n) ==
  OnPresent(d, h, n, acc_memcpy_from_device_(d, acc_get_deviceptr(d, h), h))

acc_present_or_copyout_(d, h, n) ==
  IF acc_check_present(d, h, n) THEN acc_copyout_(d, h, n)
  ELSE Running /\ UNCHANGED vars

acc_update_device_(d, h, n) ==
  OnPresent(d, h, n, acc_memcpy_to_device_(d, acc_get_deviceptr(d, h), h))

acc_update_self_(d, h, n) ==
  OnPresent(d, h, n, acc_memcpy_from_device_(d, acc_get_deviceptr(d, h), h))

(* A kernel with one array; it stops the program when the array has no     *)
(* buffer.                                                                 *)
acc_enqueue_kernel(d, h) ==
  /\ Running
  /\ IF Mapped(d, h)
     THEN /\ Enqueue(d, "kernel", acc_get_deviceptr(d, h), h)
          /\ UNCHANGED <<envVars, current, memory, host, inUse>>
     ELSE Halt("assert") /\ UNCHANGED transferVars

-----------------------------------------------------------------------------
(* clFinish of each device of R returns.                                   *)
Finished(R) == \A d \in R : queues[d] = <<>>

Waited(R) == inUse' = {h \in inUse : Owner[h] \notin R}

acc_region_start(R) ==
  /\ Running
  /\ Finished(R)
  /\ Waited(R)
  /\ UNCHANGED <<envVars, current, queues, memory, host>>

acc_region_stop(R) == acc_region_start(R)

Push == acc_push_data_environment /\ UNCHANGED transferVars

Delete(d, h, n) == acc_delete_(d, h, n) /\ UNCHANGED transferVars

(* Mutant: the arrays of the construct that ends are the program's again   *)
(* on whatever device they are, as tests/501 and 509 suppose.              *)
Pop_all ==
  /\ Finished({current})
  /\ acc_pop_data_environment
  /\ inUse' = {h \in inUse : Owner[h] # current /\ h \notin envs[Depth][Owner[h]]}
  /\ UNCHANGED <<current, queues, memory, host>>

(* The end of a construct waits for the current device only: the arrays    *)
(* the construct has on others stay in use until a region waits for them.  *)
Pop ==
  /\ Finished({current})
  /\ acc_pop_data_environment
  /\ Waited({current})
  /\ UNCHANGED <<current, queues, memory, host>>

acc_set_device_num(d) ==
  /\ Running
  /\ current' = d
  /\ UNCHANGED <<envVars, queues, memory, host, inUse>>

-----------------------------------------------------------------------------
(* The program writes an array no transfer it knows of is using.           *)
HostWrite(h, v) ==
  /\ Running
  /\ h \notin inUse
  /\ host' = [host EXCEPT ![h] = v]
  /\ UNCHANGED <<envVars, current, queues, memory, inUse>>

(* A device carries out the oldest command of its queue.                   *)
Execute(d) ==
  /\ Running
  /\ queues[d] # <<>>
  /\ LET s == Perform(Now, Head(queues[d]))
     IN memory' = s.memory /\ host' = s.host
  /\ queues' = [queues EXCEPT ![d] = Tail(@)]
  /\ UNCHANGED <<envVars, current, inUse>>

-----------------------------------------------------------------------------
TransfersInit ==
  /\ Init
  /\ current \in Devices
  /\ queues = [d \in Devices |-> <<>>]
  /\ memory = [b \in DevPtrs |-> Junk]
  /\ host = [h \in HostPtrs |-> 0]
  /\ inUse = {}

(* The calls on the device an address is distributed to, each with the     *)
(* size the array was mapped with; only the newest allocation is deleted   *)
(* (see StructuredNext of DataEnv).                                        *)
Call(d, h, n) ==
  /\ Owner[h] = d
  /\ SizeAgrees(d, h, n)
  /\ \/ Create(d, h, n)
     \/ acc_copyin_(d, h, n)
     \/ acc_present_or_copyin_(d, h, n)
     \/ acc_copyout_(d, h, n)
     \/ acc_present_or_copyout_(d, h, n)
     \/ acc_update_device_(d, h, n)
     \/ acc_update_self_(d, h, n)
     \/ acc_enqueue_kernel(d, h)
     \/ Newest(d, h) /\ Delete(d, h, n)

TransfersNext ==
  /\ \/ \E d \in Devices, h \in HostPtrs, n \in Sizes : Call(d, h, n)
     \/ Push
     \/ Pop
     \/ \E R \in SUBSET Devices \ {{}} : acc_region_start(R) \/ acc_region_stop(R)
     \/ \E d \in Devices : acc_set_device_num(d)
     \/ \E h \in HostPtrs, v \in Contents : HostWrite(h, v)
     \/ \E d \in Devices : Execute(d)
  /\ FewEntries'

TransfersSpec == TransfersInit /\ [][TransfersNext]_vars

-----------------------------------------------------------------------------
(* Once a wait has given an array back to the program (the start or stop   *)
(* of a region on its device, or the end of a data construct while its     *)
(* device is the current one), no transfer still to come reads or writes   *)
(* it.                                                                     *)
HostOwnsItsMemory ==
  Running =>
    \A d \in Devices : \A i \in 1..Len(queues[d]) :
      queues[d][i].op # "kernel" => queues[d][i].h \in inUse

(* The asynchronous runtime is not distinguishable from one that blocks in *)
(* every call: what the arrays and the copies will contain when the queues *)
(* have emptied is what they would contain had each call taken effect at   *)
(* once.                                                                   *)
PerformAll(s, q) ==
  LET after[i \in 0..Len(q)] ==
        IF i = 0 THEN s ELSE Perform(after[i - 1], q[i])
  IN after[Len(q)]

AtTheEnd(d) == PerformAll(Now, queues[d])

FinalHost == [h \in HostPtrs |-> AtTheEnd(Owner[h]).host[h]]

FinalCopies ==
  [d \in Devices |-> [h \in HostPtrs |->
     IF Mapped(d, h) THEN AtTheEnd(d).memory[acc_get_deviceptr(d, h)]
     ELSE None]]

Blocking == INSTANCE BlockingMemory WITH host <- FinalHost, copies <- FinalCopies

ImplementsBlockingMemory == Blocking!BlockingSpec
=============================================================================
