--------------------------- MODULE BlockingMemory ---------------------------
(***************************************************************************)
(* What the data clauses of OpenACC promise a program that never waits     *)
(* explicitly: every transfer and every kernel takes effect at once, in    *)
(* the order of the calls.  The queues of commands of the runtime are      *)
(* shown to implement this (see Transfers).                                *)
(***************************************************************************)
EXTENDS Integers

CONSTANTS
  Devices, HostPtrs,
  NumValues,  \* contents of an array: 0 .. NumValues - 1
  Junk,       \* the content of a buffer nothing was written to
  None        \* no copy of the array on the device

Contents == 0..(NumValues - 1)

(* What a kernel makes of the content of a buffer.                         *)
Compute(v) == IF v = Junk THEN Junk ELSE (v + 1) % NumValues

VARIABLES
  host,       \* the content of each array in the memory of the host
  copies      \* ... and of its copy on each device

blockingVars == <<host, copies>>

Present(d, h) == copies[d][h] # None

SetCopy(d, h, v) ==
  copies' = [copies EXCEPT ![d][h] = v] /\ UNCHANGED host

BlockingInit ==
  /\ host = [h \in HostPtrs |-> 0]
  /\ copies = [d \in Devices |-> [h \in HostPtrs |-> None]]

Copyin(d, h) == ~Present(d, h) /\ SetCopy(d, h, host[h])

Create(d, h) == ~Present(d, h) /\ SetCopy(d, h, Junk)

UpdateDevice(d, h) == Present(d, h) /\ SetCopy(d, h, host[h])

RunKernel(d, h) == Present(d, h) /\ SetCopy(d, h, Compute(copies[d][h]))

Copyout(d, h) ==
  /\ Present(d, h)
  /\ host' = [host EXCEPT ![h] = copies[d][h]]
  /\ UNCHANGED copies

Release(gone) ==
  /\ copies' = [d \in Devices |-> [h \in HostPtrs |->
                  IF <<d, h>> \in gone THEN None ELSE copies[d][h]]]
  /\ UNCHANGED host

HostWrite(h, v) == host' = [host EXCEPT ![h] = v] /\ UNCHANGED copies

BlockingNext ==
  \/ \E d \in Devices, h \in HostPtrs :
       \/ Copyin(d, h)
       \/ Create(d, h)
       \/ UpdateDevice(d, h)
       \/ RunKernel(d, h)
       \/ Copyout(d, h)
  \/ \E gone \in SUBSET (Devices \X HostPtrs) : Release(gone)
  \/ \E h \in HostPtrs, v \in Contents : HostWrite(h, v)

BlockingSpec == BlockingInit /\ [][BlockingNext]_blockingVars
=============================================================================
