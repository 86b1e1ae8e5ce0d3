---------------------------- MODULE Distribution ----------------------------
(***************************************************************************)
(* How a region shares its arrays and its split loop between devices: the  *)
(* part of an array each device gets (acc_distributed_data of              *)
(* private/memory.c), the iterations it runs (acc_create_context of        *)
(* internal/kernel.c) and the offset its kernel subtracts from an index    *)
(* (acc_enqueue_kernel of private/kernel.c).                               *)
(*                                                                         *)
(* The three compute the same two sums of portions, in the same loop over  *)
(* the devices: the sum of all portions, and the sum of those of the       *)
(* devices before.  Here that loop is run once for every device side by    *)
(* side, one step for each value of its counter k.  The array and the      *)
(* split loop have the same portions.                                      *)
(***************************************************************************)
EXTENDS Integers

CONSTANTS
  NumDevices,     \* devices of the region
  PortionValues,  \* portions a device may be given
  ArrayLengths,   \* numbers of elements of an array
  StrideValues,   \* strides of the split loop
  ElementSize     \* bytes of an element

ASSUME NumDevicesAssumption == NumDevices \in Nat
ASSUME PortionsAssumption == PortionValues \subseteq Nat
ASSUME LengthsAssumption == ArrayLengths \subseteq Nat
ASSUME StridesAssumption == StrideValues \subseteq Nat \ {0}
ASSUME ElementSizeAssumption == ElementSize \in Nat \ {0}

Device == 0..(NumDevices - 1)

VARIABLES
  portions,   \* the portion of each device
  n,          \* elements of the array
  original,   \* the split loop: its lower and upper bound and its stride
  k,          \* the counter of the loop
  sum,        \* sum_portions
  prev        \* prev_portion (start_portion) of each device

distributionVars == <<portions, n, original, k, sum, prev>>

(* The loops over elements of an array of m: upper is exclusive.           *)
Loops(m) ==
  {l \in [lower : 0..m, upper : 0..m, stride : StrideValues] : l.lower <= l.upper}

DistributionInit ==
  /\ portions \in [Device -> PortionValues]
  /\ \E d \in Device : portions[d] # 0
  /\ n \in ArrayLengths
  /\ original \in Loops(n)
  /\ k = 0
  /\ sum = 0
  /\ prev = [d \in Device |-> 0]

(* Mutant: a device counts its own portion as one before it.               *)
Accumulate_own ==
  /\ k < NumDevices
  /\ k' = k + 1
  /\ sum' = sum + portions[k]
  /\ prev' = [d \in Device |-> IF k <= d THEN prev[d] + portions[k] ELSE prev[d]]
  /\ UNCHANGED <<portions, n, original>>

Accumulate ==
  /\ k < NumDevices
  /\ k' = k + 1
  /\ sum' = sum + portions[k]
  /\ prev' = [d \in Device |-> IF k < d THEN prev[d] + portions[k] ELSE prev[d]]
  /\ UNCHANGED <<portions, n, original>>

DistributionSpec == DistributionInit /\ [][Accumulate]_distributionVars

Summed == k = NumDevices

-----------------------------------------------------------------------------
(* The share of a total, rounded down as the integer division of C does.   *)
Share(total, p) == (total * p) \div sum

Bytes == n * ElementSize

(* Where the part of a contiguous array starts, and its size, in bytes.    *)
PartStart(d) == Share(Bytes, prev[d])
(* Mutant: sizes are rounded up.                                           *)
PartSize_up(d) == Share(Bytes, portions[d]) + 1

PartSize(d) == Share(Bytes, portions[d])

(* The bounds of a device: a share of the values between those of the      *)
(* loop, not of its iterations; the stride stays that of the loop.         *)
Length == original.upper - original.lower

Lower(d) == original.lower + Share(Length, prev[d])
(* Mutant: the upper bound is taken to be inclusive.                       *)
Upper_inclusive(d) == Lower(d) + Share(Length, portions[d]) + 1

Upper(d) == Lower(d) + Share(Length, portions[d])

(* The values the index takes between two bounds: all that begin before    *)
(* the upper one.  Kernels whose tiles are solved from nbr_it, which is    *)
(* rounded down, leave out the last if the stride does not divide.         *)
Values(lower, upper) ==
  {i \in lower..(upper - 1) : (i - lower) % original.stride = 0}

LoopValues == Values(original.lower, original.upper)
DeviceValues(d) == Values(Lower(d), Upper(d))

(* Mutant: the index is not shifted.                                       *)
Offset_none(d) == 0

(* The offset in elements that is passed to the kernel.                    *)
Offset(d) == Share(n, prev[d])

(* acc_create_context returns NULL, and no kernel is launched, on a device *)
(* without a portion; the *_regions_ calls skip a part of no bytes.        *)
Launched(d) == portions[d] # 0
Transferred(d) == PartSize(d) > 0

-----------------------------------------------------------------------------
TypeOK ==
  /\ portions \in [Device -> Nat]
  /\ n \in Nat
  /\ original \in Loops(n)
  /\ k \in 0..NumDevices
  /\ sum \in Nat
  /\ prev \in [Device -> Nat]

(* The parts of two devices do not overlap, so that no byte of the host is *)
(* copied out by two of them, and all lie inside the array.                *)
PartsAreDisjoint ==
  Summed =>
    /\ \A d, e \in Device : d < e => PartStart(d) + PartSize(d) <= PartStart(e)
    /\ \A d \in Device : PartStart(d) + PartSize(d) <= Bytes

(* No value of the index is given to two devices, and none outside the     *)
(* bounds of the loop, whatever its stride.                                *)
NoIterationTwice ==
  Summed =>
    /\ \A d, e \in Device : d < e => DeviceValues(d) \cap DeviceValues(e) = {}
    /\ \A d \in Device :
         DeviceValues(d) \subseteq original.lower..(original.upper - 1)

(* The element a kernel accesses for an iteration, its index less the      *)
(* offset, lies inside the buffer that holds the part of the device, if    *)
(* the bounds of the loop are those of the array.                          *)
AccessesStayInPart ==
  Summed /\ original.lower = 0 /\ original.upper = n =>
    \A d \in Device : \A i \in DeviceValues(d) :
      /\ i - Offset(d) >= 0
      /\ (i - Offset(d) + 1) * ElementSize <= PartSize(d)

(* kernel.h: the descriptor says how the loop is distributed across the    *)
(* devices, so they run its iterations, all of them and nothing else.      *)
EveryIterationIsRun == UNION {DeviceValues(d) : d \in Device} = LoopValues

(* kernel.c: a distributed array needs the offset, so element i - offset   *)
(* of the part is element i of the array.                                  *)
OffsetsMatchParts ==
  \A d \in Device : Launched(d) => PartStart(d) = Offset(d) * ElementSize

(* kernel.c asserts that the array of a kernel has a buffer.               *)
LaunchesFindTheirData == \A d \in Device : Launched(d) => Transferred(d)

(* The first holds when the sum of the portions, times the stride, divides *)
(* the length of the loop (with stride 2, half of 0..9 is 0..4, and the    *)
(* next device starts at 5); the others when the sum divides the number of *)
(* elements and that is not 0, as with the sizes of the tests.             *)
EvenSplitsAreExact ==
  Summed =>
    /\ Length % (sum * original.stride) = 0 => EveryIterationIsRun
    /\ n # 0 /\ n % sum = 0 => OffsetsMatchParts /\ LaunchesFindTheirData
=============================================================================
