--------------------------- MODULE Kernel_proofs ----------------------------
(***************************************************************************)
(* How a kernel is run, for any devices, loops, launches and versions.     *)
(*                                                                         *)
(* However many devices and whatever their portions and the array, the     *)
(* parts and the iterations of two devices are disjoint and a kernel stays *)
(* inside its part.  The invariant behind it is about the two sums: those  *)
(* of a device and its portion never exceed the sum of a later device, nor *)
(* the sum of all, once the loop has gone past the device.                 *)
(*                                                                         *)
(* On a device the tiles of a version that divides the loop evenly are     *)
(* nested: each turn of a tile is a block of iterations that the next tile *)
(* divides into equal blocks.  So each iteration is in one turn of the     *)
(* whole nest, that of one work-item.                                      *)
(***************************************************************************)
EXTENDS Distribution, LoopTiling, FiniteSetTheorems, TLAPS

(* What the loop has summed: nothing yet beyond k, and past d all that     *)
(* comes before d and d itself.                                            *)
Ordered ==
  \A d \in Device :
    /\ k > d => prev[d] + portions[d] <= sum
    /\ k <= d => prev[d] = sum
    /\ \A e \in Device : d < e /\ k > d => prev[d] + portions[d] <= prev[e]

SumInv ==
  /\ TypeOK
  /\ Ordered
  /\ \E d \in Device : portions[d] # 0

-----------------------------------------------------------------------------
(* Rounding down: the quotient is the number q with s q <= a < s (q + 1).  *)
LEMMA Quotient ==
  ASSUME NEW a \in Nat, NEW s \in Nat \ {0}
  PROVE  a \div s \in Nat /\ s * (a \div s) <= a /\ a < s * ((a \div s) + 1)
BY SMT

LEMMA Multiples ==
  ASSUME NEW s \in Nat \ {0}, NEW q \in Nat, NEW r \in Nat, s * q < s * (r + 1)
  PROVE  q <= r
BY SMT

(* Two numbers rounded down do not exceed their sum rounded down.          *)
LEMMA RoundedSum ==
  ASSUME NEW a \in Nat, NEW b \in Nat, NEW c \in Nat, NEW s \in Nat \ {0},
         a + b <= c
  PROVE  (a \div s) + (b \div s) <= c \div s
<1> DEFINE qa == a \div s
           qb == b \div s
           qc == c \div s
<1>1. qa \in Nat /\ s * qa <= a BY Quotient
<1>2. qb \in Nat /\ s * qb <= b BY Quotient
<1>3. qc \in Nat /\ c < s * (qc + 1) BY Quotient
<1> HIDE DEF qa, qb, qc
<1>4. s * (qa + qb) = s * qa + s * qb BY <1>1, <1>2, SMT
<1>5. s * qa \in Nat /\ s * qb \in Nat /\ s * (qc + 1) \in Nat
  BY <1>1, <1>2, <1>3, SMT
<1>6. s * (qa + qb) < s * (qc + 1) BY <1>1, <1>2, <1>3, <1>4, <1>5
<1>7. qa + qb <= qc BY <1>1, <1>2, <1>3, <1>6, Multiples
<1> QED BY <1>7 DEF qa, qb, qc

(* A number of elements rounded down takes no more bytes than the bytes    *)
(* rounded down.                                                           *)
LEMMA RoundedBytes ==
  ASSUME NEW a \in Nat, NEW z \in Nat \ {0}, NEW s \in Nat \ {0}
  PROVE  (a \div s) * z <= (a * z) \div s
<1> DEFINE q == a \div s
           r == (a * z) \div s
<1>1. q \in Nat /\ s * q <= a BY Quotient
<1>2. a * z \in Nat BY SMT
<1>3. r \in Nat /\ a * z < s * (r + 1) BY <1>2, Quotient
<1> HIDE DEF q, r
<1>4. (s * q) * z <= a * z BY <1>1, SMT
<1>5. s * (q * z) = (s * q) * z BY <1>1, SMT
<1>6. q * z \in Nat BY <1>1, SMT
<1>7. s * (q * z) \in Nat /\ s * (r + 1) \in Nat BY <1>3, <1>6, SMT
<1>8. s * (q * z) < s * (r + 1) BY <1>2, <1>3, <1>4, <1>5, <1>7
<1>9. q * z <= r BY <1>3, <1>6, <1>8, Multiples
<1> QED BY <1>9 DEF q, r

-----------------------------------------------------------------------------
LEMMA DeviceIsNat == \A d \in Device : d \in Nat
BY NumDevicesAssumption DEF Device

LEMMA InitSumInv == DistributionInit => SumInv
<1> SUFFICES ASSUME DistributionInit PROVE SumInv
  OBVIOUS
<1>1. TypeOK
  <2>1. portions \in [Device -> Nat]
    BY PortionsAssumption DEF DistributionInit
  <2>2. n \in Nat /\ original \in Loops(n)
    BY LengthsAssumption DEF DistributionInit
  <2>3. k \in 0..NumDevices
    BY NumDevicesAssumption DEF DistributionInit
  <2>4. sum \in Nat /\ prev \in [Device -> Nat]
    BY DEF DistributionInit
  <2> QED BY <2>1, <2>2, <2>3, <2>4 DEF TypeOK
<1>2. Ordered
  <2>1. \A d \in Device : d \in Nat /\ ~(k > d) /\ prev[d] = sum
    BY DeviceIsNat DEF DistributionInit
  <2> QED BY <2>1 DEF Ordered
<1> QED BY <1>1, <1>2 DEF DistributionInit, SumInv

LEMMA AccumulateKeepsSumInv == SumInv /\ [Accumulate]_distributionVars => SumInv'
<1> SUFFICES ASSUME SumInv, [Accumulate]_distributionVars PROVE SumInv'
  OBVIOUS
<1> USE DeviceIsNat, NumDevicesAssumption
<1>1. CASE UNCHANGED distributionVars
  BY <1>1 DEF SumInv, TypeOK, Ordered, distributionVars
<1>2. CASE Accumulate
  <2> k \in Device /\ portions[k] \in Nat
    BY <1>2 DEF Accumulate, SumInv, TypeOK, Device
  <2>1. TypeOK'
    BY <1>2 DEF Accumulate, SumInv, TypeOK
  <2>2. ASSUME NEW d \in Device
        PROVE  /\ prev'[d] = IF k < d THEN prev[d] + portions[k] ELSE prev[d]
               /\ prev[d] \in Nat /\ portions[d] \in Nat
    BY <1>2 DEF Accumulate, SumInv, TypeOK
  <2>3. k' = k + 1 /\ sum' = sum + portions[k] /\ portions' = portions
    BY <1>2 DEF Accumulate
  <2>4. k \in Nat /\ sum \in Nat
    BY DEF SumInv, TypeOK
  <2>5. Ordered'
    <3> SUFFICES ASSUME NEW d \in Device
        PROVE  /\ k' > d => prev'[d] + portions[d] <= sum'
               /\ k' <= d => prev'[d] = sum'
               /\ \A e \in Device :
                    d < e /\ k' > d => prev'[d] + portions[d] <= prev'[e]
      BY <2>3 DEF Ordered
    <3>1. /\ k > d => prev[d] + portions[d] <= sum
          /\ k <= d => prev[d] = sum
          /\ \A e \in Device : d < e /\ k > d => prev[d] + portions[d] <= prev[e]
      BY DEF SumInv, Ordered
    <3>2. k' > d => prev'[d] + portions[d] <= sum'
      BY <2>2, <2>3, <2>4, <3>1
    <3>3. k' <= d => prev'[d] = sum'
      BY <2>2, <2>3, <2>4, <3>1
    <3>4. ASSUME NEW e \in Device, d < e, k' > d
          PROVE  prev'[d] + portions[d] <= prev'[e]
      <4>1. k <= e => prev[e] = sum
        BY DEF SumInv, Ordered
      <4>2. CASE k > d
        BY <2>2, <2>3, <2>4, <3>1, <3>4, <4>1, <4>2
      <4>3. CASE k = d
        BY <2>2, <2>3, <2>4, <3>1, <3>4, <4>1, <4>3
      <4> QED BY <2>3, <2>4, <3>4, <4>2, <4>3
    <3> QED BY <3>2, <3>3, <3>4
  <2>7. (\E d \in Device : portions[d] # 0)'
    BY <2>3 DEF SumInv
  <2> QED BY <2>1, <2>5, <2>7 DEF SumInv
<1> QED BY <1>1, <1>2

LEMMA SumInvHolds == DistributionSpec => []SumInv
BY InitSumInv, AccumulateKeepsSumInv, PTL DEF DistributionSpec

(* The sums have the types of unsigned integers.                           *)
THEOREM DistributionTypeOK == DistributionSpec => []TypeOK
<1>1. SumInv => TypeOK BY DEF SumInv
<1> QED BY <1>1, SumInvHolds, PTL

-----------------------------------------------------------------------------
(* What the sums are once the loop is over.                                *)
LEMMA SumsWhenSummed ==
  ASSUME SumInv, Summed
  PROVE  /\ sum \in Nat \ {0} /\ n \in Nat /\ original \in Loops(n)
         /\ \A d \in Device :
              /\ prev[d] \in Nat /\ portions[d] \in Nat
              /\ prev[d] + portions[d] <= sum
              /\ \A e \in Device : d < e => prev[d] + portions[d] <= prev[e]
<1>1. \A d \in Device : k > d
  BY NumDevicesAssumption DEF Summed, Device
<1>2. /\ sum \in Nat /\ n \in Nat /\ original \in Loops(n)
      /\ \A d \in Device : prev[d] \in Nat /\ portions[d] \in Nat
  BY DEF SumInv, TypeOK
<1>3. PICK d \in Device : portions[d] # 0
  BY DEF SumInv
<1>4. prev[d] + portions[d] <= sum
  BY <1>1 DEF SumInv, Ordered
<1>5. sum # 0
  BY <1>2, <1>3, <1>4
<1> QED BY <1>1, <1>2, <1>5 DEF SumInv, Ordered

(* The shares of p and q of a total: side by side below the share of r,    *)
(* and the whole total when r is the sum of all.                           *)
LEMMA Shares ==
  ASSUME NEW total \in Nat, NEW p \in Nat, NEW q \in Nat, NEW r \in Nat,
         sum \in Nat \ {0}, p + q <= r
  PROVE  /\ Share(total, p) \in Nat /\ Share(total, q) \in Nat
         /\ Share(total, p) + Share(total, q) <= Share(total, r)
         /\ Share(total, sum) = total
<1>1. total * p \in Nat /\ total * q \in Nat /\ total * r \in Nat
  BY SMT
<1>2. total * p + total * q <= total * r
  <2>1. total * p + total * q = total * (p + q) BY SMT
  <2>2. total * (p + q) <= total * r BY SMT
  <2> QED BY <1>1, <2>1, <2>2
<1>3. (total * p) \div sum + (total * q) \div sum <= (total * r) \div sum
  BY <1>1, <1>2, RoundedSum
<1>4. (total * sum) \div sum = total
  BY SMT
<1> QED BY <1>1, <1>3, <1>4, Quotient DEF Share

LEMMA BytesIsNat == ASSUME n \in Nat PROVE Bytes \in Nat
BY ElementSizeAssumption, SMT DEF Bytes

LEMMA DisjointParts == SumInv => PartsAreDisjoint
<1> SUFFICES ASSUME SumInv, Summed PROVE PartsAreDisjoint
  BY DEF PartsAreDisjoint
<1>1. Bytes \in Nat /\ sum \in Nat \ {0}
  BY SumsWhenSummed, BytesIsNat
<1>2. ASSUME NEW d \in Device, NEW e \in Device, d < e
      PROVE  PartStart(d) + PartSize(d) <= PartStart(e)
  BY <1>1, <1>2, SumsWhenSummed, Shares DEF PartStart, PartSize
<1>3. ASSUME NEW d \in Device
      PROVE  PartStart(d) + PartSize(d) <= Bytes
  <2>1. Share(Bytes, prev[d]) + Share(Bytes, portions[d]) <= Share(Bytes, sum)
    BY <1>1, SumsWhenSummed, Shares
  <2>2. Share(Bytes, sum) = Bytes
    BY <1>1, SumsWhenSummed, Shares
  <2> QED BY <2>1, <2>2 DEF PartStart, PartSize
<1> QED BY <1>2, <1>3 DEF PartsAreDisjoint

(* The bounds and the stride of the loop.                                  *)
LEMMA LoopIs ==
  ASSUME original \in Loops(n), n \in Nat
  PROVE  /\ original.lower \in Nat /\ original.upper \in Nat
         /\ original.upper <= n
         /\ original.stride \in Nat \ {0}
         /\ Length \in Nat /\ original.lower + Length = original.upper
<1>1. /\ original \in [lower : 0..n, upper : 0..n, stride : StrideValues]
      /\ original.lower <= original.upper
  BY DEF Loops
<1>2. /\ original.lower \in 0..n /\ original.upper \in 0..n
      /\ original.stride \in Nat \ {0}
  BY <1>1, StridesAssumption
<1> QED
  BY <1>1, <1>2 DEF Length

(* The values of a device are between its bounds.                          *)
LEMMA DeviceBounds ==
  ASSUME SumInv, Summed, NEW d \in Device
  PROVE  /\ Share(Length, prev[d]) \in Nat /\ Share(Length, portions[d]) \in Nat
         /\ Lower(d) \in Nat /\ original.lower <= Lower(d)
         /\ Upper(d) \in Nat /\ Upper(d) <= original.upper
         /\ DeviceValues(d) \subseteq Lower(d)..(Upper(d) - 1)
<1>1. /\ sum \in Nat \ {0} /\ n \in Nat /\ original \in Loops(n)
      /\ prev[d] \in Nat /\ portions[d] \in Nat /\ prev[d] + portions[d] <= sum
  BY SumsWhenSummed
<1>2. /\ original.lower \in Nat /\ original.stride \in Nat \ {0}
      /\ Length \in Nat /\ original.lower + Length = original.upper
  BY <1>1, LoopIs
<1>3. /\ Share(Length, prev[d]) \in Nat /\ Share(Length, portions[d]) \in Nat
      /\ Share(Length, prev[d]) + Share(Length, portions[d]) <= Length
  <2>1. Share(Length, prev[d]) + Share(Length, portions[d]) <= Share(Length, sum)
    BY <1>1, <1>2, Shares
  <2>2. /\ Share(Length, prev[d]) \in Nat /\ Share(Length, portions[d]) \in Nat
        /\ Share(Length, sum) = Length
    BY <1>1, <1>2, Shares
  <2> QED
    BY <2>1, <2>2
<1>4. /\ Lower(d) \in Nat /\ original.lower <= Lower(d)
      /\ Upper(d) \in Nat /\ Upper(d) <= original.upper
  BY <1>2, <1>3 DEF Lower, Upper
<1>5. DeviceValues(d) \subseteq Lower(d)..(Upper(d) - 1)
  BY DEF DeviceValues, Values
<1> QED
  BY <1>3, <1>4, <1>5

LEMMA DisjointIterations == SumInv => NoIterationTwice
<1> SUFFICES ASSUME SumInv, Summed PROVE NoIterationTwice
  BY DEF NoIterationTwice
<1>1. /\ n \in Nat /\ sum \in Nat \ {0}
      /\ Length \in Nat /\ original.lower \in Nat /\ original.upper \in Nat
  BY SumsWhenSummed, LoopIs
<1>2. ASSUME NEW d \in Device, NEW e \in Device, d < e
      PROVE  DeviceValues(d) \cap DeviceValues(e) = {}
  <2>1. Share(Length, prev[d]) + Share(Length, portions[d]) <= Share(Length, prev[e])
    BY <1>1, <1>2, SumsWhenSummed, Shares
  <2>2. Upper(d) <= Lower(e)
    BY <1>1, <2>1, DeviceBounds DEF Upper, Lower
  <2>3. /\ DeviceValues(d) \subseteq Lower(d)..(Upper(d) - 1)
        /\ DeviceValues(e) \subseteq Lower(e)..(Upper(e) - 1)
        /\ Lower(d) \in Nat /\ Upper(d) \in Nat /\ Lower(e) \in Nat /\ Upper(e) \in Nat
    BY DeviceBounds
  <2>4. (Lower(d)..(Upper(d) - 1)) \cap (Lower(e)..(Upper(e) - 1)) = {}
    BY <2>2, <2>3
  <2> QED BY <2>3, <2>4
<1>3. ASSUME NEW d \in Device
      PROVE  DeviceValues(d) \subseteq original.lower..(original.upper - 1)
  BY <1>1, DeviceBounds
<1> QED BY <1>2, <1>3 DEF NoIterationTwice

LEMMA InsidePart == SumInv => AccessesStayInPart
<1> SUFFICES ASSUME SumInv, Summed, original.lower = 0, original.upper = n,
                    NEW d \in Device, NEW i \in DeviceValues(d)
    PROVE  /\ i - Offset(d) >= 0
           /\ (i - Offset(d) + 1) * ElementSize <= PartSize(d)
  BY DEF AccessesStayInPart
<1> USE ElementSizeAssumption
<1> DEFINE share == Share(n, portions[d])
           a == n * portions[d]
<1>1. /\ n \in Nat /\ sum \in Nat \ {0}
      /\ prev[d] \in Nat /\ portions[d] \in Nat
  BY SumsWhenSummed
<1>2. Share(n, prev[d]) \in Nat /\ share \in Nat
  BY <1>1, SumsWhenSummed, Shares
<1>3. a \in Nat BY <1>1, SMT
<1>4. share * ElementSize <= (a * ElementSize) \div sum
  BY <1>1, <1>3, RoundedBytes DEF Share
<1>5. a * ElementSize = Bytes * portions[d]
  BY <1>1, SMT DEF Bytes
<1>6. share * ElementSize <= PartSize(d)
  BY <1>4, <1>5 DEF PartSize, Share
<1> HIDE DEF share
<1>7. i - Offset(d) \in Nat /\ i - Offset(d) + 1 <= share
  <2>1. Length = n
    BY <1>1 DEF Length
  <2>2. Lower(d) = Offset(d) /\ Upper(d) = Offset(d) + share
    BY <1>2, <2>1 DEF Lower, Upper, Offset, share
  <2>3. i \in Lower(d)..(Upper(d) - 1)
    BY DeviceBounds
  <2> QED
    BY <1>2, <2>2, <2>3 DEF Offset
<1>8. (i - Offset(d) + 1) * ElementSize <= share * ElementSize
  <2>1. PICK j \in Nat : j = i - Offset(d) + 1 BY <1>7
  <2>2. j * ElementSize <= share * ElementSize
    BY <1>2, <1>7, <2>1, SMT
  <2> QED BY <2>1, <2>2
<1>9. /\ (i - Offset(d) + 1) * ElementSize \in Int
      /\ share * ElementSize \in Int /\ PartSize(d) \in Int
  <2>1. Bytes \in Nat BY <1>1, BytesIsNat
  <2>2. PartSize(d) \in Nat
    BY <1>1, <2>1, SumsWhenSummed, Shares DEF PartSize
  <2> QED BY <1>2, <1>7, <2>2, SMT
<1> QED BY <1>6, <1>7, <1>8, <1>9

(* For any number of devices, portions, elements and element size, the     *)
(* *_regions_ calls never hand the same byte of an array to two devices    *)
(* and never a byte beyond it.                                             *)
THEOREM PartsAreAlwaysDisjoint == DistributionSpec => []PartsAreDisjoint
BY DisjointParts, SumInvHolds, PTL

(* ... acc_create_context never gives a value of the index to two devices, *)
(* nor one outside the bounds of the loop, whatever these and the stride.  *)
THEOREM IterationsAreAlwaysDisjoint == DistributionSpec => []NoIterationTwice
BY DisjointIterations, SumInvHolds, PTL

(* ... and a kernel that subtracts the offset acc_enqueue_kernel passes    *)
(* stays within the buffer of its part, even where the part and the        *)
(* iterations are rounded differently, if the loop is over the array.      *)
THEOREM AccessesAlwaysStayInPart == DistributionSpec => []AccessesStayInPart
BY InsidePart, SumInvHolds, PTL

-----------------------------------------------------------------------------
(* Every number below the sum is in the range of one device that the loop  *)
(* has passed.                                                             *)
Covered ==
  \A j \in 0..(sum - 1) :
    \E d \in Device : k > d /\ prev[d] <= j /\ j < prev[d] + portions[d]

LEMMA AccumulateKeepsCovered ==
  SumInv /\ Covered /\ [Accumulate]_distributionVars => Covered'
<1> SUFFICES ASSUME SumInv, Covered, [Accumulate]_distributionVars PROVE Covered'
  OBVIOUS
<1>1. CASE UNCHANGED distributionVars
  BY <1>1 DEF Covered, distributionVars
<1>2. CASE Accumulate
  <2>1. /\ k \in Device /\ k \in Nat /\ portions[k] \in Nat /\ sum \in Nat
        /\ prev[k] = sum
    BY <1>2, NumDevicesAssumption
       DEF Accumulate, SumInv, TypeOK, Device, Ordered
  <2>2. /\ k' = k + 1 /\ sum' = sum + portions[k] /\ portions' = portions
        /\ \A d \in Device : k >= d => prev'[d] = prev[d]
    BY <1>2, DeviceIsNat, <2>1 DEF Accumulate
  <2> SUFFICES ASSUME NEW j \in 0..(sum' - 1)
               PROVE  \E d \in Device :
                        k' > d /\ prev'[d] <= j /\ j < prev'[d] + portions'[d]
    BY DEF Covered
  <2>3. CASE j < sum
    <3>1. PICK d \in Device : k > d /\ prev[d] <= j /\ j < prev[d] + portions[d]
      BY <2>1, <2>3 DEF Covered
    <3> QED
      BY <2>1, <2>2, <3>1, DeviceIsNat
  <2>4. CASE j >= sum
    <3>1. k' > k /\ prev'[k] <= j /\ j < prev'[k] + portions'[k]
      BY <2>1, <2>2, <2>4
    <3> QED
      BY <2>1, <3>1
  <2> QED
    BY <2>1, <2>2, <2>3, <2>4
<1> QED
  BY <1>1, <1>2

LEMMA DivisibleQuotient ==
  ASSUME NEW a \in Nat, NEW s \in Nat \ {0}, a % s = 0
  PROVE  a \div s \in Nat /\ a = (a \div s) * s
BY SMT

(* A multiple of the sum is shared without a rest.                         *)
LEMMA ExactShare ==
  ASSUME sum \in Nat \ {0}, NEW m \in Nat, NEW p \in Nat, NEW total,
         total = m * sum
  PROVE  Share(total, p) = m * p
<1>1. m * p \in Nat
  BY SMT
<1>2. total * p = (m * p) * sum
  BY SMT
<1>3. \A q \in Nat : (q * sum) \div sum = q
  BY SMT
<1> QED
  BY <1>1, <1>2, <1>3 DEF Share

(* The values between bounds that are m strides apart.                     *)
LEMMA ExactValues ==
  ASSUME original.stride \in Nat \ {0}, NEW lo \in Nat, NEW m \in Nat, NEW hi,
         hi = lo + m * original.stride
  PROVE  Values(lo, hi) = {lo + j * original.stride : j \in 0..(m - 1)}
<1> DEFINE st == original.stride
<1>1. st \in Nat \ {0} /\ m * st \in Nat /\ hi = lo + m * st
  BY SMT
<1> HIDE DEF st
<1>2. ASSUME NEW j \in 0..(m - 1), NEW i, i = lo + j * st
      PROVE  i \in lo..(hi - 1) /\ (i - lo) % st = 0
  <2>1. j \in Nat /\ j + 1 <= m
    BY <1>2
  <2>2. j * st \in Nat /\ j * st + st <= m * st
    BY <1>1, <2>1, SMT
  <2>3. (j * st) % st = 0
    BY <1>1, <2>1, SMT
  <2>4. i - lo = j * st /\ i \in lo..(hi - 1)
    BY <1>1, <1>2, <2>2
  <2> QED
    BY <2>3, <2>4, Zenon
<1>3. ASSUME NEW i \in lo..(hi - 1), (i - lo) % st = 0
      PROVE  \E j \in 0..(m - 1) : i = lo + j * st
  <2>1. PICK a : a = i - lo
    OBVIOUS
  <2>2. a \in Nat /\ a < m * st /\ i = lo + a /\ a % st = 0
    BY <1>1, <1>3, <2>1
  <2>3. PICK j \in Nat : a = j * st
    BY <1>1, <2>2, DivisibleQuotient
  <2>4. j < m
    BY <1>1, <2>2, <2>3, SMT
  <2> QED
    BY <2>2, <2>3, <2>4
<1>4. Values(lo, hi) = {i \in lo..(hi - 1) : (i - lo) % st = 0}
  BY DEF Values, st
<1>5. Values(lo, hi) = {lo + j * st : j \in 0..(m - 1)}
  <2>1. Values(lo, hi) \subseteq {lo + j * st : j \in 0..(m - 1)}
    BY <1>3, <1>4, Zenon
  <2>2. ASSUME NEW i \in {lo + j * st : j \in 0..(m - 1)}
        PROVE  i \in Values(lo, hi)
    <3>1. PICK j \in 0..(m - 1) : i = lo + j * st
      BY <2>2
    <3>2. i \in lo..(hi - 1) /\ (i - lo) % st = 0
      BY <1>2, <3>1, Zenon
    <3> QED
      BY <1>4, <3>2
  <2> QED
    BY <2>1, <2>2, Zenon
<1> QED
  BY <1>5 DEF st

(* The iterations, when the sum and the stride share them without a rest.  *)
LEMMA ExactIterations ==
  ASSUME SumInv, Covered, Summed, Length % (sum * original.stride) = 0
  PROVE  EveryIterationIsRun
<1> DEFINE st == original.stride
<1>1. /\ sum \in Nat \ {0} /\ n \in Nat /\ original \in Loops(n)
      /\ \A d \in Device :
           prev[d] \in Nat /\ portions[d] \in Nat /\ prev[d] + portions[d] <= sum
  BY SumsWhenSummed
<1>2. /\ original.lower \in Nat /\ st \in Nat \ {0} /\ Length \in Nat
      /\ original.upper = original.lower + Length
  BY <1>1, LoopIs
<1>3. PICK q \in Nat : Length = q * (sum * st)
  <2>1. sum * st \in Nat \ {0}
    BY <1>1, <1>2, SMT
  <2> QED
    BY <1>2, <2>1, DivisibleQuotient
<1> HIDE DEF st
<1>4. /\ q * st \in Nat /\ Length = (q * st) * sum /\ Length = (q * sum) * st
      /\ q * sum \in Nat
  BY <1>1, <1>2, <1>3, SMT
<1>6. LoopValues = {original.lower + t * st : t \in 0..(q * sum - 1)}
  <2>1. original.upper = original.lower + (q * sum) * st
    BY <1>2, <1>4
  <2> QED
    BY <1>2, <1>4, <2>1, ExactValues DEF LoopValues, st
<1>7. ASSUME NEW d \in Device
      PROVE  /\ q * prev[d] \in Nat /\ q * portions[d] \in Nat
             /\ q * prev[d] + q * portions[d] <= q * sum
             /\ DeviceValues(d) =
                  {original.lower + (q * prev[d]) * st + j * st :
                     j \in 0..(q * portions[d] - 1)}
  <2>1. prev[d] \in Nat /\ portions[d] \in Nat /\ prev[d] + portions[d] <= sum
    BY <1>1
  <2>2. /\ Share(Length, prev[d]) = (q * st) * prev[d]
        /\ Share(Length, portions[d]) = (q * st) * portions[d]
    BY <1>1, <1>4, <2>1, ExactShare
  <2>3. /\ (q * st) * prev[d] = (q * prev[d]) * st
        /\ (q * st) * portions[d] = (q * portions[d]) * st
        /\ q * prev[d] \in Nat /\ q * portions[d] \in Nat
        /\ (q * prev[d]) * st \in Nat /\ (q * portions[d]) * st \in Nat
    BY <1>2, <2>1, SMT
  <2>4. /\ Lower(d) = original.lower + (q * prev[d]) * st
        /\ Upper(d) = Lower(d) + (q * portions[d]) * st
    BY <1>2, <2>2, <2>3 DEF Lower, Upper
  <2>5. DeviceValues(d) = {Lower(d) + j * st : j \in 0..(q * portions[d] - 1)}
    <3>1. Lower(d) \in Nat
      BY <1>2, <2>3, <2>4
    <3>2. PICK m : m = q * portions[d]
      OBVIOUS
    <3>3. m \in Nat /\ Upper(d) = Lower(d) + m * original.stride
      BY <2>3, <2>4, <3>2 DEF st
    <3>4. DeviceValues(d) = {Lower(d) + j * original.stride : j \in 0..(m - 1)}
      BY <1>2, <3>1, <3>3, ExactValues DEF DeviceValues, st
    <3> QED
      BY <3>2, <3>4 DEF st
  <2>6. q * prev[d] + q * portions[d] <= q * sum
    <3>1. q * prev[d] + q * portions[d] = q * (prev[d] + portions[d])
      BY <2>1, SMT
    <3>2. q * (prev[d] + portions[d]) <= q * sum
      BY <1>1, <2>1, SMT
    <3> QED
      BY <3>1, <3>2
  <2> QED
    BY <2>3, <2>4, <2>5, <2>6
<1>8. ASSUME NEW a \in Nat, NEW b \in Nat
      PROVE  /\ original.lower + (a + b) * st = original.lower + a * st + b * st
             /\ a + b \in Nat
  <2>1. (a + b) * st = a * st + b * st /\ a * st \in Nat /\ b * st \in Nat
    BY <1>2, SMT
  <2> QED
    BY <1>2, <2>1
<1>9. ASSUME NEW d \in Device, NEW i \in DeviceValues(d)
      PROVE  i \in LoopValues
  <2>1. PICK j \in 0..(q * portions[d] - 1) :
          i = original.lower + (q * prev[d]) * st + j * st
    BY <1>7
  <2>2. j \in Nat /\ q * prev[d] + j \in 0..(q * sum - 1)
    BY <1>4, <1>7, <2>1
  <2>3. i = original.lower + (q * prev[d] + j) * st
    BY <1>7, <1>8, <2>1, <2>2
  <2> QED
    BY <1>6, <2>2, <2>3
<1>10. ASSUME NEW i \in LoopValues
       PROVE  \E d \in Device : i \in DeviceValues(d)
  <2>1. PICK t \in 0..(q * sum - 1) : i = original.lower + t * st
    BY <1>6
  <2>2. t \in Nat /\ t < q * sum /\ q \in Nat \ {0}
    <3>1. t \in Nat /\ t < q * sum
      BY <1>4, <2>1
    <3>2. q # 0
      BY <1>1, <3>1, SMT
    <3> QED
      BY <3>1, <3>2
  <2> DEFINE j == t \div q
  <2>3. j \in Nat /\ q * j <= t /\ t < q * (j + 1)
    BY <2>2, Quotient
  <2> HIDE DEF j
  <2>4. j < sum
    <3>1. q * j \in Nat
      BY <2>3, SMT
    <3>2. q * j < q * sum
      BY <1>4, <2>2, <2>3, <3>1
    <3> QED
      BY <1>1, <2>2, <2>3, <3>2, SMT
  <2>5. PICK d \in Device : prev[d] <= j /\ j < prev[d] + portions[d]
    BY <1>1, <2>3, <2>4 DEF Covered
  <2>6. prev[d] \in Nat /\ portions[d] \in Nat
    BY <1>1
  <2>7. \A x, y \in Nat : x <= y => q * x <= q * y
    BY SMT
  <2>8. q * prev[d] <= q * j /\ q * (j + 1) <= q * (prev[d] + portions[d])
    <3>1. j + 1 \in Nat /\ prev[d] + portions[d] \in Nat /\ j + 1 <= prev[d] + portions[d]
      BY <2>3, <2>5, <2>6
    <3>2. q * prev[d] <= q * j
      BY <2>3, <2>5, <2>6, <2>7
    <3> QED
      BY <2>7, <3>1, <3>2
  <2>9. /\ q * (prev[d] + portions[d]) = q * prev[d] + q * portions[d]
        /\ q * j \in Nat /\ q * (j + 1) \in Nat
    BY <2>3, <2>6, SMT
  <2>10. q * prev[d] \in Nat /\ q * portions[d] \in Nat
    BY <1>7
  <2>11. PICK u \in 0..(q * portions[d] - 1) : t = q * prev[d] + u
    <3>1. t - q * prev[d] \in 0..(q * portions[d] - 1)
      BY <2>2, <2>3, <2>8, <2>9, <2>10
    <3>2. t = q * prev[d] + (t - q * prev[d])
      BY <2>2, <2>10
    <3> QED
      BY <3>1, <3>2
  <2>12. u \in Nat
    BY <2>10, <2>11
  <2>13. original.lower + (q * prev[d] + u) * st
           = original.lower + (q * prev[d]) * st + u * st
    BY <1>8, <2>10, <2>12
  <2>14. i = original.lower + (q * prev[d]) * st + u * st
    BY <2>1, <2>11, <2>13
  <2> QED
    BY <1>7, <2>11, <2>14
<1> QED
  BY <1>9, <1>10 DEF EveryIterationIsRun

(* The offsets and the parts, when the sum shares the array without a rest.*)
LEMMA ExactParts ==
  ASSUME SumInv, Summed, n # 0, n % sum = 0
  PROVE  OffsetsMatchParts /\ LaunchesFindTheirData
<1>s. /\ sum \in Nat \ {0} /\ n \in Nat
      /\ \A d \in Device : prev[d] \in Nat /\ portions[d] \in Nat
  BY SumsWhenSummed
<1>z. ElementSize \in Nat \ {0}
  BY ElementSizeAssumption
<1>m. PICK m \in Nat \ {0} : n = m * sum
  <2>1. n \div sum \in Nat /\ n = (n \div sum) * sum
    BY <1>s, DivisibleQuotient
  <2>2. n \div sum # 0
    BY <1>s, <2>1
  <2> QED
    BY <2>1, <2>2
<1>1. \A d \in Device : Share(n, prev[d]) = m * prev[d] /\ Share(n, portions[d]) = m * portions[d]
  BY <1>s, <1>m, ExactShare
<1>b. m * ElementSize \in Nat \ {0} /\ Bytes = (m * ElementSize) * sum
  BY <1>s, <1>z, <1>m, SMT DEF Bytes
<1>2. \A d \in Device : /\ PartStart(d) = (m * ElementSize) * prev[d]
                        /\ PartSize(d) = (m * ElementSize) * portions[d]
  BY <1>s, <1>b, ExactShare DEF PartStart, PartSize
<1>4. OffsetsMatchParts
  <2> SUFFICES ASSUME NEW d \in Device
               PROVE  PartStart(d) = Offset(d) * ElementSize
    BY DEF OffsetsMatchParts
  <2>1. (m * ElementSize) * prev[d] = (m * prev[d]) * ElementSize
    BY <1>s, <1>z, <1>m, SMT
  <2> QED
    BY <1>1, <1>2, <2>1 DEF Offset
<1>5. LaunchesFindTheirData
  <2> SUFFICES ASSUME NEW d \in Device, portions[d] # 0
               PROVE  PartSize(d) > 0
    BY DEF LaunchesFindTheirData, Launched, Transferred
  <2>1. portions[d] \in Nat \ {0}
    BY <1>s
  <2>2. \A p, q \in Nat \ {0} : p * q > 0
    BY SMT
  <2> QED
    BY <1>2, <1>b, <2>1, <2>2
<1> QED
  BY <1>4, <1>5

LEMMA ExactSplits == SumInv /\ Covered => EvenSplitsAreExact
BY ExactIterations, ExactParts DEF EvenSplitsAreExact

(* For any number of devices and any portions: where the sum of the        *)
(* portions times the stride divides the length of the loop, the devices   *)
(* run its iterations and nothing else, and where the sum divides the      *)
(* array, a part starts where the offset says and every launched device    *)
(* has one (internal/kernel.c, private/kernel.c, private/memory.c).        *)
THEOREM EvenSplitsAreAlwaysExact == DistributionSpec => []EvenSplitsAreExact
<1>1. DistributionInit => Covered
  BY DEF DistributionInit, Covered
<1> QED
  BY <1>1, SumInvHolds, AccumulateKeepsCovered, ExactSplits, PTL DEF DistributionSpec

-----------------------------------------------------------------------------
(* Blocks of numbers.                                                      *)
LEMMA ExactQuotient ==
  ASSUME NEW m \in Nat \ {0}, NEW s \in Nat \ {0}
  PROVE  /\ m * s \in Nat \ {0}
         /\ (m * s) \div s = m /\ (m * s) \div m = s
         /\ ((m * s) + s - 1) \div s = m
<1>1. m * s \in Nat \ {0} /\ (m * s) + s - 1 \in Nat
  BY SMT
<1>2. ASSUME NEW a \in Nat, s * m <= a, a < s * (m + 1) PROVE a \div s = m
  <2> DEFINE q == a \div s
  <2>1. q \in Nat /\ s * q <= a /\ a < s * (q + 1)
    BY Quotient
  <2> HIDE DEF q
  <2>2. s * m \in Nat /\ s * q \in Nat /\ s * (m + 1) \in Nat /\ s * (q + 1) \in Nat
    BY <2>1, SMT
  <2>3. s * m < s * (q + 1) /\ s * q < s * (m + 1)
    BY <1>2, <2>1, <2>2
  <2>4. m <= q /\ q <= m
    BY <2>1, <2>3, Multiples
  <2> QED  BY <2>1, <2>4 DEF q
<1>3. s * m = m * s /\ s * (m + 1) = (m * s) + s
  BY SMT
<1>4. (m * s) \div s = m
  BY <1>1, <1>2, <1>3
<1>5. ((m * s) + s - 1) \div s = m
  BY <1>1, <1>2, <1>3
<1>6. (m * s) \div m = s
  <2> DEFINE q == (m * s) \div m
  <2>1. q \in Nat /\ m * q <= m * s /\ m * s < m * (q + 1)
    BY <1>1, Quotient
  <2> HIDE DEF q
  <2>2. m * s < m * (s + 1) /\ m * q \in Nat /\ m * (s + 1) \in Nat
    BY <2>1, SMT
  <2>3. m * q < m * (s + 1)
    BY <1>1, <2>1, <2>2
  <2>4. q <= s /\ s <= q
    BY <2>1, <2>3, Multiples
  <2> QED  BY <2>1, <2>4 DEF q
<1> QED  BY <1>1, <1>4, <1>5, <1>6

(* size iterations from a on.                                              *)
Block(a, size) == {a + i * loop.stride : i \in 0..(size - 1)}

(* A block is divided into m blocks of c iterations.                       *)
LEMMA BlocksCover ==
  ASSUME loop.stride \in Nat \ {0}, NEW a \in Nat, NEW m \in Nat \ {0}, NEW c \in Nat \ {0},
         NEW x \in Block(a, m * c)
  PROVE  \E i \in 0..(m - 1) : x \in Block(a + i * (c * loop.stride), c)
<1> DEFINE r == loop.stride
<1>0. m * c \in Nat
  BY SMT
<1>1. PICK j \in 0..((m * c) - 1) : x = a + j * r
  BY DEF Block
<1>2. j \in Nat /\ j < m * c
  BY <1>0, <1>1
<1> DEFINE i == j \div c
<1>3. i \in Nat /\ c * i <= j /\ j < c * (i + 1)
  BY <1>2, Quotient
<1> HIDE DEF i, r
<1>4. c * i \in Nat /\ c * m \in Nat /\ c * (i + 1) = c * i + c /\ c * m = m * c
  BY <1>3, SMT
<1>5. i \in 0..(m - 1)
  <2>1. c * i < c * m
    BY <1>2, <1>3, <1>4
  <2>2. m - 1 \in Nat /\ c * m = c * ((m - 1) + 1)
    OBVIOUS
  <2>3. i <= m - 1
    BY <1>3, <2>1, <2>2, Multiples
  <2> QED  BY <1>3, <2>3
<1>6. PICK d : d = j - c * i
  OBVIOUS
<1>7. d \in 0..(c - 1) /\ j = c * i + d
  BY <1>2, <1>3, <1>4, <1>6
<1>8. r \in Nat
  BY DEF r
<1>9. a + j * r = (a + i * (c * r)) + d * r
  <2>1. (c * i + d) * r = i * (c * r) + d * r
    BY <1>3, <1>7, <1>8, SMT
  <2>2. i * (c * r) \in Nat /\ d * r \in Nat
    BY <1>3, <1>7, <1>8, SMT
  <2> QED  BY <1>7, <2>1, <2>2
<1> QED  BY <1>1, <1>5, <1>7, <1>9 DEF Block, r

LEMMA BlocksFit ==
  ASSUME loop.stride \in Nat \ {0}, NEW a \in Nat, NEW m \in Nat \ {0}, NEW c \in Nat \ {0},
         NEW i \in 0..(m - 1), NEW x \in Block(a + i * (c * loop.stride), c)
  PROVE  x \in Block(a, m * c)
<1> DEFINE r == loop.stride
<1>1. PICK d \in 0..(c - 1) : x = (a + i * (c * r)) + d * r
  BY DEF Block
<1>2. r \in Nat
  OBVIOUS
<1> HIDE DEF r
<1>3. PICK j : j = i * c + d
  OBVIOUS
<1>4. j \in 0..((m * c) - 1)
  <2>1. i * c \in Nat /\ (m - 1) * c \in Nat /\ (m - 1) * c = m * c - c /\ m * c \in Nat
    BY SMT
  <2>2. i * c <= (m - 1) * c
    BY SMT
  <2> QED  BY <1>1, <1>3, <2>1, <2>2
<1>5. x = a + j * r
  <2>1. (i * c + d) * r = i * (c * r) + d * r
    BY <1>1, <1>2, SMT
  <2>2. i * (c * r) \in Nat /\ d * r \in Nat
    BY <1>1, <1>2, SMT
  <2> QED  BY <1>1, <1>3, <2>1, <2>2
<1> QED  BY <1>4, <1>5 DEF Block, r

LEMMA BlocksAreDisjoint ==
  ASSUME loop.stride \in Nat \ {0}, NEW a \in Nat, NEW c \in Nat \ {0},
         NEW i \in Nat, NEW j \in Nat,
         NEW x \in Block(a + i * (c * loop.stride), c),
         x \in Block(a + j * (c * loop.stride), c)
  PROVE  i = j
<1> DEFINE r == loop.stride
           w == c * r
<1>1. PICK d \in 0..(c - 1) : x = (a + i * w) + d * r
  BY DEF Block
<1>2. PICK e \in 0..(c - 1) : x = (a + j * w) + e * r
  BY DEF Block
<1>3. r \in Nat \ {0}
  OBVIOUS
<1> HIDE DEF r
<1>4. w \in Nat \ {0} /\ d * r \in Nat /\ e * r \in Nat /\ i * w \in Nat /\ j * w \in Nat
  BY <1>1, <1>2, <1>3, SMT
<1>5. d * r < w /\ e * r < w
  <2>1. (c - 1) * r < c * r /\ (c - 1) * r \in Nat
    BY <1>3, SMT
  <2>2. d * r <= (c - 1) * r /\ e * r <= (c - 1) * r
    BY <1>1, <1>2, <1>3, SMT
  <2> QED  BY <1>4, <2>1, <2>2
<1> HIDE DEF w
<1>6. w * i = i * w /\ w * j = j * w /\ w * (i + 1) = i * w + w /\ w * (j + 1) = j * w + w
  BY <1>4, SMT
<1>7. i * w + d * r = j * w + e * r
  <2>1. \A p, q, s, t \in Nat : (a + p) + q = (a + s) + t => p + q = s + t
    OBVIOUS
  <2>2. (a + i * w) + d * r = (a + j * w) + e * r
    BY <1>1, <1>2
  <2> QED  BY <1>4, <2>1, <2>2
<1>8. w * i < w * (j + 1) /\ w * j < w * (i + 1)
  BY <1>4, <1>5, <1>6, <1>7
<1>9. i <= j /\ j <= i
  BY <1>4, <1>8, Multiples
<1> QED  BY <1>9

-----------------------------------------------------------------------------
(* The tiles of a version that divides the loop evenly: m iterations each, *)
(* of blocks of c iterations of the loop.                                  *)
LEMMA TileIs == Tile = 0..6 /\ FillingTile = {0, 2, 4, 6}
BY DEF Tile, FillingTile, e_tile_0, e_tile_1, e_tile_2, e_tile_3

LEMMA InnerLengths ==
  ASSUME NEW nbr_it
  PROVE  \A t \in 0..6 : InnerLength(nbr_it)[t] =
           nbr_it[t] * (IF t = 6 THEN loop.stride ELSE InnerLength(nbr_it)[t + 1])
<1> DEFINE Of(f) == [t \in Tile |-> nbr_it[t] * (IF t = e_tile_3 THEN loop.stride ELSE f[t + 1])]
           f6 == nbr_it[6] * loop.stride
           f5 == nbr_it[5] * f6
           f4 == nbr_it[4] * f5
           f3 == nbr_it[3] * f4
           f2 == nbr_it[2] * f3
           f1 == nbr_it[1] * f2
           f0 == nbr_it[0] * f1
           g == [t \in 0..6 |-> IF t = 6 THEN f6 ELSE IF t = 5 THEN f5 ELSE IF t = 4 THEN f4
                  ELSE IF t = 3 THEN f3 ELSE IF t = 2 THEN f2 ELSE IF t = 1 THEN f1 ELSE f0]
<1>1. /\ g[6] = f6 /\ g[5] = f5 /\ g[4] = f4 /\ g[3] = f3 /\ g[2] = f2 /\ g[1] = f1 /\ g[0] = f0
      /\ DOMAIN g = 0..6 /\ g = [t \in 0..6 |-> g[t]]
  OBVIOUS
<1> HIDE DEF g
<1>2. \A t \in 0..6 : g[t] = nbr_it[t] * (IF t = 6 THEN loop.stride ELSE g[t + 1])
  <2>1. \A t \in 0..6 : t = 0 \/ t = 1 \/ t = 2 \/ t = 3 \/ t = 4 \/ t = 5 \/ t = 6
    OBVIOUS
  <2>2. 0 + 1 = 1 /\ 1 + 1 = 2 /\ 2 + 1 = 3 /\ 3 + 1 = 4 /\ 4 + 1 = 5 /\ 5 + 1 = 6
    OBVIOUS
  <2>3. /\ g[6] = nbr_it[6] * loop.stride /\ g[5] = nbr_it[5] * g[6]
        /\ g[4] = nbr_it[4] * g[5] /\ g[3] = nbr_it[3] * g[4] /\ g[2] = nbr_it[2] * g[3]
        /\ g[1] = nbr_it[1] * g[2] /\ g[0] = nbr_it[0] * g[1]
    BY <1>1
  <2> QED  BY <2>1, <2>2, <2>3
<1>3. g = Of(g)
  BY <1>1, <1>2, TileIs DEF e_tile_3
<1> DEFINE h == CHOOSE f : f = Of(f)
<1>4. h = Of(h)
  BY <1>3
<1>5. InnerLength(nbr_it) = h
  BY DEF InnerLength
<1> HIDE DEF h
<1>6. \A t \in 0..6 : h[t] = nbr_it[t] * (IF t = 6 THEN loop.stride ELSE h[t + 1])
  BY <1>4, TileIs DEF e_tile_3
<1> QED  BY <1>5, <1>6

LEMMA OuterStrides ==
  ASSUME NEW nbr_it
  PROVE  \A t \in 0..6 : OuterStride(nbr_it)[t] =
           (IF t = 0 THEN loop.length ELSE OuterStride(nbr_it)[t - 1]) \div nbr_it[t]
<1> DEFINE Of(f) == [t \in Tile |->
                       (IF t = e_tile_0 THEN loop.length ELSE f[t - 1]) \div nbr_it[t]]
           f0 == loop.length \div nbr_it[0]
           f1 == f0 \div nbr_it[1]
           f2 == f1 \div nbr_it[2]
           f3 == f2 \div nbr_it[3]
           f4 == f3 \div nbr_it[4]
           f5 == f4 \div nbr_it[5]
           f6 == f5 \div nbr_it[6]
           g == [t \in 0..6 |-> IF t = 6 THEN f6 ELSE IF t = 5 THEN f5 ELSE IF t = 4 THEN f4
                  ELSE IF t = 3 THEN f3 ELSE IF t = 2 THEN f2 ELSE IF t = 1 THEN f1 ELSE f0]
<1>1. /\ g[6] = f6 /\ g[5] = f5 /\ g[4] = f4 /\ g[3] = f3 /\ g[2] = f2 /\ g[1] = f1 /\ g[0] = f0
      /\ DOMAIN g = 0..6 /\ g = [t \in 0..6 |-> g[t]]
  OBVIOUS
<1> HIDE DEF g
<1>2. \A t \in 0..6 : g[t] = (IF t = 0 THEN loop.length ELSE g[t - 1]) \div nbr_it[t]
  <2>1. \A t \in 0..6 : t = 0 \/ t = 1 \/ t = 2 \/ t = 3 \/ t = 4 \/ t = 5 \/ t = 6
    OBVIOUS
  <2>2. 1 - 1 = 0 /\ 2 - 1 = 1 /\ 3 - 1 = 2 /\ 4 - 1 = 3 /\ 5 - 1 = 4 /\ 6 - 1 = 5
    OBVIOUS
  <2>3. /\ g[0] = loop.length \div nbr_it[0] /\ g[1] = g[0] \div nbr_it[1]
        /\ g[2] = g[1] \div nbr_it[2] /\ g[3] = g[2] \div nbr_it[3] /\ g[4] = g[3] \div nbr_it[4]
        /\ g[5] = g[4] \div nbr_it[5] /\ g[6] = g[5] \div nbr_it[6]
    BY <1>1
  <2> QED  BY <2>1, <2>2, <2>3
<1>3. g = Of(g)
  BY <1>1, <1>2, TileIs DEF e_tile_0
<1> DEFINE h == CHOOSE f : f = Of(f)
<1>4. h = Of(h)
  BY <1>3
<1>5. OuterStride(nbr_it) = h
  BY DEF OuterStride
<1> HIDE DEF h
<1>6. \A t \in 0..6 : h[t] = (IF t = 0 THEN loop.length ELSE h[t - 1]) \div nbr_it[t]
  BY <1>4, TileIs DEF e_tile_0
<1> QED  BY <1>5, <1>6

(* The sizes of the blocks.                                                *)
IsSizes(c, m) ==
  /\ c \in [0..6 -> Nat \ {0}]
  /\ c[6] = 1
  /\ \A t \in 0..5 : c[t] = m[t + 1] * c[t + 1]

LEMMA SizesExist ==
  ASSUME NEW m \in [0..6 -> Nat \ {0}]
  PROVE  \E c : IsSizes(c, m)
<1>0. \A x, y \in Nat \ {0} : x * y \in Nat \ {0}
  BY SMT
<1>1. PICK c5 \in Nat \ {0} : c5 = m[6] * 1
  OBVIOUS
<1>2. PICK c4 \in Nat \ {0} : c4 = m[5] * c5
  BY <1>0
<1>3. PICK c3 \in Nat \ {0} : c3 = m[4] * c4
  BY <1>0
<1>4. PICK c2 \in Nat \ {0} : c2 = m[3] * c3
  BY <1>0
<1>5. PICK c1 \in Nat \ {0} : c1 = m[2] * c2
  BY <1>0
<1>6. PICK c0 \in Nat \ {0} : c0 = m[1] * c1
  BY <1>0
<1> DEFINE c == [t \in 0..6 |-> IF t = 6 THEN 1 ELSE IF t = 5 THEN c5 ELSE IF t = 4 THEN c4
                   ELSE IF t = 3 THEN c3 ELSE IF t = 2 THEN c2 ELSE IF t = 1 THEN c1 ELSE c0]
<1>7. /\ c[6] = 1 /\ c[5] = c5 /\ c[4] = c4 /\ c[3] = c3 /\ c[2] = c2 /\ c[1] = c1 /\ c[0] = c0
      /\ c \in [0..6 -> Nat \ {0}]
  OBVIOUS
<1> HIDE DEF c
<1>8. \A t \in 0..5 : c[t] = m[t + 1] * c[t + 1]
  <2>1. \A t \in 0..5 : t = 0 \/ t = 1 \/ t = 2 \/ t = 3 \/ t = 4 \/ t = 5
    OBVIOUS
  <2>2. 0 + 1 = 1 /\ 1 + 1 = 2 /\ 2 + 1 = 3 /\ 3 + 1 = 4 /\ 4 + 1 = 5 /\ 5 + 1 = 6
    OBVIOUS
  <2>3. /\ c[5] = m[6] * c[6] /\ c[4] = m[5] * c[5] /\ c[3] = m[4] * c[4]
        /\ c[2] = m[3] * c[3] /\ c[1] = m[2] * c[2] /\ c[0] = m[1] * c[1]
    BY <1>1, <1>2, <1>3, <1>4, <1>5, <1>6, <1>7
  <2> QED  BY <2>1, <2>2, <2>3
<1> QED  BY <1>7, <1>8 DEF IsSizes

(* What holds for a tile and with the next one for each before it.         *)
LEMMA TilesBefore ==
  ASSUME NEW T, NEW d \in 0..6, d \in T, \A t \in 0..5 : t < d /\ t + 1 \in T => t \in T
  PROVE  \A t \in 0..d : t \in T
<1>1. d = 0 \/ d = 1 \/ d = 2 \/ d = 3 \/ d = 4 \/ d = 5 \/ d = 6
  OBVIOUS
<1>2. /\ 5 < d => (6 \in T => 5 \in T)
      /\ 4 < d => (5 \in T => 4 \in T)
      /\ 3 < d => (4 \in T => 3 \in T)
      /\ 2 < d => (3 \in T => 2 \in T)
      /\ 1 < d => (2 \in T => 1 \in T)
      /\ 0 < d => (1 \in T => 0 \in T)
  OBVIOUS
<1>3. \A t \in 0..d : t = 0 \/ t = 1 \/ t = 2 \/ t = 3 \/ t = 4 \/ t = 5 \/ t = 6
  OBVIOUS
<1> QED  BY <1>1, <1>2, <1>3

LEMMA TilesBehind ==
  ASSUME NEW T, NEW d \in 0..6, 0 \in T, \A t \in 1..6 : t < d /\ t - 1 \in T => t \in T
  PROVE  \A t \in 0..6 : t < d => t \in T
<1>1. /\ 1 < d => 1 \in T
      /\ 2 < d => (1 \in T => 2 \in T)
      /\ 3 < d => (2 \in T => 3 \in T)
      /\ 4 < d => (3 \in T => 4 \in T)
      /\ 5 < d => (4 \in T => 5 \in T)
  OBVIOUS
<1>2. \A t \in 0..6 : t = 0 \/ t = 1 \/ t = 2 \/ t = 3 \/ t = 4 \/ t = 5 \/ t = 6
  OBVIOUS
<1> QED  BY <1>1, <1>2

(* The loop, the launch and the versions, which no step changes.           *)
Inputs ==
  /\ loop \in [lower : Nat, length : Nat, stride : Nat \ {0}]
  /\ context \in [num_gang : Nat \ {0}, num_worker : Nat \ {0}, vector_length : Nat \ {0}]
  /\ versions \in Seq(Version)
  /\ \A v \in {versions[i] : i \in Matching} : Even(v) /\ ForLaunch(v)

LEMMA InitInputs == EvenInit => Inputs
<1> SUFFICES ASSUME EvenInit PROVE Inputs
  OBVIOUS
<1>1. loop \in [lower : Nat, length : Nat, stride : Nat \ {0}]
  BY LoopsAssumption DEF EvenInit, Init
<1>2. context \in [num_gang : Nat \ {0}, num_worker : Nat \ {0}, vector_length : Nat \ {0}]
  BY LaunchesAssumption DEF EvenInit, Init
<1>3. versions \in Seq(Version)
  BY VersionsAssumption DEF EvenInit, Init
<1> QED  BY <1>1, <1>2, <1>3 DEF EvenInit, Inputs

LEMMA InputsStay ==
  ASSUME Inputs, UNCHANGED inputVars
  PROVE  Inputs' /\ Matching' = Matching
<1>1. versions' = versions /\ loop' = loop /\ context' = context
  BY DEF inputVars
<1>2. Matching' = Matching
  BY <1>1 DEF Matching, version_match
<1>3. {versions[i] : i \in Matching}' = {versions[i] : i \in Matching}
  BY <1>1, <1>2
<1>4. \A v : Even(v)' = Even(v)
  BY <1>1 DEF Even, Counts, DynamicTiles, InnerLength
<1>5. \A v : ForLaunch(v)' = ForLaunch(v)
  BY <1>1 DEF ForLaunch, Counts, DynamicTiles
<1>6. (\A v \in {versions[i] : i \in Matching} : Even(v) /\ ForLaunch(v))'
  BY <1>3, <1>4, <1>5 DEF Inputs
<1> QED  BY <1>1, <1>2, <1>6 DEF Inputs

LEMMA SolutionsStay ==
  ASSUME loop' = loop, context' = context, NEW v
  PROVE  Score(v)' = Score(v) /\ Solve(v)' = Solve(v)
<1>1. Score(v)' = Score(v)
  BY DEF Score
<1>2. Solve(v)' = Solve(v)
  BY DEF Counts, DynamicTiles, InnerLength, Solve, OuterStride, MiddleTile, InnerTile, OuterTile,
         solve_no_dynamic, solve_one_dynamic, OuterLength
<1> QED  BY <1>1, <1>2

LEMMA CountsFacts ==
  ASSUME Inputs, NEW v \in Version
  PROVE  /\ Counts(v) \in [0..6 -> Nat]
         /\ DynamicTiles(v) \subseteq {0, 2, 4, 6}
         /\ \A t \in 0..6 : t \notin DynamicTiles(v) => Counts(v)[t] # 0
<1>1. v.num_iterations \in [0..6 -> Nat]
  BY TileIs DEF Version
<1>2. \A t \in 0..6 : Counts(v)[t] =
        IF t = 1 THEN (IF v.num_iterations[1] = 0 THEN context.num_gang ELSE v.num_iterations[1])
        ELSE IF t = 3 THEN (IF v.num_iterations[3] = 0 THEN context.num_worker ELSE v.num_iterations[3])
        ELSE IF t = 5 THEN (IF v.num_iterations[5] = 0 THEN context.vector_length ELSE v.num_iterations[5])
        ELSE v.num_iterations[t]
  BY <1>1 DEF Counts, e_gang, e_worker, e_vector
<1>3. Counts(v) \in [0..6 -> Nat]
  BY <1>1 DEF Counts, e_gang, e_worker, e_vector, Inputs
<1>4. DynamicTiles(v) = {t \in {0, 2, 4, 6} : v.num_iterations[t] = 0}
  BY TileIs DEF DynamicTiles
<1>5. \A t \in 0..6 : t \notin DynamicTiles(v) => Counts(v)[t] # 0
  <2>1. \A t \in 0..6 : t \in {0, 2, 4, 6} \/ t = 1 \/ t = 3 \/ t = 5
    OBVIOUS
  <2>2. Counts(v)[1] # 0 /\ Counts(v)[3] # 0 /\ Counts(v)[5] # 0
    BY <1>1, <1>2 DEF Inputs
  <2>3. \A t \in {0, 2, 4, 6} : Counts(v)[t] = v.num_iterations[t]
    BY <1>2
  <2> QED  BY <1>4, <2>1, <2>2, <2>3
<1> QED  BY <1>3, <1>4, <1>5

(* Lengths are multiples of the block where the counts are those of m.     *)
LEMMA InnerNest ==
  ASSUME Inputs, NEW m \in [0..6 -> Nat \ {0}], NEW c, IsSizes(c, m),
         NEW nbr_it, NEW e \in 0..7, \A t \in 0..6 : t >= e => nbr_it[t] = m[t]
  PROVE  /\ \A t \in 0..6 : t >= e => InnerLength(nbr_it)[t] = (m[t] * c[t]) * loop.stride
         /\ \A t \in 0..6 : t + 1 >= e => InnerTile(nbr_it, t).stride = c[t] * loop.stride
<1> DEFINE r == loop.stride
           L == InnerLength(nbr_it)
           T == {t \in 0..6 : t >= e => L[t] = (m[t] * c[t]) * r}
<1>1. \A t \in 0..6 : L[t] = nbr_it[t] * (IF t = 6 THEN r ELSE L[t + 1])
  BY InnerLengths
<1>2. r \in Nat /\ c \in [0..6 -> Nat \ {0}] /\ c[6] = 1 /\ \A t \in 0..5 : c[t] = m[t + 1] * c[t + 1]
  BY DEF Inputs, IsSizes
<1>i. InnerTile(nbr_it, 6).stride = r /\ \A t \in 0..5 : InnerTile(nbr_it, t).stride = L[t + 1]
  BY DEF InnerTile, e_tile_3
<1> HIDE DEF r, L
<1>3. \A x, y, z \in Nat : x * (y * z) = (x * y) * z /\ x * 1 = x /\ 1 * x = x
  BY SMT
<1>4. 6 \in T
  BY <1>1, <1>2, <1>3
<1>5. ASSUME NEW t \in 0..5, t + 1 \in T PROVE t \in T
  <2>1. CASE t >= e
    <3>1. t + 1 >= e /\ t # 6 /\ t + 1 \in 0..6 /\ t \in 0..6
      BY <2>1
    <3>2. L[t] = m[t] * ((m[t + 1] * c[t + 1]) * r)
      BY <1>1, <1>5, <2>1, <3>1
    <3>3. L[t] = m[t] * (c[t] * r)
      BY <1>2, <3>2
    <3> QED  BY <1>2, <1>3, <3>1, <3>3
  <2>2. CASE ~(t >= e)
    BY <2>2
  <2> QED  BY <2>1, <2>2
<1>6. \A t \in 0..6 : t \in T
  BY <1>4, <1>5, TilesBefore
<1>7. ASSUME NEW t \in 0..6, t + 1 >= e PROVE InnerTile(nbr_it, t).stride = c[t] * r
  <2>1. CASE t = 6
    BY <1>2, <1>3, <1>i, <2>1
  <2>2. CASE t # 6
    <3>1. t \in 0..5 /\ t + 1 \in 0..6
      BY <2>2
    <3> QED  BY <1>2, <1>6, <1>7, <1>i, <3>1
  <2> QED  BY <2>1, <2>2
<1> QED  BY <1>6, <1>7 DEF r, L

(* ... and strides where the tiles before have those of m.                 *)
LEMMA OuterNest ==
  ASSUME Inputs, NEW m \in [0..6 -> Nat \ {0}], NEW c, IsSizes(c, m),
         loop.length = (m[0] * c[0]) * loop.stride,
         NEW nbr_it, NEW d \in 0..6, \A t \in 0..6 : t < d => nbr_it[t] = m[t]
  PROVE  /\ \A t \in 0..6 : t < d => OuterStride(nbr_it)[t] = c[t] * loop.stride
         /\ \A t \in 0..6 : t <= d => OuterLength(nbr_it, t) = (m[t] * c[t]) * loop.stride
<1> DEFINE r == loop.stride
           S == OuterStride(nbr_it)
           T == {t \in 0..6 : t < d => S[t] = c[t] * r}
<1>1. \A t \in 0..6 : S[t] = (IF t = 0 THEN loop.length ELSE S[t - 1]) \div nbr_it[t]
  BY OuterStrides
<1>2. /\ r \in Nat \ {0} /\ c \in [0..6 -> Nat \ {0}]
      /\ \A t \in 0..5 : c[t] = m[t + 1] * c[t + 1]
  BY DEF Inputs, IsSizes
<1>o. \A t \in 0..6 : OuterLength(nbr_it, t) = IF t = 0 THEN loop.length ELSE S[t - 1]
  BY DEF OuterLength, e_tile_0
<1>l. loop.length = (m[0] * c[0]) * r
  OBVIOUS
<1> HIDE DEF r, S
<1>3. ASSUME NEW t \in 0..6 PROVE ((m[t] * c[t]) * r) \div m[t] = c[t] * r
  <2>1. c[t] * r \in Nat \ {0} /\ (m[t] * c[t]) * r = m[t] * (c[t] * r)
    BY <1>2, SMT
  <2>2. \A x, y \in Nat \ {0} : (x * y) \div x = y
    BY ExactQuotient
  <2> QED  BY <2>1, <2>2
<1>4. ASSUME NEW t \in 1..6 PROVE c[t - 1] = m[t] * c[t]
  <2>1. t - 1 \in 0..5 /\ (t - 1) + 1 = t
    OBVIOUS
  <2> QED  BY <1>2, <2>1
<1>5. 0 \in T
  <2>1. 0 < d => S[0] = ((m[0] * c[0]) * r) \div m[0]
    BY <1>1, <1>l
  <2> QED  BY <1>3, <2>1
<1>6. ASSUME NEW t \in 1..6, t < d, t - 1 \in T PROVE t \in T
  <2>1. S[t - 1] = c[t - 1] * r
    BY <1>6
  <2>2. S[t] = (c[t - 1] * r) \div m[t]
    BY <1>1, <1>6, <2>1
  <2>3. S[t] = ((m[t] * c[t]) * r) \div m[t]
    BY <1>4, <2>2
  <2>4. S[t] = c[t] * r
    BY <1>3, <2>3
  <2> QED  BY <2>4
<1>7. \A t \in 0..6 : t < d => t \in T
  BY <1>5, <1>6, TilesBehind
<1>8. ASSUME NEW t \in 0..6, t <= d PROVE OuterLength(nbr_it, t) = (m[t] * c[t]) * r
  <2>1. CASE t = 0
    BY <1>l, <1>o, <2>1
  <2>2. CASE t # 0
    <3>1. t \in 1..6 /\ t - 1 \in 0..6 /\ t - 1 < d
      BY <1>8, <2>2
    <3>2. S[t - 1] = c[t - 1] * r
      BY <1>7, <3>1
    <3> QED  BY <1>4, <1>o, <2>2, <3>1, <3>2
  <2> QED  BY <2>1, <2>2
<1> QED  BY <1>7, <1>8 DEF r, S

IsNest(tiles, m, c) ==
  /\ m \in [0..6 -> Nat \ {0}]
  /\ IsSizes(c, m)
  /\ loop.length = (m[0] * c[0]) * loop.stride
  /\ m[1] = context.num_gang /\ m[3] = context.num_worker
  /\ \A t \in 0..6 : /\ tiles[t].length = (m[t] * c[t]) * loop.stride
                     /\ tiles[t].nbr_it = m[t]
                     /\ tiles[t].stride = c[t] * loop.stride

LEMMA StaticNest ==
  ASSUME Inputs, NEW v \in Version, Even(v), ForLaunch(v), DynamicTiles(v) = {}
  PROVE  ~FailsAssertion(v) /\ \E m, c : IsNest(Solve(v), m, c)
<1> DEFINE nbr_it == Counts(v)
<1>1. nbr_it \in [0..6 -> Nat \ {0}]
  BY CountsFacts
<1>2. [t \in Tile |-> IF t \in DynamicTiles(v) THEN 1 ELSE nbr_it[t]] = nbr_it
  BY <1>1, TileIs
<1>3. loop.length = InnerLength(nbr_it)[0]
  BY <1>2 DEF Even, e_tile_0
<1>4. Solve(v) = [t \in 0..6 |-> InnerTile(nbr_it, t)]
  BY TileIs DEF Solve, solve_no_dynamic
<1>5. nbr_it[1] = context.num_gang /\ nbr_it[3] = context.num_worker
  BY DEF ForLaunch, e_gang, e_worker
<1>6. ~FailsAssertion(v)
  <2>1. Cardinality(DynamicTiles(v)) = 0
    BY FS_EmptySet
  <2> QED  BY <1>3, <2>1 DEF FailsAssertion, e_tile_0
<1>7. \A t : /\ InnerTile(nbr_it, t).length = InnerLength(nbr_it)[t]
             /\ InnerTile(nbr_it, t).nbr_it = nbr_it[t]
  BY DEF InnerTile
<1> HIDE DEF nbr_it
<1>8. PICK c : IsSizes(c, nbr_it)
  BY <1>1, SizesExist
<1>9. \A t \in 0..6 : /\ InnerLength(nbr_it)[t] = (nbr_it[t] * c[t]) * loop.stride
                      /\ InnerTile(nbr_it, t).stride = c[t] * loop.stride
  <2>1. 0 \in 0..7 /\ \A t \in 0..6 : t >= 0 /\ t + 1 >= 0
    OBVIOUS
  <2> QED  BY <1>1, <1>8, <2>1, InnerNest
<1>10. IsNest(Solve(v), nbr_it, c)
  BY <1>1, <1>3, <1>4, <1>5, <1>7, <1>8, <1>9 DEF IsNest
<1> QED  BY <1>6, <1>10

(* What is left of the loop for the dynamic tile.                          *)
LEMMA DynamicCount ==
  ASSUME Inputs, NEW v \in Version, Even(v), NEW d \in {0, 2, 4}, DynamicTiles(v) = {d}
  PROVE  \E m, c :
           /\ m \in [0..6 -> Nat \ {0}] /\ IsSizes(c, m)
           /\ \A t \in 0..6 : t # d => m[t] = Counts(v)[t]
           /\ loop.length = (m[0] * c[0]) * loop.stride
<1> DEFINE nbr_it == Counts(v)
           one == [t \in 0..6 |-> IF t = d THEN 1 ELSE nbr_it[t]]
           others == InnerLength(one)[0]
           r == loop.stride
<1>1. one \in [0..6 -> Nat \ {0}] /\ one[d] = 1 /\ \A t \in 0..6 : t # d => one[t] = nbr_it[t]
  BY CountsFacts
<1>2. [t \in Tile |-> IF t \in DynamicTiles(v) THEN 1 ELSE nbr_it[t]] = one
  BY TileIs
<1>3. loop.length # 0 /\ loop.length % others = 0
  BY <1>2 DEF Even, e_tile_0
<1>r. r \in Nat \ {0} /\ loop.length \in Nat
  BY DEF Inputs
<1> HIDE DEF one, nbr_it
<1>4. PICK a : IsSizes(a, one)
  BY <1>1, SizesExist
<1>5. others = (one[0] * a[0]) * r
  <2>1. 0 \in 0..7 /\ 0 >= 0 /\ \A t \in 0..6 : t >= 0
    OBVIOUS
  <2> QED  BY <1>1, <1>4, <2>1, InnerNest
<1>6. /\ a \in [0..6 -> Nat \ {0}] /\ a[6] = 1
      /\ \A t \in 0..5 : a[t] = one[t + 1] * a[t + 1]
  BY <1>4 DEF IsSizes
<1> HIDE DEF others, r
<1>7. others \in Nat \ {0}
  <2>1. \A x, y, z \in Nat \ {0} : (x * y) * z \in Nat \ {0}
    BY SMT
  <2> QED  BY <1>1, <1>5, <1>6, <1>r, <2>1
<1>8. PICK q \in Nat \ {0} : loop.length = q * others
  <2>1. PICK q \in Nat : loop.length = q * others
    BY <1>3, <1>7, <1>r, DivisibleQuotient
  <2>2. 0 * others = 0
    BY <1>7
  <2>3. q # 0
    BY <1>3, <2>1, <2>2
  <2> QED  BY <2>1, <2>3
<1> DEFINE m == [t \in 0..6 |-> IF t = d THEN q ELSE nbr_it[t]]
           c == [t \in 0..6 |-> IF t < d THEN q * a[t] ELSE a[t]]
<1>9. /\ m \in [0..6 -> Nat \ {0}] /\ m[d] = q
      /\ \A t \in 0..6 : t # d => m[t] = nbr_it[t] /\ m[t] = one[t]
  BY <1>1
<1>10. /\ c \in [0..6 -> Nat \ {0}]
       /\ \A t \in 0..6 : (t < d => c[t] = q * a[t]) /\ (t >= d => c[t] = a[t])
  <2>1. \A x, y \in Nat \ {0} : x * y \in Nat \ {0}
    BY SMT
  <2> QED  BY <1>6, <2>1
<1> HIDE DEF m, c
<1>11. \A x, y, z \in Nat : x * (y * z) = y * (x * z) /\ 1 * x = x /\ (x * y) * z = x * (y * z)
  BY SMT
<1>12. ASSUME NEW t \in 0..5 PROVE c[t] = m[t + 1] * c[t + 1]
  <2>0. t \in 0..6 /\ t + 1 \in 0..6
    OBVIOUS
  <2>1. CASE t + 1 < d
    <3>1. t < d /\ t + 1 # d
      BY <2>1
    <3>2. c[t] = q * (one[t + 1] * a[t + 1])
      BY <1>6, <1>10, <2>0, <3>1
    <3>3. m[t + 1] * c[t + 1] = one[t + 1] * (q * a[t + 1])
      BY <1>9, <1>10, <2>0, <2>1, <3>1
    <3> QED  BY <1>1, <1>6, <1>11, <2>0, <3>2, <3>3
  <2>2. CASE t + 1 = d
    <3>1. t < d /\ ~(t + 1 < d) /\ t + 1 >= d
      BY <2>2
    <3>2. a[t] = 1 * a[t + 1]
      BY <1>1, <1>6, <2>2
    <3>3. a[t] = a[t + 1]
      BY <1>6, <1>11, <2>0, <3>2
    <3>4. c[t] = q * a[t] /\ c[t + 1] = a[t + 1] /\ m[t + 1] = q
      BY <1>9, <1>10, <2>0, <2>2, <3>1
    <3> QED  BY <3>3, <3>4
  <2>3. CASE t + 1 > d
    <3>1. t >= d /\ t + 1 >= d /\ t + 1 # d
      BY <2>3
    <3> QED  BY <1>6, <1>9, <1>10, <2>0, <3>1
  <2> QED  BY <2>1, <2>2, <2>3
<1>13. IsSizes(c, m)
  <2>1. 6 >= d /\ 6 \in 0..6
    OBVIOUS
  <2> QED  BY <1>6, <1>10, <1>12, <2>1 DEF IsSizes
<1>14. loop.length = (m[0] * c[0]) * r
  <2>1. loop.length = q * ((one[0] * a[0]) * r)
    BY <1>5, <1>8
  <2>2. one[0] \in Nat /\ a[0] \in Nat /\ q \in Nat /\ r \in Nat
    BY <1>1, <1>6, <1>r
  <2>3. CASE d = 0
    <3>1. m[0] = q /\ c[0] = a[0] /\ one[0] = 1
      BY <1>1, <1>9, <1>10, <2>3
    <3> QED  BY <1>11, <2>1, <2>2, <3>1
  <2>4. CASE d # 0
    <3>1. m[0] = one[0] /\ c[0] = q * a[0]
      BY <1>9, <1>10, <2>4
    <3>2. (one[0] * (q * a[0])) * r = q * ((one[0] * a[0]) * r)
      BY <2>2, SMT
    <3> QED  BY <2>1, <3>1, <3>2
  <2> QED  BY <2>3, <2>4
<1>15. \A t \in 0..6 : t # d => m[t] = nbr_it[t]
  BY <1>9
<1> QED  BY <1>9, <1>13, <1>14, <1>15 DEF r, nbr_it

LEMMA DynamicNest ==
  ASSUME Inputs, NEW v \in Version, Even(v), ForLaunch(v), NEW d, DynamicTiles(v) = {d}
  PROVE  ~FailsAssertion(v) /\ \E m, c : IsNest(Solve(v), m, c)
<1> DEFINE nbr_it == Counts(v)
           tiles == Solve(v)
<1>1. d \in {0, 2, 4}
  <2>1. d \in {0, 2, 4, 6} /\ d # 6
    BY CountsFacts DEF ForLaunch, e_tile_3
  <2> QED  BY <2>1
<1>2. loop.stride \in Nat \ {0} /\ loop.length # 0
  BY DEF Inputs, Even
<1>3. ~FailsAssertion(v)
  <2>1. Cardinality(DynamicTiles(v)) = 1
    <3>1. Cardinality({d}) = 1
      BY FS_Singleton
    <3> QED  BY <3>1
  <2>2. DynamicTiles(v) # {}
    OBVIOUS
  <2> QED  BY <1>2, <2>1, <2>2 DEF FailsAssertion
<1>4. PICK m, c :
        /\ m \in [0..6 -> Nat \ {0}] /\ IsSizes(c, m)
        /\ \A t \in 0..6 : t # d => m[t] = Counts(v)[t]
        /\ loop.length = (m[0] * c[0]) * loop.stride
  BY <1>1, DynamicCount
<1>5. m[1] = context.num_gang /\ m[3] = context.num_worker
  BY <1>1, <1>4 DEF ForLaunch, e_gang, e_worker
<1>6. \A t \in 0..6 : tiles[t] = IF t < d THEN OuterTile(nbr_it, t)
                                 ELSE IF t > d THEN InnerTile(nbr_it, t)
                                 ELSE MiddleTile(nbr_it, d)
  <2>1. (CHOOSE t \in DynamicTiles(v) : TRUE) = d /\ DynamicTiles(v) # {}
    OBVIOUS
  <2>2. tiles = solve_one_dynamic(nbr_it, d)
    BY <2>1 DEF Solve
  <2> QED  BY <1>1, <2>2, TileIs DEF solve_one_dynamic, e_tile_3
<1> HIDE DEF tiles, nbr_it
<1>7. \A t \in 0..6 : t # d => m[t] = nbr_it[t]
  BY <1>4 DEF nbr_it
<1>8. /\ \A t \in 0..6 : t > d => InnerLength(nbr_it)[t] = (m[t] * c[t]) * loop.stride
      /\ \A t \in 0..6 : t >= d => InnerTile(nbr_it, t).stride = c[t] * loop.stride
  <2>1. PICK e \in 0..7 : e = d + 1
    BY <1>1
  <2>2. /\ \A t \in 0..6 : t >= e => nbr_it[t] = m[t]
        /\ \A t \in 0..6 : (t > d => t >= e) /\ (t >= d => t + 1 >= e)
    BY <1>1, <1>7, <2>1
  <2>3. /\ \A t \in 0..6 : t >= e => InnerLength(nbr_it)[t] = (m[t] * c[t]) * loop.stride
        /\ \A t \in 0..6 : t + 1 >= e => InnerTile(nbr_it, t).stride = c[t] * loop.stride
    BY <1>4, <2>2, InnerNest
  <2> QED  BY <2>2, <2>3
<1>9. /\ \A t \in 0..6 : t < d => OuterStride(nbr_it)[t] = c[t] * loop.stride
      /\ \A t \in 0..6 : t <= d => OuterLength(nbr_it, t) = (m[t] * c[t]) * loop.stride
  <2>1. d \in 0..6 /\ \A t \in 0..6 : t < d => nbr_it[t] = m[t]
    BY <1>1, <1>7
  <2> QED  BY <1>4, <2>1, OuterNest
<1>10. ASSUME NEW t \in 0..6
       PROVE  /\ tiles[t].length = (m[t] * c[t]) * loop.stride
              /\ tiles[t].nbr_it = m[t]
              /\ tiles[t].stride = c[t] * loop.stride
  <2>1. CASE t < d
    <3>1. tiles[t] = OuterTile(nbr_it, t) /\ t <= d /\ t # d
      BY <1>1, <1>6, <2>1
    <3> QED  BY <1>7, <1>9, <2>1, <3>1 DEF OuterTile
  <2>2. CASE t > d
    <3>1. tiles[t] = InnerTile(nbr_it, t) /\ t >= d /\ t # d
      BY <1>1, <1>6, <2>2
    <3>2. /\ tiles[t].length = InnerLength(nbr_it)[t] /\ tiles[t].nbr_it = nbr_it[t]
          /\ tiles[t].stride = InnerTile(nbr_it, t).stride
      BY <3>1 DEF InnerTile
    <3> QED  BY <1>7, <1>8, <2>2, <3>1, <3>2
  <2>3. CASE t = d
    <3>1. /\ tiles[t].length = OuterLength(nbr_it, d)
          /\ tiles[t].stride = InnerTile(nbr_it, d).stride
          /\ tiles[t].nbr_it = OuterLength(nbr_it, d) \div InnerTile(nbr_it, d).stride
      BY <1>1, <1>6, <2>3 DEF MiddleTile, e_tile_3
    <3>2. d >= d /\ d <= d /\ d \in 0..6
      BY <1>1
    <3>3. /\ OuterLength(nbr_it, d) = (m[d] * c[d]) * loop.stride
          /\ InnerTile(nbr_it, d).stride = c[d] * loop.stride
      BY <1>8, <1>9, <3>2
    <3>4. ((m[d] * c[d]) * loop.stride) \div (c[d] * loop.stride) = m[d]
      <4>1. c \in [0..6 -> Nat \ {0}]
        BY <1>4 DEF IsSizes
      <4>2. /\ c[d] * loop.stride \in Nat \ {0}
            /\ (m[d] * c[d]) * loop.stride = m[d] * (c[d] * loop.stride)
        BY <1>2, <1>4, <3>2, <4>1, SMT
      <4>3. \A x, y \in Nat \ {0} : (x * y) \div y = x
        BY ExactQuotient
      <4> QED  BY <1>4, <3>2, <4>2, <4>3
    <3> QED  BY <2>3, <3>1, <3>3, <3>4
  <2> QED  BY <1>1, <2>1, <2>2, <2>3
<1>11. IsNest(tiles, m, c)
  BY <1>4, <1>5, <1>10 DEF IsNest
<1> QED  BY <1>3, <1>11 DEF tiles

(* No assertion of the solvers fails for a version that divides the loop   *)
(* evenly, its tiles are nested and all of them are used.                  *)
LEMMA TilesAreNested ==
  ASSUME Inputs, NEW v \in Version, Even(v), ForLaunch(v)
  PROVE  /\ ~FailsAssertion(v)
         /\ \E m, c : IsNest(Solve(v), m, c)
         /\ Usable(Solve(v))
<1>1. ~FailsAssertion(v) /\ \E m, c : IsNest(Solve(v), m, c)
  <2>1. CASE DynamicTiles(v) = {}
    BY <2>1, StaticNest
  <2>2. CASE DynamicTiles(v) # {}
    <3>1. IsFiniteSet(DynamicTiles(v)) /\ Cardinality(DynamicTiles(v)) \in Nat
      <4>1. IsFiniteSet({0, 2, 4, 6})
        <5>1. IsFiniteSet(0..6)
          <6>1. 0 \in Int /\ 6 \in Int
            OBVIOUS
          <6> QED  BY <6>1, FS_Interval
        <5>2. {0, 2, 4, 6} \subseteq 0..6
          OBVIOUS
        <5> QED  BY <5>1, <5>2, FS_Subset
      <4> QED  BY <4>1, CountsFacts, FS_Subset, FS_CardinalityType
    <3>2. Cardinality(DynamicTiles(v)) # 0
      BY <2>2, <3>1, FS_EmptySet
    <3>3. Cardinality(DynamicTiles(v)) = 1
      BY <3>1, <3>2 DEF Even
    <3>4. PICK d : DynamicTiles(v) = {d}
      BY <3>1, <3>3, FS_Singleton
    <3> QED  BY <3>4, DynamicNest
  <2> QED  BY <2>1, <2>2
<1>2. PICK m, c : IsNest(Solve(v), m, c)
  BY <1>1
<1>3. \A t \in 0..6 : /\ Solve(v)[t].length = (m[t] * c[t]) * loop.stride
                      /\ Solve(v)[t].nbr_it = m[t] /\ Solve(v)[t].stride = c[t] * loop.stride
                      /\ m[t] \in Nat \ {0} /\ c[t] \in Nat \ {0}
  BY <1>2 DEF IsNest, IsSizes
<1>4. loop.stride \in Nat \ {0}
  BY DEF Inputs
<1>5. \A x, y, z \in Nat \ {0} : (x * y) * z # 0 /\ y * z # 0
  BY SMT
<1>6. Usable(Solve(v))
  BY <1>3, <1>4, <1>5, TileIs DEF Usable
<1> QED  BY <1>1, <1>6

-----------------------------------------------------------------------------
(* The best version is one of those looked at that match and can be used,  *)
(* and of the best score among them.                                       *)
LookedAt(j, w) ==
  j \in Matching /\ w = versions[j] /\ j < version_idx /\ Usable(Solve(w))

IsBest(i, v) ==
  /\ i \in Matching /\ v = versions[i]
  /\ best = [idx |-> i, score |-> Score(v), tiles |-> Solve(v)]
  /\ \A j, w : LookedAt(j, w) => Score(w) <= best.score

BestInv ==
  /\ versions \in Seq(Version)
  /\ version_idx \in Nat \ {0}
  /\ pc # "abort" => \/ best = NoVersion /\ \A j, w : ~LookedAt(j, w)
                     \/ \E i, v : IsBest(i, v)
  /\ pc = "run" => version_idx > Len(versions) /\ best # NoVersion

LEMMA ScoreIsNat == ASSUME NEW v PROVE Score(v) \in Nat
<1>1. IsFiniteSet(Tile)
  <2>1. 0 \in Int /\ 6 \in Int
    OBVIOUS
  <2> QED  BY <2>1, FS_Interval, TileIs
<1>2. IsFiniteSet({t \in Tile : v.num_iterations[t] # 0})
  BY <1>1, FS_Subset
<1>3. Cardinality({t \in Tile : v.num_iterations[t] # 0}) \in Nat
  BY <1>2, FS_CardinalityType
<1> QED  BY <1>3 DEF Score

LEMMA MatchingIndex == ASSUME BestInv, NEW i \in Matching PROVE i \in 1..Len(versions)
BY DEF BestInv, Matching

LEMMA InitBest == Init => BestInv
<1> SUFFICES ASSUME Init PROVE BestInv
  OBVIOUS
<1>1. versions \in Seq(Version)
  BY VersionsAssumption DEF Init
<1>2. \A j, w : ~LookedAt(j, w)
  BY <1>1 DEF Init, LookedAt, Matching
<1> QED  BY <1>1, <1>2 DEF Init, BestInv

LEMMA BestStays ==
  ASSUME BestInv, UNCHANGED inputVars, UNCHANGED <<version_idx, best>>,
         pc' # "abort" => pc # "abort",
         pc' = "run" => version_idx > Len(versions) /\ best # NoVersion
  PROVE  BestInv'
<1>1. Matching' = Matching /\ versions' = versions
  BY DEF Matching, version_match, inputVars
<1>2. \A w : Score(w)' = Score(w) /\ Solve(w)' = Solve(w)
  BY SolutionsStay DEF inputVars
<1>3. version_idx' = version_idx /\ best' = best
  OBVIOUS
<1>4. \A j, w : LookedAt(j, w)' <=> LookedAt(j, w)
  BY <1>1, <1>2, <1>3 DEF LookedAt
<1>5. \A i, v : IsBest(i, v) => IsBest(i, v)'
  BY <1>1, <1>2, <1>3, <1>4 DEF IsBest
<1> QED  BY <1>1, <1>3, <1>4, <1>5 DEF BestInv

LEMMA EvaluateKeepsBest == BestInv /\ acc_eval_kernel_version => BestInv'
<1> SUFFICES ASSUME BestInv, acc_eval_kernel_version PROVE BestInv'
  OBVIOUS
<1> USE DEF acc_eval_kernel_version, Evaluate
<1>1. Matching' = Matching /\ versions' = versions
  BY DEF Matching, version_match, inputVars
<1>2. \A w : Score(w)' = Score(w) /\ Solve(w)' = Solve(w)
  BY SolutionsStay DEF inputVars
<1> DEFINE idx == version_idx
<1>3. idx \in 1..Len(versions) /\ idx' = idx + 1
  <2>1. Len(versions) \in Nat
    BY DEF BestInv
  <2> QED  BY <2>1 DEF BestInv
<1> PICK v : v = versions[idx]
  OBVIOUS
<1>4. version_match(v) <=> idx \in Matching
  BY <1>3 DEF Matching, BestInv
<1>5. CASE pc' = "abort"
  BY <1>1, <1>3, <1>5 DEF BestInv
<1> DEFINE good == idx \in Matching /\ Usable(Solve(v))
<1>6. ASSUME pc' # "abort"
      PROVE  /\ pc' = "select" /\ pc = "select"
             /\ best' = IF good /\ Score(v) >= best.score
                        THEN [idx |-> idx, score |-> Score(v), tiles |-> Solve(v)]
                        ELSE best
  BY <1>4, <1>6 DEF AtLeastBest
<1>7. \A j \in Matching : j \in Nat
  BY MatchingIndex
<1>8. ASSUME NEW j, NEW w, LookedAt(j, w)'
      PROVE  LookedAt(j, w) \/ (j = idx /\ w = v /\ good)
  <2>1. j \in Matching /\ w = versions[j] /\ j < idx + 1 /\ Usable(Solve(w))
    BY <1>1, <1>2, <1>3, <1>8 DEF LookedAt
  <2>2. j < idx \/ j = idx
    BY <1>3, <1>7, <2>1
  <2> QED  BY <2>1, <2>2 DEF LookedAt
<1> HIDE DEF good
<1>9. CASE pc' # "abort" /\ ~good
  <2>1. best' = best
    BY <1>6, <1>9
  <2>2. \A j, w : LookedAt(j, w)' => LookedAt(j, w)
    BY <1>8, <1>9
  <2>3. \A i, w : IsBest(i, w) => IsBest(i, w)'
    BY <1>1, <1>2, <2>1, <2>2 DEF IsBest
  <2> QED  BY <1>1, <1>3, <1>6, <1>9, <2>1, <2>2, <2>3 DEF BestInv
<1>10. CASE pc' # "abort" /\ good /\ ~(Score(v) >= best.score)
  <2>1. Score(v) \in Nat /\ best' = best
    BY <1>6, <1>10, ScoreIsNat
  <2>2. best # NoVersion
    BY <1>10, <2>1 DEF NoVersion
  <2>3. PICK i, w : IsBest(i, w)
    BY <1>6, <1>10, <2>2 DEF BestInv
  <2>4. best.score \in Nat
    BY <2>3, ScoreIsNat DEF IsBest
  <2>5. Score(v) <= best.score
    BY <1>10, <2>1, <2>4
  <2>6. \A j, u : LookedAt(j, u)' => Score(u) <= best.score
    BY <1>8, <2>3, <2>5 DEF IsBest
  <2>7. IsBest(i, w)'
    BY <1>1, <1>2, <2>1, <2>3, <2>6 DEF IsBest
  <2> QED  BY <1>1, <1>3, <1>6, <1>10, <2>7 DEF BestInv
<1>11. CASE pc' # "abort" /\ good /\ Score(v) >= best.score
  <2>1. /\ best' = [idx |-> idx, score |-> Score(v), tiles |-> Solve(v)]
        /\ Score(v) \in Nat /\ best'.score = Score(v)
    BY <1>6, <1>11, ScoreIsNat
  <2>2. ASSUME NEW j, NEW u, LookedAt(j, u)' PROVE Score(u) <= Score(v)
    <3>1. CASE u = v
      BY <2>1, <3>1
    <3>2. CASE LookedAt(j, u)
      <4>1. PICK i, w : IsBest(i, w)
        BY <1>6, <1>11, <3>2 DEF BestInv
      <4>2. best.score \in Nat /\ Score(u) <= best.score /\ Score(u) \in Nat
        BY <3>2, <4>1, ScoreIsNat DEF IsBest
      <4> QED  BY <1>11, <2>1, <4>2
    <3> QED  BY <1>8, <2>2, <3>1, <3>2
  <2> PICK i : i = idx
    OBVIOUS
  <2>3. i \in Matching /\ v = versions[i]
    BY <1>11 DEF good
  <2>4. IsBest(i, v)'
    BY <1>1, <1>2, <2>1, <2>2, <2>3 DEF IsBest
  <2> QED  BY <1>1, <1>3, <1>6, <1>11, <2>4 DEF BestInv
<1> QED  BY <1>5, <1>9, <1>10, <1>11

LEMMA NextKeepsBest == BestInv /\ [Next]_vars => BestInv'
<1> SUFFICES ASSUME BestInv, [Next]_vars PROVE BestInv'
  OBVIOUS
<1>1. CASE acc_eval_kernel_version
  BY <1>1, EvaluateKeepsBest
<1>2. CASE acc_build_ocl_kernel
  <2>1. /\ UNCHANGED inputVars /\ UNCHANGED <<version_idx, best>>
        /\ pc = "select"
        /\ pc' = "run" => version_idx > Len(versions) /\ best # NoVersion
    BY <1>2 DEF acc_build_ocl_kernel
  <2> QED  BY <2>1, BestStays
<1>3. CASE UNCHANGED <<inputVars, selectVars>>
  <2>1. UNCHANGED inputVars /\ UNCHANGED <<version_idx, best>> /\ pc' = pc
    BY <1>3 DEF selectVars
  <2> QED  BY <2>1, BestStays DEF BestInv
<1> QED  BY <1>1, <1>2, <1>3 DEF Next, RunWorkItem, vars

(* For any loop, launch and versions, evenly divided or not: what is       *)
(* launched is the solution of a version that matches the launch, and no   *)
(* better one matches and can be used (acc_eval_kernel_version).           *)
THEOREM BestVersionIsAlwaysRun == Spec => []BestVersionIsRun
<1>1. BestInv => BestVersionIsRun
  <2> SUFFICES ASSUME BestInv, pc = "run" PROVE BestVersionIsRun
    BY DEF BestVersionIsRun
  <2>1. PICK i, v : IsBest(i, v)
    BY DEF BestInv
  <2>2. /\ best.idx = i /\ i \in Matching
        /\ best.tiles = Solve(versions[i]) /\ best.score = Score(versions[i])
    BY <2>1 DEF IsBest
  <2>3. ASSUME NEW j \in Matching, Usable(Solve(versions[j]))
        PROVE  Score(versions[j]) <= Score(versions[i])
    <3>1. j < version_idx
      <4>1. j \in 1..Len(versions) /\ version_idx > Len(versions) /\ version_idx \in Nat
            /\ Len(versions) \in Nat
        BY MatchingIndex DEF BestInv
      <4> QED  BY <4>1
    <3>2. LookedAt(j, versions[j])
      BY <2>3, <3>1 DEF LookedAt
    <3> QED  BY <2>1, <2>2, <3>2 DEF IsBest
  <2> QED  BY <2>2, <2>3 DEF BestVersionIsRun
<1> QED  BY <1>1, InitBest, NextKeepsBest, PTL DEF Spec

-----------------------------------------------------------------------------
(* Where the versions that match divide the loop evenly, one of them can   *)
(* be used.                                                                *)
SelectInv ==
  /\ Inputs
  /\ BestInv
  /\ pc \in {"select", "run", "abort"}
  /\ pc = "abort" => Matching = {}

LEMMA MatchingFacts ==
  ASSUME Inputs, NEW i \in Matching
  PROVE  /\ i \in 1..Len(versions) /\ versions[i] \in Version
         /\ version_match(versions[i])
         /\ ~FailsAssertion(versions[i])
         /\ \E m, c : IsNest(Solve(versions[i]), m, c)
         /\ Usable(Solve(versions[i]))
<1>1. i \in 1..Len(versions) /\ versions[i] \in Version
  BY DEF Inputs, Matching
<1>2. Even(versions[i]) /\ ForLaunch(versions[i])
  BY DEF Inputs
<1> QED  BY <1>1, <1>2, TilesAreNested DEF Matching

LEMMA InitSelect == EvenInit => SelectInv
BY InitInputs, InitBest DEF EvenInit, Init, SelectInv

LEMMA NextKeepsSelect == SelectInv /\ [Next]_vars => SelectInv'
<1> SUFFICES ASSUME SelectInv, [Next]_vars PROVE SelectInv'
  OBVIOUS
<1>1. BestInv'
  BY NextKeepsBest DEF SelectInv
<1>2. UNCHANGED inputVars
  BY DEF Next, acc_eval_kernel_version, Evaluate, acc_build_ocl_kernel, RunWorkItem, vars
<1>3. Inputs' /\ Matching' = Matching
  BY <1>2, InputsStay DEF SelectInv
<1>4. CASE acc_eval_kernel_version
  <2>1. version_idx \in 1..Len(versions)
    <3>1. version_idx <= Len(versions) /\ Len(versions) \in Nat /\ version_idx \in Nat \ {0}
      BY <1>4 DEF acc_eval_kernel_version, Evaluate, SelectInv, BestInv
    <3> QED  BY <3>1
  <2>2. version_match(versions[version_idx]) => version_idx \in Matching
    BY <2>1 DEF Matching, SelectInv, BestInv
  <2>3. version_match(versions[version_idx]) => ~FailsAssertion(versions[version_idx])
    BY <2>2, MatchingFacts DEF SelectInv
  <2>4. pc' = "select"
    BY <1>4, <2>3 DEF acc_eval_kernel_version, Evaluate
  <2> QED  BY <1>1, <1>3, <2>4 DEF SelectInv
<1>5. CASE acc_build_ocl_kernel
  <2>1. best = NoVersion => Matching = {}
    <3> SUFFICES ASSUME best = NoVersion, NEW i \in Matching PROVE FALSE
      OBVIOUS
    <3>1. ~\E j, v : IsBest(j, v)
      <4>1. ASSUME NEW j, NEW v, IsBest(j, v) PROVE FALSE
        <5>1. j = 0
          BY <4>1 DEF IsBest, NoVersion
        <5>2. j \in 1..Len(versions)
          BY <4>1, MatchingFacts DEF IsBest, SelectInv
        <5> QED  BY <5>1, <5>2
      <4> QED  BY <4>1
    <3>2. pc # "abort" /\ version_idx > Len(versions) /\ version_idx \in Nat
      BY <1>5 DEF acc_build_ocl_kernel, SelectInv, BestInv
    <3>3. i \in 1..Len(versions) /\ Usable(Solve(versions[i])) /\ Len(versions) \in Nat
      BY MatchingFacts DEF SelectInv, BestInv
    <3>4. i < version_idx
      BY <3>2, <3>3
    <3>5. LookedAt(i, versions[i])
      BY <3>3, <3>4 DEF LookedAt
    <3> QED  BY <3>1, <3>2, <3>5 DEF SelectInv, BestInv
  <2>2. pc' \in {"select", "run", "abort"} /\ (pc' = "abort" => Matching = {})
    BY <1>5, <2>1 DEF acc_build_ocl_kernel
  <2> QED  BY <1>1, <1>3, <2>2 DEF SelectInv
<1>6. CASE pc' = pc
  BY <1>1, <1>3, <1>6 DEF SelectInv
<1> QED  BY <1>4, <1>5, <1>6 DEF Next, RunWorkItem, vars, selectVars

LEMMA SelectInvHolds == EvenSpec => []SelectInv
BY InitSelect, NextKeepsSelect, PTL DEF EvenSpec

(* For any loop, launch and versions: a program with a version that        *)
(* matches the launch and divides the loop evenly never fails an assertion *)
(* of the solvers, nor is it left without a version (internal/kernel.c).   *)
THEOREM MatchingVersionIsAlwaysFound == EvenSpec => []MatchingVersionIsFound
<1>1. SelectInv => MatchingVersionIsFound
  BY DEF SelectInv, MatchingVersionIsFound
<1> QED  BY <1>1, SelectInvHolds, PTL

-----------------------------------------------------------------------------
(* The starts of m blocks of c iterations side by side from a on.          *)
Starts(a, m, c) == {a + i * (c * loop.stride) : i \in 0..(m - 1)}

LEMMA StartsDivide ==
  ASSUME loop.stride \in Nat \ {0}, NEW a \in Nat, NEW m \in Nat \ {0}, NEW c \in Nat \ {0}
  PROVE  /\ \A b \in Starts(a, m, c) : b \in Nat
         /\ \A x \in Block(a, m * c) : \E b \in Starts(a, m, c) : x \in Block(b, c)
         /\ \A b \in Starts(a, m, c) : \A x \in Block(b, c) : x \in Block(a, m * c)
         /\ \A b, d \in Starts(a, m, c) : \A x \in Block(b, c) : x \in Block(d, c) => b = d
<1>1. \A i \in Nat : i * (c * loop.stride) \in Nat
  BY SMT
<1>2. \A b \in Starts(a, m, c) : b \in Nat
  BY <1>1 DEF Starts
<1>3. ASSUME NEW x \in Block(a, m * c)
      PROVE  \E b \in Starts(a, m, c) : x \in Block(b, c)
  <2>1. PICK i \in 0..(m - 1) : x \in Block(a + i * (c * loop.stride), c)
    BY BlocksCover
  <2> QED  BY <2>1 DEF Starts
<1>4. ASSUME NEW b \in Starts(a, m, c), NEW x \in Block(b, c)
      PROVE  x \in Block(a, m * c)
  <2>1. PICK i \in 0..(m - 1) : b = a + i * (c * loop.stride)
    BY DEF Starts
  <2> QED  BY <2>1, BlocksFit
<1>5. ASSUME NEW b \in Starts(a, m, c), NEW d \in Starts(a, m, c),
             NEW x \in Block(b, c), x \in Block(d, c)
      PROVE  b = d
  <2>1. PICK i \in 0..(m - 1) : b = a + i * (c * loop.stride)
    BY DEF Starts
  <2>2. PICK j \in 0..(m - 1) : d = a + j * (c * loop.stride)
    BY DEF Starts
  <2>3. i \in Nat /\ j \in Nat
    OBVIOUS
  <2>4. /\ x \in Block(a + i * (c * loop.stride), c)
        /\ x \in Block(a + j * (c * loop.stride), c)
    BY <1>5, <2>1, <2>2
  <2>5. i = j
    BY <2>3, <2>4, BlocksAreDisjoint
  <2> QED  BY <2>1, <2>2, <2>5
<1> QED  BY <1>2, <1>3, <1>4, <1>5

(* A turn of the loop nest in work-item g, w.                              *)
IsTurn(p, g, w) ==
  \E t0 \in Steps(loop.lower, 0) :
  \E t1 \in Steps(acc_gang_iteration(g, t0), 2) :
  \E t2 \in Steps(acc_worker_iteration(w, t1), 4) :
  \E v \in Steps(t2, 5) :
  \E t3 \in Steps(v, 6) : p = <<t0, t1, t2, v, t3>>

LEMMA TurnsOfNest == \A p, g, w : p \in LoopNest(g, w) <=> IsTurn(p, g, w)
BY DEF LoopNest, IsTurn, e_tile_0, e_tile_1, e_tile_2, e_vector, e_tile_3

(* The starts of the tiles in such a turn, for the iteration x.            *)
IsPath(m, c, g, w, x, t0, g0, t1, w1, t2, v) ==
  /\ t0 \in Starts(loop.lower, m[0], c[0]) /\ x \in Block(t0, c[0])
  /\ g0 \in Starts(t0, m[1], c[1]) /\ x \in Block(g0, c[1])
  /\ g0 = t0 + g * (c[1] * loop.stride)
  /\ t1 \in Starts(g0, m[2], c[2]) /\ x \in Block(t1, c[2])
  /\ w1 \in Starts(t1, m[3], c[3]) /\ x \in Block(w1, c[3])
  /\ w1 = t1 + w * (c[3] * loop.stride)
  /\ t2 \in Starts(w1, m[4], c[4]) /\ x \in Block(t2, c[4])
  /\ v \in Starts(t2, m[5], c[5]) /\ x \in Block(v, c[5])
  /\ x \in Starts(v, m[6], c[6])

LEMMA NestFacts ==
  ASSUME Inputs, NEW m, NEW c, IsNest(best.tiles, m, c)
  PROVE  /\ \A t \in 0..6 : m[t] \in Nat \ {0} /\ c[t] \in Nat \ {0}
         /\ loop.stride \in Nat \ {0} /\ loop.lower \in Nat
         /\ c[0] = m[1] * c[1] /\ c[1] = m[2] * c[2] /\ c[2] = m[3] * c[3]
         /\ c[3] = m[4] * c[4] /\ c[4] = m[5] * c[5] /\ c[5] = m[6] * c[6] /\ c[6] = 1
         /\ \A a : \A t \in 0..6 : Steps(a, t) = Starts(a, m[t], c[t])
         /\ \A g, a : acc_gang_iteration(g, a) = a + g * (c[1] * loop.stride)
         /\ \A w, a : acc_worker_iteration(w, a) = a + w * (c[3] * loop.stride)
         /\ WorkItems = (0..(m[1] - 1)) \X (0..(m[3] - 1))
         /\ Iterations = Block(loop.lower, m[0] * c[0])
<1>1. /\ \A t \in 0..6 : m[t] \in Nat \ {0} /\ c[t] \in Nat \ {0}
      /\ loop.stride \in Nat \ {0} /\ loop.lower \in Nat
  BY DEF IsNest, IsSizes, Inputs
<1>2. /\ c[0] = m[1] * c[1] /\ c[1] = m[2] * c[2] /\ c[2] = m[3] * c[3]
      /\ c[3] = m[4] * c[4] /\ c[4] = m[5] * c[5] /\ c[5] = m[6] * c[6] /\ c[6] = 1
  <2>1. c[6] = 1 /\ \A t \in 0..5 : c[t] = m[t + 1] * c[t + 1]
    BY DEF IsNest, IsSizes
  <2>2. 0 + 1 = 1 /\ 1 + 1 = 2 /\ 2 + 1 = 3 /\ 3 + 1 = 4 /\ 4 + 1 = 5 /\ 5 + 1 = 6
    OBVIOUS
  <2>3. 0 \in 0..5 /\ 1 \in 0..5 /\ 2 \in 0..5 /\ 3 \in 0..5 /\ 4 \in 0..5 /\ 5 \in 0..5
    OBVIOUS
  <2> QED  BY <2>1, <2>2, <2>3
<1>3. \A t \in 0..6 : /\ best.tiles[t].length = (m[t] * c[t]) * loop.stride
                      /\ best.tiles[t].stride = c[t] * loop.stride
  BY DEF IsNest
<1>4. ASSUME NEW a, NEW t \in 0..6 PROVE Steps(a, t) = Starts(a, m[t], c[t])
  <2>1. c[t] * loop.stride \in Nat \ {0}
    BY <1>1, SMT
  <2>2. (m[t] * c[t]) * loop.stride = m[t] * (c[t] * loop.stride)
    BY <1>1, SMT
  <2>3. ((m[t] * (c[t] * loop.stride)) + (c[t] * loop.stride) - 1) \div (c[t] * loop.stride) = m[t]
    BY <1>1, <2>1, ExactQuotient
  <2> QED  BY <1>3, <2>2, <2>3 DEF Steps, Starts
<1>5. /\ \A g, a : acc_gang_iteration(g, a) = a + g * (c[1] * loop.stride)
      /\ \A w, a : acc_worker_iteration(w, a) = a + w * (c[3] * loop.stride)
  BY <1>3 DEF acc_gang_iteration, acc_worker_iteration, e_gang, e_worker
<1>6. WorkItems = (0..(m[1] - 1)) \X (0..(m[3] - 1))
  BY DEF WorkItems, IsNest
<1>7. Iterations = Block(loop.lower, m[0] * c[0])
  <2>1. m[0] * c[0] \in Nat \ {0} /\ loop.length = (m[0] * c[0]) * loop.stride
    BY <1>1, SMT DEF IsNest
  <2>2. (loop.length + loop.stride - 1) \div loop.stride = m[0] * c[0]
    BY <1>1, <2>1, ExactQuotient
  <2> QED  BY <2>2 DEF Iterations, Block
<1> QED  BY <1>1, <1>2, <1>4, <1>5, <1>6, <1>7

LEMMA PathExists ==
  ASSUME Inputs, NEW m, NEW c, IsNest(best.tiles, m, c), NEW x \in Iterations
  PROVE  \E g \in 0..(m[1] - 1), w \in 0..(m[3] - 1) : \E t0, g0, t1, w1, t2, v :
           IsPath(m, c, g, w, x, t0, g0, t1, w1, t2, v)
<1>1. /\ \A t \in 0..6 : m[t] \in Nat \ {0} /\ c[t] \in Nat \ {0}
      /\ loop.stride \in Nat \ {0} /\ loop.lower \in Nat
      /\ c[0] = m[1] * c[1] /\ c[1] = m[2] * c[2] /\ c[2] = m[3] * c[3]
      /\ c[3] = m[4] * c[4] /\ c[4] = m[5] * c[5] /\ c[5] = m[6] * c[6] /\ c[6] = 1
      /\ Iterations = Block(loop.lower, m[0] * c[0])
  BY NestFacts
<1>2. ASSUME NEW t \in 0..6, NEW a \in Nat, x \in Block(a, m[t] * c[t])
      PROVE  \E b \in Nat : b \in Starts(a, m[t], c[t]) /\ x \in Block(b, c[t])
  <2>1. /\ \A b \in Starts(a, m[t], c[t]) : b \in Nat
        /\ \A y \in Block(a, m[t] * c[t]) : \E b \in Starts(a, m[t], c[t]) : y \in Block(b, c[t])
    BY <1>1, StartsDivide
  <2> QED  BY <1>2, <2>1
<1>3. PICK t0 \in Nat : t0 \in Starts(loop.lower, m[0], c[0]) /\ x \in Block(t0, c[0])
  BY <1>1, <1>2
<1>4. PICK g0 \in Nat : g0 \in Starts(t0, m[1], c[1]) /\ x \in Block(g0, c[1])
  BY <1>1, <1>2, <1>3
<1>5. PICK g \in 0..(m[1] - 1) : g0 = t0 + g * (c[1] * loop.stride)
  BY <1>4 DEF Starts
<1>6. PICK t1 \in Nat : t1 \in Starts(g0, m[2], c[2]) /\ x \in Block(t1, c[2])
  BY <1>1, <1>2, <1>4
<1>7. PICK w1 \in Nat : w1 \in Starts(t1, m[3], c[3]) /\ x \in Block(w1, c[3])
  BY <1>1, <1>2, <1>6
<1>8. PICK w \in 0..(m[3] - 1) : w1 = t1 + w * (c[3] * loop.stride)
  BY <1>7 DEF Starts
<1>9. PICK t2 \in Nat : t2 \in Starts(w1, m[4], c[4]) /\ x \in Block(t2, c[4])
  BY <1>1, <1>2, <1>7
<1>10. PICK v \in Nat : v \in Starts(t2, m[5], c[5]) /\ x \in Block(v, c[5])
  BY <1>1, <1>2, <1>9
<1>11. x \in Starts(v, m[6], c[6])
  <2>1. PICK b \in Nat : b \in Starts(v, m[6], c[6]) /\ x \in Block(b, 1)
    BY <1>1, <1>2, <1>10
  <2>2. x = b
    <3>1. PICK i \in 0..(1 - 1) : x = b + i * loop.stride
      BY <2>1 DEF Block
    <3>2. i = 0 /\ 0 * loop.stride = 0
      BY <1>1
    <3> QED  BY <2>1, <3>1, <3>2
  <2> QED  BY <2>1, <2>2
<1>12. IsPath(m, c, g, w, x, t0, g0, t1, w1, t2, v)
  BY <1>3, <1>4, <1>5, <1>6, <1>7, <1>8, <1>9, <1>10, <1>11 DEF IsPath
<1> QED  BY <1>5, <1>8, <1>12

(* The path to an iteration is the only one to it.                         *)
LEMMA PathIsUnique ==
  ASSUME Inputs, NEW m, NEW c, IsNest(best.tiles, m, c), NEW x,
         NEW g \in Nat, NEW w \in Nat, NEW t0, NEW g0, NEW t1, NEW w1, NEW t2, NEW v,
         IsPath(m, c, g, w, x, t0, g0, t1, w1, t2, v),
         NEW h \in Nat, NEW u \in Nat, NEW s0, NEW h0, NEW s1, NEW u1, NEW s2, NEW z,
         IsPath(m, c, h, u, x, s0, h0, s1, u1, s2, z)
  PROVE  g = h /\ w = u /\ t0 = s0 /\ t1 = s1 /\ t2 = s2 /\ v = z
<1>1. /\ \A t \in 0..6 : m[t] \in Nat \ {0} /\ c[t] \in Nat \ {0}
      /\ loop.stride \in Nat \ {0} /\ loop.lower \in Nat
  BY NestFacts
<1>2. ASSUME NEW t \in 0..6, NEW a \in Nat, NEW b \in Starts(a, m[t], c[t]),
             NEW d \in Starts(a, m[t], c[t]), x \in Block(b, c[t]), x \in Block(d, c[t])
      PROVE  b = d /\ b \in Nat
  BY <1>1, <1>2, StartsDivide
<1>3. t0 = s0 /\ t0 \in Nat
  BY <1>1, <1>2 DEF IsPath
<1>4. g0 = h0 /\ g0 \in Nat
  BY <1>2, <1>3 DEF IsPath
<1>5. g = h
  <2>1. /\ x \in Block(t0 + g * (c[1] * loop.stride), c[1])
        /\ x \in Block(t0 + h * (c[1] * loop.stride), c[1])
    BY <1>3, <1>4 DEF IsPath
  <2>2. c[1] \in Nat \ {0}
    BY <1>1
  <2> QED  BY <1>1, <1>3, <2>1, <2>2, BlocksAreDisjoint
<1>6. t1 = s1 /\ t1 \in Nat
  BY <1>2, <1>4 DEF IsPath
<1>7. w1 = u1 /\ w1 \in Nat
  BY <1>2, <1>6 DEF IsPath
<1>8. w = u
  <2>1. /\ x \in Block(t1 + w * (c[3] * loop.stride), c[3])
        /\ x \in Block(t1 + u * (c[3] * loop.stride), c[3])
    BY <1>6, <1>7 DEF IsPath
  <2>2. c[3] \in Nat \ {0}
    BY <1>1
  <2> QED  BY <1>1, <1>6, <2>1, <2>2, BlocksAreDisjoint
<1>9. t2 = s2 /\ t2 \in Nat
  BY <1>2, <1>7 DEF IsPath
<1>10. v = z
  BY <1>2, <1>9 DEF IsPath
<1> QED  BY <1>3, <1>5, <1>6, <1>8, <1>9, <1>10

(* A turn of the nest is a path, and one to an iteration of the loop.      *)
LEMMA TurnIsPath ==
  ASSUME Inputs, NEW m, NEW c, IsNest(best.tiles, m, c),
         NEW g \in 0..(m[1] - 1), NEW w \in 0..(m[3] - 1), NEW p \in LoopNest(g, w)
  PROVE  /\ p[5] \in Iterations
         /\ \E t0, g0, t1, w1, t2, v :
              /\ p = <<t0, t1, t2, v, p[5]>>
              /\ IsPath(m, c, g, w, p[5], t0, g0, t1, w1, t2, v)
<1>1. /\ \A t \in 0..6 : m[t] \in Nat \ {0} /\ c[t] \in Nat \ {0}
      /\ loop.stride \in Nat \ {0} /\ loop.lower \in Nat
      /\ c[0] = m[1] * c[1] /\ c[1] = m[2] * c[2] /\ c[2] = m[3] * c[3]
      /\ c[3] = m[4] * c[4] /\ c[4] = m[5] * c[5] /\ c[5] = m[6] * c[6] /\ c[6] = 1
      /\ \A a : \A t \in 0..6 : Steps(a, t) = Starts(a, m[t], c[t])
      /\ \A i, a : acc_gang_iteration(i, a) = a + i * (c[1] * loop.stride)
      /\ \A i, a : acc_worker_iteration(i, a) = a + i * (c[3] * loop.stride)
      /\ Iterations = Block(loop.lower, m[0] * c[0])
  BY NestFacts
<1>2. IsTurn(p, g, w)
  BY TurnsOfNest
<1>3. PICK t0 \in Starts(loop.lower, m[0], c[0]) :
      \E t1 \in Steps(acc_gang_iteration(g, t0), 2) :
      \E t2 \in Steps(acc_worker_iteration(w, t1), 4) :
      \E v \in Steps(t2, 5) :
      \E t3 \in Steps(v, 6) : p = <<t0, t1, t2, v, t3>>
  BY <1>1, <1>2 DEF IsTurn
<1>4. PICK g0 : g0 = t0 + g * (c[1] * loop.stride)
  OBVIOUS
<1>5. PICK t1 \in Starts(g0, m[2], c[2]) :
      \E t2 \in Steps(acc_worker_iteration(w, t1), 4) :
      \E v \in Steps(t2, 5) :
      \E t3 \in Steps(v, 6) : p = <<t0, t1, t2, v, t3>>
  BY <1>1, <1>3, <1>4
<1>6. PICK w1 : w1 = t1 + w * (c[3] * loop.stride)
  OBVIOUS
<1>7. PICK t2 \in Starts(w1, m[4], c[4]) :
      \E v \in Steps(t2, 5) :
      \E t3 \in Steps(v, 6) : p = <<t0, t1, t2, v, t3>>
  BY <1>1, <1>5, <1>6
<1>8. PICK v \in Starts(t2, m[5], c[5]) :
      \E t3 \in Steps(v, 6) : p = <<t0, t1, t2, v, t3>>
  BY <1>1, <1>7
<1>9. PICK x \in Starts(v, m[6], c[6]) : p = <<t0, t1, t2, v, x>>
  BY <1>1, <1>8
<1>10. p[5] = x
  BY <1>9
<1>11. g0 \in Starts(t0, m[1], c[1]) /\ w1 \in Starts(t1, m[3], c[3])
  BY <1>4, <1>6 DEF Starts
<1>12. ASSUME NEW t \in 0..6, NEW a \in Nat, NEW b \in Starts(a, m[t], c[t])
       PROVE  b \in Nat /\ (x \in Block(b, c[t]) => x \in Block(a, m[t] * c[t]))
  BY <1>1, StartsDivide
<1>13. /\ t0 \in Nat /\ g0 \in Nat /\ t1 \in Nat /\ w1 \in Nat /\ t2 \in Nat
       /\ v \in Nat /\ x \in Nat
  <2>1. t0 \in Nat
    BY <1>1, <1>12
  <2>2. g0 \in Nat
    BY <1>11, <1>12, <2>1
  <2>3. t1 \in Nat
    BY <1>12, <2>2
  <2>4. w1 \in Nat
    BY <1>11, <1>12, <2>3
  <2>5. t2 \in Nat
    BY <1>12, <2>4
  <2>6. v \in Nat
    BY <1>12, <2>5
  <2>7. x \in Nat
    BY <1>12, <2>6
  <2> QED  BY <2>1, <2>2, <2>3, <2>4, <2>5, <2>6, <2>7
<1>14. x \in Block(x, c[6])
  <2>1. x = x + 0 * loop.stride
    BY <1>1, <1>13
  <2>2. 0 \in 0..(1 - 1)
    OBVIOUS
  <2> QED  BY <1>1, <2>1, <2>2 DEF Block
<1>15. x \in Block(v, c[5])
  BY <1>1, <1>12, <1>13, <1>14
<1>16. x \in Block(t2, c[4])
  BY <1>1, <1>12, <1>13, <1>15
<1>17. x \in Block(w1, c[3])
  BY <1>1, <1>12, <1>13, <1>16
<1>18. x \in Block(t1, c[2])
  BY <1>1, <1>11, <1>12, <1>13, <1>17
<1>19. x \in Block(g0, c[1])
  BY <1>1, <1>12, <1>13, <1>18
<1>20. x \in Block(t0, c[0])
  BY <1>1, <1>11, <1>12, <1>13, <1>19
<1>21. x \in Iterations
  BY <1>1, <1>12, <1>20
<1>22. IsPath(m, c, g, w, x, t0, g0, t1, w1, t2, v)
  BY <1>4, <1>6, <1>9, <1>11, <1>15, <1>16, <1>17, <1>18, <1>19, <1>20 DEF IsPath
<1> QED  BY <1>9, <1>10, <1>21, <1>22

(* A path is a turn of the nest.                                           *)
LEMMA PathIsTurn ==
  ASSUME Inputs, NEW m, NEW c, IsNest(best.tiles, m, c), NEW g, NEW w, NEW x,
         NEW t0, NEW g0, NEW t1, NEW w1, NEW t2, NEW v,
         IsPath(m, c, g, w, x, t0, g0, t1, w1, t2, v)
  PROVE  <<t0, t1, t2, v, x>> \in LoopNest(g, w)
<1>1. /\ \A a : \A t \in 0..6 : Steps(a, t) = Starts(a, m[t], c[t])
      /\ \A i, a : acc_gang_iteration(i, a) = a + i * (c[1] * loop.stride)
      /\ \A i, a : acc_worker_iteration(i, a) = a + i * (c[3] * loop.stride)
  BY NestFacts
<1>2. /\ t0 \in Steps(loop.lower, 0)
      /\ t1 \in Steps(acc_gang_iteration(g, t0), 2)
      /\ t2 \in Steps(acc_worker_iteration(w, t1), 4)
      /\ v \in Steps(t2, 5) /\ x \in Steps(v, 6)
  BY <1>1 DEF IsPath
<1> QED  BY <1>2, TurnsOfNest DEF IsTurn

(* The iterations of a work-item.                                          *)
Of(g, w) == {p[5] : p \in LoopNest(g, w)}

LEMMA WorkIsShared ==
  ASSUME Inputs, NEW m, NEW c, IsNest(best.tiles, m, c)
  PROVE  /\ \A item \in WorkItems : Of(item[1], item[2]) \subseteq Iterations
         /\ \A x \in Iterations : \E item \in WorkItems : x \in Of(item[1], item[2])
         /\ \A i, j \in WorkItems : \A x \in Of(i[1], i[2]) : x \in Of(j[1], j[2]) => i = j
         /\ \A item \in WorkItems : Work(item[1], item[2]) = SetToBag(Of(item[1], item[2]))
<1>1. m[1] \in Nat /\ m[3] \in Nat /\ WorkItems = (0..(m[1] - 1)) \X (0..(m[3] - 1))
  BY NestFacts
<1>2. \A item \in WorkItems : /\ item[1] \in 0..(m[1] - 1) /\ item[2] \in 0..(m[3] - 1)
                              /\ item[1] \in Nat /\ item[2] \in Nat
                              /\ item = <<item[1], item[2]>>
  BY <1>1
<1>3. ASSUME NEW item \in WorkItems, NEW p \in LoopNest(item[1], item[2])
      PROVE  /\ p[5] \in Iterations
             /\ \E t0, g0, t1, w1, t2, v :
                  /\ p = <<t0, t1, t2, v, p[5]>>
                  /\ IsPath(m, c, item[1], item[2], p[5], t0, g0, t1, w1, t2, v)
  BY <1>2, TurnIsPath
<1>4. ASSUME NEW i \in WorkItems, NEW j \in WorkItems,
             NEW p \in LoopNest(i[1], i[2]), NEW q \in LoopNest(j[1], j[2]), p[5] = q[5]
      PROVE  i = j /\ p = q
  <2>1. PICK t0, g0, t1, w1, t2, v :
          /\ p = <<t0, t1, t2, v, p[5]>>
          /\ IsPath(m, c, i[1], i[2], p[5], t0, g0, t1, w1, t2, v)
    BY <1>3
  <2>2. PICK s0, h0, s1, u1, s2, z :
          /\ q = <<s0, s1, s2, z, q[5]>>
          /\ IsPath(m, c, j[1], j[2], q[5], s0, h0, s1, u1, s2, z)
    BY <1>3
  <2>3. IsPath(m, c, j[1], j[2], p[5], s0, h0, s1, u1, s2, z)
    BY <1>4, <2>2
  <2>4. PICK x : x = p[5]
    OBVIOUS
  <2>5. i[1] = j[1] /\ i[2] = j[2] /\ t0 = s0 /\ t1 = s1 /\ t2 = s2 /\ v = z
    BY <1>2, <2>1, <2>3, PathIsUnique
  <2> QED  BY <1>2, <1>4, <2>1, <2>2, <2>5
<1>5. \A item \in WorkItems : Of(item[1], item[2]) \subseteq Iterations
  BY <1>3 DEF Of
<1>6. ASSUME NEW x \in Iterations
      PROVE  \E item \in WorkItems : x \in Of(item[1], item[2])
  <2>1. PICK g \in 0..(m[1] - 1), w \in 0..(m[3] - 1) : \E t0, g0, t1, w1, t2, v :
          IsPath(m, c, g, w, x, t0, g0, t1, w1, t2, v)
    BY PathExists
  <2>2. PICK t0, g0, t1, w1, t2, v : IsPath(m, c, g, w, x, t0, g0, t1, w1, t2, v)
    BY <2>1
  <2>3. <<t0, t1, t2, v, x>> \in LoopNest(g, w)
    BY <2>2, PathIsTurn
  <2>4. <<t0, t1, t2, v, x>>[5] = x
    OBVIOUS
  <2>5. x \in Of(g, w)
    BY <2>3, <2>4 DEF Of
  <2>6. <<g, w>> \in WorkItems /\ <<g, w>>[1] = g /\ <<g, w>>[2] = w
    BY <1>1
  <2> QED  BY <2>5, <2>6
<1>7. ASSUME NEW i \in WorkItems, NEW j \in WorkItems,
             NEW x \in Of(i[1], i[2]), x \in Of(j[1], j[2])
      PROVE  i = j
  BY <1>4, <1>7 DEF Of
<1>8. ASSUME NEW item \in WorkItems
      PROVE  Work(item[1], item[2]) = SetToBag(Of(item[1], item[2]))
  <2> DEFINE nest == LoopNest(item[1], item[2])
  <2>1. ASSUME NEW x \in {p[5] : p \in nest}
        PROVE  Cardinality({p \in nest : p[5] = x}) = 1
    <3>1. PICK q \in nest : q[5] = x
      OBVIOUS
    <3>2. \A p \in nest : p[5] = x => p = q
      BY <1>4, <3>1
    <3>3. {p \in nest : p[5] = x} = {q}
      BY <3>1, <3>2
    <3> QED  BY <3>3, FS_Singleton
  <2> QED  BY <2>1 DEF Work, SetToBag, Of
<1> QED  BY <1>5, <1>6, <1>7, <1>8

-----------------------------------------------------------------------------
(* What the work-items that are done have executed.                        *)
Done == UNION {Of(item[1], item[2]) : item \in WorkItems \ pending}

ExecutedInv ==
  /\ pc # "run" => executed = SetToBag({}) /\ pending = {}
  /\ pc = "run" => pending \subseteq WorkItems /\ executed = SetToBag(Done)

LEMMA OfStays ==
  ASSUME UNCHANGED <<inputVars, selectVars>>
  PROVE  /\ WorkItems' = WorkItems
         /\ \A g, w : Of(g, w)' = Of(g, w)
<1>1. loop' = loop /\ context' = context /\ best' = best
  BY DEF inputVars, selectVars
<1>2. \A g, w : Of(g, w)' = Of(g, w)
  BY <1>1 DEF Of, LoopNest, Steps, acc_gang_iteration, acc_worker_iteration
<1> QED  BY <1>1, <1>2 DEF WorkItems

LEMMA SetBags ==
  /\ EmptyBag = SetToBag({})
  /\ \A S : BagToSet(SetToBag(S)) = S
  /\ \A S, T : S \cap T = {} => SetToBag(S) (+) SetToBag(T) = SetToBag(S \cup T)
<1>1. \A S, T : S \cap T = {} => SetToBag(S) (+) SetToBag(T) = SetToBag(S \cup T)
  <2> SUFFICES ASSUME NEW S, NEW T, S \cap T = {}
               PROVE  SetToBag(S) (+) SetToBag(T) = SetToBag(S \cup T)
    OBVIOUS
  <2>1. /\ DOMAIN SetToBag(S) = S /\ DOMAIN SetToBag(T) = T
        /\ \A x \in S : SetToBag(S)[x] = 1
        /\ \A x \in T : SetToBag(T)[x] = 1
    BY DEF SetToBag
  <2>2. ASSUME NEW x \in S \cup T
        PROVE  (IF x \in S THEN SetToBag(S)[x] ELSE 0) + (IF x \in T THEN SetToBag(T)[x] ELSE 0) = 1
    <3>1. CASE x \in S /\ x \notin T
      <4>1. SetToBag(S)[x] = 1
        BY <2>1, <3>1
      <4> QED  BY <3>1, <4>1
    <3>2. CASE x \in T /\ x \notin S
      <4>1. SetToBag(T)[x] = 1
        BY <2>1, <3>2
      <4> QED  BY <3>2, <4>1
    <3> QED  BY <3>1, <3>2
  <2> QED  BY <2>1, <2>2 DEF (+), SetToBag
<1>2. EmptyBag = SetToBag({})
  BY DEF EmptyBag, SetToBag
<1>3. \A S : BagToSet(SetToBag(S)) = S
  BY DEF BagToSet, SetToBag
<1> QED  BY <1>1, <1>2, <1>3

LEMMA RunTilesAreNested ==
  ASSUME SelectInv, pc = "run"
  PROVE  \E m, c : IsNest(best.tiles, m, c)
<1>1. PICK i, v : IsBest(i, v)
  BY DEF SelectInv, BestInv
<1> QED  BY <1>1, MatchingFacts DEF IsBest, SelectInv

(* A work-item executes iterations of the loop not executed before.        *)
LEMMA RunExecutesSome ==
  ASSUME SelectInv, ExecutedInv, pc = "run",
         NEW g, NEW w, RunWorkItem(g, w)
  PROVE  /\ <<g, w>> \in WorkItems
         /\ Of(g, w) \subseteq Iterations /\ Of(g, w) \cap Done = {}
         /\ executed' = executed (+) SetToBag(Of(g, w))
<1>1. PICK m, c : IsNest(best.tiles, m, c)
  BY RunTilesAreNested
<1>2. PICK item \in WorkItems : item = <<g, w>>
  BY DEF RunWorkItem, ExecutedInv
<1>3. item \in pending /\ item[1] = g /\ item[2] = w
  BY <1>2 DEF RunWorkItem
<1>4. Inputs
  BY DEF SelectInv
<1>5. Of(g, w) \subseteq Iterations /\ Work(g, w) = SetToBag(Of(g, w))
  BY <1>1, <1>3, <1>4, WorkIsShared
<1>6. Of(g, w) \cap Done = {}
  <2> SUFFICES ASSUME NEW x \in Of(g, w), NEW j \in WorkItems \ pending, x \in Of(j[1], j[2])
               PROVE  FALSE
    BY DEF Done
  <2>1. \A i, k1 \in WorkItems : \A y \in Of(i[1], i[2]) : y \in Of(k1[1], k1[2]) => i = k1
    BY <1>1, <1>4, WorkIsShared
  <2>2. item = j
    BY <1>3, <2>1
  <2> QED  BY <1>3, <2>2
<1> QED  BY <1>2, <1>5, <1>6 DEF RunWorkItem

LEMMA NextKeepsExecuted == SelectInv /\ ExecutedInv /\ [Next]_vars => ExecutedInv'
<1> SUFFICES ASSUME SelectInv, ExecutedInv, [Next]_vars PROVE ExecutedInv'
  OBVIOUS
<1>1. CASE acc_eval_kernel_version
  <2>1. pc = "select" /\ pc' # "run" /\ executed' = executed /\ pending' = pending
    BY <1>1 DEF acc_eval_kernel_version, Evaluate
  <2> QED  BY <2>1 DEF ExecutedInv
<1>2. CASE acc_build_ocl_kernel
  <2>1. /\ pc = "select" /\ executed' = executed /\ UNCHANGED inputVars
        /\ IF pc' = "run" THEN pending' = WorkItems ELSE pending' = pending
    BY <1>2 DEF acc_build_ocl_kernel
  <2>2. WorkItems' = WorkItems
    BY <2>1 DEF WorkItems, inputVars
  <2>3. pc' = "run" => Done' = {}
    BY <2>1, <2>2 DEF Done
  <2> QED  BY <2>1, <2>2, <2>3 DEF ExecutedInv
<1>3. ASSUME NEW g, NEW w, RunWorkItem(g, w) PROVE ExecutedInv'
  <2>r. pc = "run"
    BY <1>3 DEF ExecutedInv, RunWorkItem
  <2>1. /\ <<g, w>> \in WorkItems
        /\ Of(g, w) \cap Done = {}
        /\ executed' = executed (+) SetToBag(Of(g, w))
    BY <1>3, <2>r, RunExecutesSome
  <2>2. UNCHANGED <<inputVars, selectVars>> /\ pending' = pending \ {<<g, w>>} /\ pc' = pc
        /\ <<g, w>> \in pending
    BY <1>3 DEF RunWorkItem, selectVars
  <2>3. WorkItems' = WorkItems /\ \A h, u : Of(h, u)' = Of(h, u)
    BY <2>2, OfStays
  <2>4. WorkItems' \ pending' = (WorkItems \ pending) \cup {<<g, w>>}
    BY <2>1, <2>2, <2>3
  <2>5. Done' = UNION {Of(item[1], item[2]) : item \in WorkItems' \ pending'}
    <3>1. Done' = UNION {Of(item[1], item[2])' : item \in WorkItems' \ pending'}
      BY DEF Done
    <3> QED  BY <2>3, <3>1
  <2>6. Done' = Done \cup Of(g, w)
    <3>1. <<g, w>>[1] = g /\ <<g, w>>[2] = w
      OBVIOUS
    <3> QED  BY <2>4, <2>5, <3>1 DEF Done
  <2>7. executed' = SetToBag(Done')
    <3>1. Done \cap Of(g, w) = {} /\ executed = SetToBag(Done)
      BY <2>1, <2>r DEF ExecutedInv
    <3> QED  BY <2>1, <2>6, <3>1, SetBags
  <2> QED  BY <2>r, <2>2, <2>3, <2>7 DEF ExecutedInv
<1>4. CASE UNCHANGED vars
  <2>1. /\ UNCHANGED <<inputVars, selectVars>> /\ pc' = pc /\ pending' = pending
        /\ executed' = executed
    BY <1>4 DEF vars, selectVars
  <2>2. WorkItems' = WorkItems /\ \A h, u : Of(h, u)' = Of(h, u)
    BY <2>1, OfStays
  <2>3. Done' = Done
    BY <2>1, <2>2 DEF Done
  <2> QED  BY <2>1, <2>2, <2>3 DEF ExecutedInv
<1> QED  BY <1>1, <1>2, <1>3, <1>4 DEF Next

TilingInv == SelectInv /\ ExecutedInv

LEMMA TilingInvHolds == EvenSpec => []TilingInv
<1>1. EvenInit => TilingInv
  <2>1. EvenInit => ExecutedInv
    BY SetBags DEF EvenInit, Init, ExecutedInv
  <2> QED  BY <2>1, InitSelect DEF TilingInv
<1>2. TilingInv /\ [Next]_vars => TilingInv'
  BY NextKeepsSelect, NextKeepsExecuted DEF TilingInv
<1> QED  BY <1>1, <1>2, PTL DEF EvenSpec

LEMMA AllDone == TilingInv => EveryIterationOnce
<1> SUFFICES ASSUME TilingInv, pc = "run", pending = {}
             PROVE  executed = SetToBag(Iterations)
  BY DEF EveryIterationOnce
<1>1. PICK m, c : IsNest(best.tiles, m, c)
  BY RunTilesAreNested DEF TilingInv
<1>2. /\ \A item \in WorkItems : Of(item[1], item[2]) \subseteq Iterations
      /\ \A x \in Iterations : \E item \in WorkItems : x \in Of(item[1], item[2])
  BY <1>1, WorkIsShared DEF TilingInv, SelectInv
<1>3. Done = UNION {Of(item[1], item[2]) : item \in WorkItems}
  <2>1. WorkItems \ pending = WorkItems
    OBVIOUS
  <2> QED  BY <2>1 DEF Done
<1>4. Done = Iterations
  BY <1>2, <1>3
<1> QED  BY <1>4 DEF TilingInv, ExecutedInv

(* For any loop, launch and versions of which those that match divide the  *)
(* loop evenly and are for the launch: when the work-items are done, every *)
(* iteration of the loop was executed, once, and nothing else was          *)
(* (host-context.h, opencl/libopenacc.cl).                                 *)
THEOREM EveryIterationIsExecutedOnce == EvenSpec => []EveryIterationOnce
BY TilingInvHolds, AllDone, PTL

LEMMA SameBags ==
  /\ Loop!EmptyBag = EmptyBag
  /\ \A S : Loop!SetToBag(S) = SetToBag(S) /\ Loop!BagToSet(S) = BagToSet(S)
  /\ \A A, B : Loop!(+)(A, B) = A (+) B
<1>1. Loop!EmptyBag = EmptyBag
  BY DEF EmptyBag, SetToBag, Loop!EmptyBag, Loop!SetToBag
<1>2. \A S : Loop!SetToBag(S) = SetToBag(S) /\ Loop!BagToSet(S) = BagToSet(S)
  BY DEF SetToBag, BagToSet, Loop!SetToBag, Loop!BagToSet
<1>3. \A A, B : Loop!(+)(A, B) = A (+) B
  BY DEF (+), Loop!(+)
<1> QED  BY <1>1, <1>2, <1>3

(* ... and in whatever order they run, the tiled kernel implements a       *)
(* parallel loop: a step executes iterations of the loop that no step      *)
(* before has executed.                                                    *)
THEOREM TilesImplementParallelLoop == EvenSpec => ImplementsParallelLoop
<1>1. EvenInit => Loop!LoopInit
  BY SameBags DEF EvenInit, Init, Loop!LoopInit
<1>2. TilingInv /\ [Next]_vars => [Loop!ExecuteSome]_<<Iterations, executed>>
  <2> SUFFICES ASSUME TilingInv, [Next]_vars
               PROVE  Loop!ExecuteSome \/ UNCHANGED <<Iterations, executed>>
    OBVIOUS
  <2>1. Iterations' = Iterations
    <3>1. loop' = loop
      BY DEF Next, acc_eval_kernel_version, Evaluate, acc_build_ocl_kernel, RunWorkItem,
             vars, inputVars
    <3> QED  BY <3>1 DEF Iterations
  <2>2. CASE executed' = executed
    BY <2>1, <2>2
  <2>3. ASSUME NEW g, NEW w, RunWorkItem(g, w) PROVE Loop!ExecuteSome
    <3>1. pc = "run"
      BY <2>3 DEF TilingInv, ExecutedInv, RunWorkItem
    <3>2. /\ Of(g, w) \subseteq Iterations /\ Of(g, w) \cap Done = {}
          /\ executed' = executed (+) SetToBag(Of(g, w))
      BY <2>3, <3>1, RunExecutesSome DEF TilingInv
    <3>3. BagToSet(executed) = Done
      BY <3>1, SetBags DEF TilingInv, ExecutedInv
    <3>4. Of(g, w) \in SUBSET Loop!Remaining
      BY <3>2, <3>3, SameBags DEF Loop!Remaining
    <3> QED  BY <2>1, <3>2, <3>4, SameBags DEF Loop!ExecuteSome
  <2> QED
    BY <2>2, <2>3 DEF Next, acc_eval_kernel_version, Evaluate, acc_build_ocl_kernel, vars
<1> QED  BY <1>1, <1>2, TilingInvHolds, PTL DEF EvenSpec, ImplementsParallelLoop, Loop!LoopSpec
=============================================================================
