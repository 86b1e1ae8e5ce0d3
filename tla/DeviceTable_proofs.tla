------------------------- MODULE DeviceTable_proofs -------------------------
(***************************************************************************)
(* Theorems about DeviceTable, for any platforms and any types: the        *)
(* numbers of a type lead to devices of that type.                         *)
(***************************************************************************)
EXTENDS DeviceTable, TLAPS

Mapping == pc \in {"platform", "device", "done"}

(* What was counted and retrieved: the pieces of the array of devices      *)
(* follow each other, and a platform has all its devices or none.          *)
CountsInv ==
  \A p \in Platforms : num_devices[p] \in {0, Len(listing[p].models)}

Retrieved(p) == pc \notin {"count", "retrieve"} \/ (pc = "retrieve" /\ p < i)

BasesInv ==
  /\ pc = "count" => found = <<>>
  /\ pc = "retrieve" =>
       Len(found) = IF i = 1 THEN 0 ELSE base[i - 1] + num_devices[i - 1]
  /\ \A p \in Platforms : Retrieved(p) =>
       /\ base[p] = IF p = 1 THEN 0 ELSE base[p - 1] + num_devices[p - 1]
       /\ base[p] + num_devices[p] <= Len(found)

(* The sum is the number of devices retrieved, unless a platform has none. *)
(* A sum of the first p platforms is s[p].                                 *)
Counted(p) == pc # "count" \/ p < i

Sums(s) ==
  /\ s[0] = 0
  /\ \A p \in Platforms : Counted(p) => s[p] = s[p - 1] + num_devices[p]
  /\ total = IF pc = "count" THEN s[i - 1] ELSE s[Len(listing)]
  /\ pc = "retrieve" => Len(found) = s[i - 1]
  /\ pc \notin {"count", "retrieve"} => Len(found) = s[Len(listing)]

SumInv ==
  \/ \E p \in Platforms : Counted(p) /\ num_devices[p] = 0
  \/ \E s \in [0..Len(listing) -> Nat] : Sums(s)

(* The platforms mapped have devices; those of the platform being mapped   *)
(* are at idx.                                                             *)
PlatformsInv ==
  /\ pc \in {"count", "retrieve", "table"} => idx = 0
  /\ pc = "table" => i = 1
  /\ pc = "platform" =>
       /\ idx = base[i]
       /\ \A p \in 1..(i - 1) : num_devices[p] # 0
  /\ pc = "device" =>
       /\ idx = base[i]
       /\ \A p \in 1..i : num_devices[p] # 0
  /\ pc = "done" => \A p \in Platforms : num_devices[p] # 0

(* The piece of devices of one model that was seen last.                   *)
PieceInv ==
  pc = "device" =>
    /\ j \in 1..num_devices[i]
    /\ base_t >= idx
    /\ base_t + cnt_t = idx + j
    /\ t \in Models
    /\ VendorOf[t] = listing[i].vendor
    /\ \A k \in base_t..(base_t + cnt_t - 1) : found[k + 1] = t
    /\ listing[i].vendor \in Vendors
    /\ devices[listing[i].vendor] = [first |-> idx, num |-> num_devices[i]]

IndexesOf(dev) == devices[dev].first..(devices[dev].first + devices[dev].num - 1)

OfVendor(k, v) == found[k + 1] \in Models /\ VendorOf[found[k + 1]] = v

ModelsInv ==
  Mapping =>
    \A m \in Models : \A k \in IndexesOf(m) : k < Len(found) /\ found[k + 1] = m

VendorsInv ==
  Mapping =>
    \A v \in Vendors : \A k \in IndexesOf(v) :
      /\ k < Len(found)
      /\ \/ OfVendor(k, v)
         \/ pc = "device" /\ v = listing[i].vendor /\ k >= idx + j

AnyInv ==
  Mapping => devices[acc_device_any] = [first |-> 0, num |-> total]

TableInv ==
  /\ TypeOK /\ CountsInv /\ BasesInv /\ SumInv /\ PlatformsInv
  /\ PieceInv /\ ModelsInv /\ VendorsInv /\ AnyInv /\ PiecesCoverPlatform

-----------------------------------------------------------------------------
LEMMA ListingFacts ==
  ASSUME TypeOK
  PROVE  /\ Len(listing) \in Nat \ {0}
         /\ Platforms = 1..Len(listing)
         /\ \A p \in Platforms :
              /\ listing[p].models \in Seq(Models \cup {Unknown})
              /\ listing[p].vendor \in Vendors \cup {Unknown}
<1>1. listing \in Seq([vendor : Vendors \cup {Unknown},
                       models : Seq(Models \cup {Unknown})])
      /\ listing # <<>>
  BY ListingsAssumption DEF TypeOK
<1> DEFINE P == [vendor : Vendors \cup {Unknown}, models : Seq(Models \cup {Unknown})]
<1>2. listing \in Seq(P) /\ listing # <<>>
  BY <1>1
<1> HIDE DEF P
<1>3. Len(listing) \in Nat \ {0} /\ \A p \in 1..Len(listing) : listing[p] \in P
  BY <1>2
<1> QED  BY <1>3 DEF Platforms, P

LEMMA RegisterType ==
  ASSUME TypeOK, NEW dev \in Types, NEW first \in Nat, NEW num \in Nat,
         Register(dev, first, num)
  PROVE  devices' \in [Types -> [first : Nat, num : Nat]]
BY DEF TypeOK, Register

(* The loops over the platforms.                                           *)
LEMMA NextPlatformType ==
  ASSUME TypeOK, NEW phase \in {"retrieve", "table"}, NextPlatform(phase),
         pc \in {"count", "retrieve"}
  PROVE  i' \in Platforms /\ pc' \in {"count", "retrieve", "table"}
BY ListingFacts DEF TypeOK, NextPlatform, Platforms

LEMMA TypeStep == TableInv /\ [Next]_vars => TypeOK'
<1> SUFFICES ASSUME TableInv, [Next]_vars PROVE TypeOK'
  OBVIOUS
<1> USE DEF TableInv
<1>0. Platforms = 1..Len(listing) /\ Len(listing) \in Nat \ {0}
  BY ListingFacts
<1>1. CASE CountDevices
  <2>1. Len(listing[i].models) \in Nat
    BY ListingFacts DEF TypeOK
  <2>2. i' \in Platforms /\ pc' \in {"count", "retrieve", "table"}
    BY <1>1, NextPlatformType DEF CountDevices
  <2>3. num_devices' \in [Platforms -> Nat] /\ total' \in Nat
    BY <1>1, <2>1 DEF CountDevices, TypeOK
  <2> QED  BY <1>1, <2>2, <2>3 DEF CountDevices, TypeOK, platformVars, Platforms
<1>2. CASE RetrieveDevices
  <2>1. listing[i].models \in Seq(Models \cup {Unknown}) /\ i \in Platforms
    BY ListingFacts DEF TypeOK
  <2>2. i' \in Platforms /\ pc' \in {"count", "retrieve", "table"}
    BY <1>2, NextPlatformType DEF RetrieveDevices
  <2>3. found' \in Seq(Models \cup {Unknown}) /\ num_devices' \in [Platforms -> Nat]
    <3>1. CASE UNCHANGED num_devices /\ found' = found \o listing[i].models
      <4>1. found \in Seq(Models \cup {Unknown})
        BY DEF TypeOK
      <4>2. found \o listing[i].models \in Seq(Models \cup {Unknown})
        BY <2>1, <4>1
      <4> QED  BY <3>1, <4>2 DEF TypeOK
    <3>2. CASE UNCHANGED found /\ num_devices' = [num_devices EXCEPT ![i] = 0]
      BY <3>2 DEF TypeOK
    <3> QED  BY <1>2, <3>1, <3>2 DEF RetrieveDevices
  <2>4. base' \in [Platforms -> Nat]
    BY <1>2 DEF RetrieveDevices, TypeOK
  <2> QED
    BY <1>2, <2>2, <2>3, <2>4 DEF RetrieveDevices, TypeOK, platformVars, Platforms
<1>3. CASE ClearTable
  <2>1. devices' \in [Types -> [first : Nat, num : Nat]]
    BY <1>3 DEF ClearTable, TypeOK, NoDevices
  <2> QED  BY <1>3, <2>1 DEF ClearTable, TypeOK, collectVars, platformVars, Platforms
<1>4. CASE UnknownPlatform \/ UnknownDevice
  BY <1>4 DEF UnknownPlatform, UnknownDevice, Stop, TypeOK, collectVars, platformVars, Platforms
<1>5. CASE NoFirstDevice \/ FirstDevice
  <2>1. devices' \in [Types -> [first : Nat, num : Nat]]
    <3>1. listing[i].vendor \in Types /\ idx \in Nat /\ num_devices[i] \in Nat
      BY <1>5 DEF NoFirstDevice, FirstDevice, Types, TypeOK
    <3>2. Register(listing[i].vendor, idx, num_devices[i])
      BY <1>5 DEF NoFirstDevice, FirstDevice
    <3> QED  BY <3>1, <3>2, RegisterType
  <2>2. /\ pc' \in {"crash", "device", "exit"}
        /\ j' \in Nat /\ t' \in Models \cup {Unknown} /\ base_t' \in Nat /\ cnt_t' \in Nat
        /\ UNCHANGED <<listing, i, collectVars, idx>>
    BY <1>5 DEF NoFirstDevice, FirstDevice, Stop, TypeOK, Known, platformVars
  <2> QED  BY <2>1, <2>2 DEF TypeOK, collectVars, Platforms
<1>6. CASE NextDevice
  <2>1. Register(t, base_t, cnt_t) => devices' \in [Types -> [first : Nat, num : Nat]]
    <3>1. t \in Types /\ base_t \in Nat /\ cnt_t \in Nat
      BY <1>6 DEF NextDevice, NextModel, PieceInv, Types, TypeOK
    <3> QED  BY <3>1, RegisterType
  <2>2. /\ t' \in Models /\ j' \in Nat
        /\ UNCHANGED <<listing, pc, i, collectVars, idx>>
    BY <1>6 DEF NextDevice, NextModel, Known, TypeOK
  <2>3. base_t' \in Nat /\ cnt_t' \in Nat /\ devices' \in [Types -> [first : Nat, num : Nat]]
    BY <1>6, <2>1 DEF NextDevice, NextModel, TypeOK
  <2> QED  BY <2>2, <2>3 DEF TypeOK, collectVars, Platforms
<1>7. CASE LastDevice
  <2>1. devices' \in [Types -> [first : Nat, num : Nat]]
    <3>1. t \in Types /\ base_t \in Nat /\ cnt_t \in Nat
      BY <1>7 DEF LastDevice, EndPlatform, PieceInv, Types, TypeOK
    <3> QED  BY <1>7, <3>1, RegisterType DEF LastDevice, EndPlatform
  <2>2. idx' \in Nat
    BY <1>7 DEF LastDevice, EndPlatform, TypeOK
  <2>3. i' \in Platforms /\ pc' \in {"platform", "done", "abort"}
    BY <1>0, <1>7 DEF LastDevice, EndPlatform, TypeOK
  <2> QED
    BY <1>7, <2>1, <2>2, <2>3 DEF LastDevice, EndPlatform, TypeOK, collectVars, platformVars, Platforms
<1>8. CASE UNCHANGED vars
  BY <1>8 DEF vars, TypeOK, collectVars, platformVars, Platforms
<1> QED  BY <1>1, <1>2, <1>3, <1>4, <1>5, <1>6, <1>7, <1>8 DEF Next

-----------------------------------------------------------------------------
LEMMA CountsStep == TableInv /\ [Next]_vars => CountsInv'
<1> SUFFICES ASSUME TableInv, [Next]_vars PROVE CountsInv'
  OBVIOUS
<1> USE DEF TableInv
<1>1. CASE CountDevices
  BY <1>1 DEF CountDevices, CountsInv, TypeOK, Platforms
<1>2. CASE RetrieveDevices
  BY <1>2 DEF RetrieveDevices, CountsInv, TypeOK, Platforms
<1>3. CASE UNCHANGED <<listing, collectVars>>
  BY <1>3 DEF CountsInv, collectVars, Platforms
<1> QED
  BY <1>1, <1>2, <1>3
  DEF Next, ClearTable, UnknownPlatform, NoFirstDevice, FirstDevice, NextDevice,
      NextModel, UnknownDevice, LastDevice, EndPlatform, Stop, vars

(* Once the devices are collected they stay so.                            *)
Collected == pc \notin {"count", "retrieve"}

LEMMA MappingSteps ==
  ASSUME TableInv, [Next]_vars, ~CountDevices, ~RetrieveDevices
  PROVE  \/ Collected /\ Collected' /\ UNCHANGED <<listing, collectVars>>
         \/ UNCHANGED vars
BY DEF Next, ClearTable, UnknownPlatform, NoFirstDevice, FirstDevice, NextDevice,
       NextModel, UnknownDevice, LastDevice, EndPlatform, Stop, vars, Collected

LEMMA BasesStep == TableInv /\ [Next]_vars => BasesInv'
<1> SUFFICES ASSUME TableInv, [Next]_vars PROVE BasesInv'
  OBVIOUS
<1> USE DEF TableInv
<1>0. Platforms = 1..Len(listing) /\ Len(listing) \in Nat \ {0} /\ i \in Platforms
  BY ListingFacts DEF TypeOK
<1>1. CASE CountDevices
  <2>1. found' = <<>> /\ pc' \in {"count", "retrieve"} /\ (pc' = "retrieve" => i' = 1)
    BY <1>1 DEF CountDevices, BasesInv, NextPlatform
  <2>2. \A p \in Platforms' : ~Retrieved(p)'
    BY <2>1, <1>0, <1>1 DEF Retrieved, CountDevices, Platforms
  <2> QED  BY <2>1, <2>2 DEF BasesInv
<1>2. CASE RetrieveDevices
  <2>1. /\ Len(found') = Len(found) + num_devices'[i]
        /\ \A p \in Platforms : p # i => num_devices'[p] = num_devices[p]
        /\ num_devices'[i] \in Nat
    <3>1. CASE UNCHANGED num_devices /\ num_devices[i] # 0 /\ found' = found \o listing[i].models
      <4>1. found \in Seq(Models \cup {Unknown}) /\ listing[i].models \in Seq(Models \cup {Unknown})
        BY ListingFacts DEF TypeOK
      <4>2. Len(found \o listing[i].models) = Len(found) + Len(listing[i].models)
        BY <4>1
      <4>3. num_devices[i] = Len(listing[i].models)
        BY <1>0, <3>1 DEF CountsInv
      <4> QED  BY <3>1, <4>2, <4>3, <1>0 DEF TypeOK
    <3>2. CASE UNCHANGED found /\ num_devices' = [num_devices EXCEPT ![i] = 0]
      <4>1. Len(found) \in Nat
        BY DEF TypeOK
      <4> QED  BY <1>0, <3>2, <4>1 DEF TypeOK
    <3> QED  BY <1>2, <3>1, <3>2 DEF RetrieveDevices
  <2>2. /\ base' = [base EXCEPT ![i] = Len(found)]
        /\ Platforms' = Platforms
        /\ IF i < Len(listing) THEN i' = i + 1 /\ pc' = "retrieve"
           ELSE i' = 1 /\ pc' = "table"
        /\ pc = "retrieve"
    BY <1>2 DEF RetrieveDevices, NextPlatform, Platforms
  <2>3. /\ Len(found) = IF i = 1 THEN 0 ELSE base[i - 1] + num_devices[i - 1]
        /\ \A p \in Platforms : p < i =>
             /\ base[p] = IF p = 1 THEN 0 ELSE base[p - 1] + num_devices[p - 1]
             /\ base[p] + num_devices[p] <= Len(found)
    BY <2>2 DEF BasesInv, Retrieved
  <2>4. Len(found) \in Nat /\ base \in [Platforms -> Nat] /\ num_devices \in [Platforms -> Nat]
    BY DEF TypeOK
  <2>5. base'[i] = Len(found) /\ \A p \in Platforms : p # i => base'[p] = base[p]
    BY <1>0, <2>2, <2>4
  <2>6. ASSUME NEW p \in Platforms, p <= i
        PROVE  /\ base'[p] = IF p = 1 THEN 0 ELSE base'[p - 1] + num_devices'[p - 1]
               /\ base'[p] + num_devices'[p] <= Len(found')
    <3>1. p = 1 \/ (p - 1 \in Platforms /\ p - 1 # i)
      BY <1>0, <2>6
    <3>2. p < i \/ p = i
      BY <1>0, <2>6
    <3>3. CASE p < i
      <4>1. p # i /\ base'[p] = base[p] /\ num_devices'[p] = num_devices[p]
        BY <1>0, <2>1, <2>5, <3>3
      <4>2. p = 1 \/ (base'[p - 1] = base[p - 1] /\ num_devices'[p - 1] = num_devices[p - 1])
        BY <2>1, <2>5, <3>1
      <4>3. /\ base[p] = IF p = 1 THEN 0 ELSE base[p - 1] + num_devices[p - 1]
            /\ base[p] + num_devices[p] <= Len(found)
        BY <2>3, <3>3
      <4>4. base[p] \in Nat /\ num_devices[p] \in Nat /\ Len(found') >= Len(found)
        BY <1>0, <2>1, <2>4
      <4> QED  BY <2>4, <4>1, <4>2, <4>3, <4>4
    <3>4. CASE p = i
      <4>1. p = 1 \/ (base'[p - 1] = base[p - 1] /\ num_devices'[p - 1] = num_devices[p - 1])
        BY <2>1, <2>5, <3>1
      <4> QED  BY <2>1, <2>3, <2>4, <2>5, <3>4, <4>1
    <3> QED  BY <3>2, <3>3, <3>4
  <2>7. pc' = "retrieve" => Len(found') = base'[i' - 1] + num_devices'[i' - 1] /\ i' # 1
    BY <1>0, <2>1, <2>2, <2>5
  <2>8. \A p \in Platforms : Retrieved(p)' => p <= i
    BY <1>0, <2>2 DEF Retrieved
  <2> QED  BY <2>2, <2>6, <2>7, <2>8 DEF BasesInv
<1>3. CASE ~CountDevices /\ ~RetrieveDevices
  BY <1>3, MappingSteps
  DEF BasesInv, Retrieved, Collected, collectVars, Platforms, vars
<1> QED  BY <1>1, <1>2, <1>3

LEMMA SumStep == TableInv /\ [Next]_vars => SumInv'
<1> SUFFICES ASSUME TableInv, [Next]_vars PROVE SumInv'
  OBVIOUS
<1> USE DEF TableInv
<1>0. Platforms = 1..Len(listing) /\ Len(listing) \in Nat \ {0} /\ i \in Platforms
  BY ListingFacts DEF TypeOK
<1>1. CASE CountDevices
  <2>1. PICK num \in {0, Len(listing[i].models)} :
          /\ num_devices' = [num_devices EXCEPT ![i] = num]
          /\ total' = total + num
    BY <1>1 DEF CountDevices
  <2>2. /\ pc = "count" /\ listing' = listing /\ found' = found
        /\ IF i < Len(listing) THEN i' = i + 1 /\ pc' = "count"
           ELSE i' = 1 /\ pc' = "retrieve"
    BY <1>1 DEF CountDevices, NextPlatform
  <2>3. num \in Nat /\ num_devices \in [Platforms -> Nat] /\ total \in Nat
    BY <2>1, <1>0, ListingFacts DEF TypeOK
  <2>4. /\ num_devices'[i] = num
        /\ \A p \in Platforms : p # i => num_devices'[p] = num_devices[p]
    BY <1>0, <2>1, <2>3
  <2>5. \A p \in Platforms : Counted(p)' <=> p <= i
    BY <1>0, <2>2 DEF Counted
  <2>6. \A p \in Platforms : Counted(p) <=> p < i
    BY <1>0, <2>2 DEF Counted
  <2>7. CASE \E p \in Platforms : Counted(p) /\ num_devices[p] = 0
    <3>1. PICK p \in Platforms : p < i /\ num_devices[p] = 0
      BY <2>6, <2>7
    <3>2. Counted(p)' /\ num_devices'[p] = 0
      BY <1>0, <2>4, <2>5, <3>1
    <3> QED  BY <2>2, <3>2 DEF SumInv, Platforms
  <2>8. CASE \E s \in [0..Len(listing) -> Nat] : Sums(s)
    <3>1. PICK s \in [0..Len(listing) -> Nat] : Sums(s)
      BY <2>8
    <3>2. /\ s[0] = 0
          /\ total = s[i - 1]
          /\ \A p \in Platforms : p < i => s[p] = s[p - 1] + num_devices[p]
      BY <3>1, <2>2, <2>6 DEF Sums
    <3>3. [s EXCEPT ![i] = total + num] \in [0..Len(listing) -> Nat]
      <4>1. total + num \in Nat
        BY <2>3
      <4>2. \A n \in Nat : [s EXCEPT ![i] = n] \in [0..Len(listing) -> Nat]
        BY <3>1
      <4> QED  BY <4>1, <4>2
    <3>4. PICK r \in [0..Len(listing) -> Nat] : r = [s EXCEPT ![i] = total + num]
      BY <3>3
    <3>5. r[0] = 0 /\ r[i] = total + num /\ \A p \in Platforms : p # i => r[p] = s[p]
      BY <1>0, <3>1, <3>2, <3>4
    <3>6. \A p \in Platforms : p <= i => r[p] = r[p - 1] + num_devices'[p]
      <4> SUFFICES ASSUME NEW p \in Platforms, p <= i
                   PROVE  r[p] = r[p - 1] + num_devices'[p]
        OBVIOUS
      <4>1. r[p - 1] = s[p - 1]
        BY <1>0, <3>2, <3>5
      <4>2. p < i \/ p = i
        BY <1>0
      <4> QED  BY <4>1, <4>2, <1>0, <2>4, <3>2, <3>5
    <3>7. r[i] = total' /\ (i' - 1 = i \/ i = Len(listing))
      BY <1>0, <2>1, <2>2, <3>5
    <3>8. pc' = "retrieve" => Len(found') = r[i' - 1]
      BY <2>2, <3>5 DEF BasesInv
    <3>9. Sums(r)'
      BY <1>0, <2>2, <2>5, <3>5, <3>6, <3>7, <3>8 DEF Sums, Platforms
    <3> QED  BY <2>2, <3>4, <3>9 DEF SumInv
  <2> QED  BY <2>7, <2>8 DEF SumInv
<1>2. CASE RetrieveDevices
  <2>1. /\ pc = "retrieve" /\ listing' = listing /\ total' = total
        /\ IF i < Len(listing) THEN i' = i + 1 /\ pc' = "retrieve"
           ELSE i' = 1 /\ pc' = "table"
    BY <1>2 DEF RetrieveDevices, NextPlatform
  <2>2. (\A p \in Platforms : Counted(p) /\ Counted(p)') /\ Platforms' = Platforms
    BY <2>1 DEF Counted, Platforms
  <2>3. CASE num_devices' = [num_devices EXCEPT ![i] = 0]
    <3>1. num_devices'[i] = 0
      BY <1>0, <2>3 DEF TypeOK
    <3> QED  BY <1>0, <2>2, <3>1 DEF SumInv
  <2>4. CASE /\ num_devices' = num_devices /\ num_devices[i] # 0
             /\ found' = found \o listing[i].models
    <3>1. CASE \E p \in Platforms : Counted(p) /\ num_devices[p] = 0
      BY <2>2, <2>4, <3>1 DEF SumInv
    <3>2. CASE \E s \in [0..Len(listing) -> Nat] : Sums(s)
      <4>1. PICK s \in [0..Len(listing) -> Nat] : Sums(s)
        BY <3>2
      <4>2. Len(found') = Len(found) + Len(listing[i].models)
        <5>1. found \in Seq(Models \cup {Unknown}) /\ listing[i].models \in Seq(Models \cup {Unknown})
          BY <1>0, ListingFacts DEF TypeOK
        <5>2. Len(found \o listing[i].models) = Len(found) + Len(listing[i].models)
          BY <5>1
        <5> QED  BY <2>4, <5>2
      <4>3. num_devices[i] = Len(listing[i].models)
        BY <1>0, <2>4 DEF CountsInv
      <4>4. Len(found) = s[i - 1] /\ s[i] = s[i - 1] + num_devices[i]
        BY <1>0, <2>1, <2>2, <4>1 DEF Sums
      <4>5. Len(found') = s[i]
        BY <4>2, <4>3, <4>4
      <4>6. Sums(s)'
        BY <1>0, <2>1, <2>2, <2>4, <4>1, <4>5 DEF Sums
      <4> QED  BY <2>1, <4>1, <4>6 DEF SumInv
    <3> QED  BY <3>1, <3>2 DEF SumInv
  <2> QED  BY <1>2, <2>3, <2>4 DEF RetrieveDevices
<1>3. CASE ~CountDevices /\ ~RetrieveDevices
  <2>1. CASE UNCHANGED vars
    BY <2>1 DEF vars, collectVars, SumInv, Sums, Counted, Platforms
  <2>2. CASE Collected /\ Collected' /\ UNCHANGED <<listing, collectVars>>
    <3>1. Platforms' = Platforms /\ UNCHANGED <<listing, num_devices, total, found>>
      BY <2>2 DEF collectVars, Platforms
    <3>2. \A p \in Platforms : Counted(p) /\ Counted(p)'
      BY <2>2 DEF Counted, Collected
    <3>3. \A s : Sums(s) => Sums(s)'
      BY <2>2, <3>1, <3>2 DEF Sums, Collected
    <3> QED  BY <3>1, <3>2, <3>3 DEF SumInv
  <2> QED  BY <1>3, <2>1, <2>2, MappingSteps
<1> QED  BY <1>1, <1>2, <1>3

LEMMA PlatformsStep == TableInv /\ [Next]_vars => PlatformsInv' /\ PiecesCoverPlatform'
<1> SUFFICES ASSUME TableInv, [Next]_vars PROVE PlatformsInv' /\ PiecesCoverPlatform'
  OBVIOUS
<1> USE DEF TableInv
<1>0. Platforms = 1..Len(listing) /\ Len(listing) \in Nat \ {0} /\ i \in Platforms
  BY ListingFacts DEF TypeOK
<1>1. CASE CountDevices \/ RetrieveDevices
  BY <1>1 DEF CountDevices, RetrieveDevices, NextPlatform, PlatformsInv, PiecesCoverPlatform
<1>2. CASE ClearTable
  <2>1. base[1] = 0
    BY <1>0, <1>2 DEF ClearTable, BasesInv, Retrieved
  <2> QED  BY <1>0, <1>2, <2>1 DEF ClearTable, PlatformsInv, PiecesCoverPlatform, collectVars
<1>3. CASE UnknownPlatform \/ NoFirstDevice \/ UnknownDevice
  BY <1>3 DEF UnknownPlatform, NoFirstDevice, UnknownDevice, Stop, PlatformsInv, PiecesCoverPlatform
<1>4. CASE FirstDevice
  BY <1>0, <1>4 DEF FirstDevice, Stop, PlatformsInv, PiecesCoverPlatform, collectVars
<1>5. CASE NextDevice
  BY <1>5 DEF NextDevice, NextModel, PlatformsInv, PiecesCoverPlatform, collectVars
<1>6. CASE LastDevice
  <2>1. base_t + cnt_t = idx + num_devices[i]
    BY <1>6 DEF LastDevice, EndPlatform, PieceInv
  <2>2. /\ pc = "device" /\ idx' = idx + num_devices[i]
        /\ UNCHANGED <<listing, num_devices, base>>
        /\ IF i < Len(listing) THEN pc' = "platform" /\ i' = i + 1
           ELSE pc' = "done" /\ i' = i
    BY <1>6, <2>1 DEF LastDevice, EndPlatform, collectVars
  <2>3. i < Len(listing) => base[i + 1] = base[i] + num_devices[i]
    BY <1>0, <2>2 DEF BasesInv, Retrieved
  <2> QED  BY <1>0, <2>2, <2>3 DEF PlatformsInv, PiecesCoverPlatform, Platforms
<1>7. CASE UNCHANGED vars
  BY <1>7 DEF vars, collectVars, PlatformsInv, PiecesCoverPlatform, Platforms
<1> QED  BY <1>1, <1>2, <1>3, <1>4, <1>5, <1>6, <1>7 DEF Next

-----------------------------------------------------------------------------
(* What is registered concerns one entry of the table.                     *)
LEMMA RegisterEntry ==
  ASSUME TypeOK, NEW dev \in Types, NEW first, NEW num, Register(dev, first, num)
  PROVE  /\ devices'[dev] = [first |-> first, num |-> num]
         /\ \A other \in Types : other # dev => devices'[other] = devices[other]
BY DEF TypeOK, Register

LEMMA PieceStep == TableInv /\ [Next]_vars => PieceInv'
<1> SUFFICES ASSUME TableInv, [Next]_vars PROVE PieceInv'
  OBVIOUS
<1> USE DEF TableInv
<1>0. Platforms = 1..Len(listing) /\ Len(listing) \in Nat \ {0} /\ i \in Platforms
  BY ListingFacts DEF TypeOK
<1>1. CASE FirstDevice
  <2>1. CASE pc' = "device"
    <3>1. /\ listing[i].vendor \in Vendors /\ num_devices[i] \in Nat \ {0}
          /\ Register(listing[i].vendor, idx, num_devices[i])
          /\ UNCHANGED <<listing, i, num_devices, found, idx>>
          /\ j' = 1 /\ base_t' = idx /\ cnt_t' = 1
          /\ t' = DeviceAt(0) /\ Known(t') /\ idx = base[i]
      BY <1>0, <1>1, <2>1 DEF FirstDevice, Stop, collectVars, TypeOK, PlatformsInv
    <3>2. devices'[listing[i].vendor] = [first |-> idx, num |-> num_devices[i]]
      BY <3>1, RegisterEntry DEF Types
    <3>3. t' = found[idx + 1]
      BY <3>1 DEF DeviceAt, TypeOK
    <3>4. \A k \in idx..(idx + 1 - 1) : k = idx
      BY DEF TypeOK
    <3> QED  BY <3>1, <3>2, <3>3, <3>4 DEF PieceInv, Known, TypeOK
  <2> QED  BY <2>1 DEF PieceInv
<1>2. CASE NextDevice
  <2>1. /\ pc = "device" /\ j < num_devices[i] /\ j' = j + 1
        /\ t' = DeviceAt(j) /\ Known(t') /\ idx = base[i]
        /\ UNCHANGED <<listing, i, num_devices, found, idx>>
    BY <1>2 DEF NextDevice, NextModel, collectVars, PlatformsInv
  <2>2. t' = found[idx + j + 1] /\ idx \in Nat /\ j \in Nat /\ num_devices[i] \in Nat
    BY <1>0, <2>1 DEF DeviceAt, TypeOK
  <2>3. devices'[listing[i].vendor] = devices[listing[i].vendor]
    <3>1. t \in Types /\ listing[i].vendor \in Types /\ t # listing[i].vendor
      BY <2>1, TypesAssumption DEF PieceInv, Types
    <3> QED
      BY <1>2, <3>1, RegisterEntry DEF NextDevice, NextModel
  <2>4. CASE t' # t
    <3>1. base_t' = idx + j /\ cnt_t' = 1
      BY <1>2, <2>1, <2>4 DEF NextDevice, NextModel, PieceInv
    <3>2. \A k \in (idx + j)..(idx + j + 1 - 1) : k = idx + j
      BY <2>2
    <3> QED  BY <2>1, <2>2, <2>3, <3>1, <3>2 DEF PieceInv, Known
  <2>5. CASE t' = t
    <3>1. base_t' = base_t /\ cnt_t' = cnt_t + 1 /\ base_t \in Nat /\ cnt_t \in Nat
      BY <1>2, <2>1, <2>5 DEF NextDevice, NextModel, TypeOK
    <3>2. \A k \in base_t'..(base_t' + cnt_t' - 1) : found[k + 1] = t
      <4> SUFFICES ASSUME NEW k \in base_t'..(base_t' + cnt_t' - 1)
                   PROVE  found[k + 1] = t
        OBVIOUS
      <4>1. k \in base_t..(base_t + cnt_t - 1) \/ k = base_t + cnt_t
        BY <3>1
      <4>2. base_t + cnt_t = idx + j
        BY <2>1 DEF PieceInv
      <4> QED  BY <2>1, <2>2, <2>5, <4>1, <4>2 DEF PieceInv
    <3> QED  BY <2>1, <2>2, <2>3, <2>5, <3>1, <3>2 DEF PieceInv, Known
  <2> QED  BY <2>4, <2>5
<1>3. CASE UNCHANGED vars
  BY <1>3 DEF vars, collectVars, platformVars, PieceInv
<1>4. CASE ~FirstDevice /\ ~NextDevice /\ ~UNCHANGED vars
  <2>1. pc' # "device"
    BY <1>4 DEF Next, CountDevices, RetrieveDevices, NextPlatform, ClearTable,
                UnknownPlatform, NoFirstDevice, UnknownDevice, LastDevice, EndPlatform, Stop
  <2> QED  BY <2>1 DEF PieceInv
<1> QED  BY <1>1, <1>2, <1>3, <1>4

(* Steps that leave the table alone or end the mapping.                    *)
LEMMA QuietSteps ==
  ASSUME TableInv, [Next]_vars,
         ~ClearTable, ~FirstDevice, ~NextDevice, ~LastDevice
  PROVE  ~Mapping' \/ UNCHANGED vars
BY DEF Next, CountDevices, RetrieveDevices, NextPlatform, UnknownPlatform,
       NoFirstDevice, UnknownDevice, Stop, vars, Mapping

(* The piece being registered has devices of its model only.               *)
LEMMA PieceIsSound ==
  ASSUME TableInv, pc = "device"
  PROVE  /\ idx + num_devices[i] <= Len(found)
         /\ \A k \in base_t..(base_t + cnt_t - 1) : k < Len(found) /\ found[k + 1] = t
<1> USE DEF TableInv
<1>1. base[i] + num_devices[i] <= Len(found) /\ idx = base[i]
  BY ListingFacts DEF BasesInv, Retrieved, PlatformsInv, TypeOK
<1>2. /\ base_t + cnt_t = idx + j /\ j \in 1..num_devices[i]
      /\ \A k \in base_t..(base_t + cnt_t - 1) : found[k + 1] = t
  BY DEF PieceInv
<1>3. /\ idx \in Nat /\ j \in Nat /\ base_t \in Nat /\ cnt_t \in Nat
      /\ Len(found) \in Nat /\ num_devices[i] \in Nat
  BY ListingFacts DEF TypeOK
<1>4. ASSUME NEW k \in base_t..(base_t + cnt_t - 1)
      PROVE  k < Len(found)
  BY <1>1, <1>2, <1>3
<1> QED  BY <1>1, <1>2, <1>4

LEMMA ModelsStep == TableInv /\ [Next]_vars => ModelsInv'
<1> SUFFICES ASSUME TableInv, [Next]_vars PROVE ModelsInv'
  OBVIOUS
<1> USE DEF TableInv
<1>1. CASE ClearTable
  <2>1. \A m \in Models : devices'[m] = NoDevices
    BY <1>1, TypesAssumption DEF ClearTable, Types
  <2>2. \A m \in Models : IndexesOf(m)' = {}
    BY <2>1 DEF IndexesOf, NoDevices
  <2> QED  BY <2>2 DEF ModelsInv
<1>2. CASE FirstDevice
  <2>1. /\ listing[i].vendor \in Types \ Models
        /\ Register(listing[i].vendor, idx, num_devices[i])
        /\ pc = "platform" /\ found' = found
    BY <1>2, TypesAssumption DEF FirstDevice, Stop, collectVars, Types
  <2>2. \A m \in Models : devices'[m] = devices[m]
    BY <2>1, RegisterEntry DEF Types
  <2> QED  BY <2>1, <2>2 DEF ModelsInv, IndexesOf, Mapping
<1>3. CASE NextDevice \/ LastDevice
  <2>1. /\ pc = "device" /\ found' = found /\ t \in Models
        /\ UNCHANGED devices \/ Register(t, base_t, cnt_t)
    BY <1>3 DEF NextDevice, NextModel, LastDevice, EndPlatform, collectVars, PieceInv
  <2>2. CASE UNCHANGED devices
    BY <2>1, <2>2 DEF ModelsInv, IndexesOf, Mapping
  <2>3. CASE Register(t, base_t, cnt_t)
    <3>1. /\ devices'[t] = [first |-> base_t, num |-> cnt_t]
          /\ \A m \in Models : m # t => devices'[m] = devices[m]
      BY <2>1, <2>3, RegisterEntry DEF Types
    <3>2. \A m \in Models : m = t => IndexesOf(m)' = base_t..(base_t + cnt_t - 1)
      BY <3>1 DEF IndexesOf
    <3>3. \A m \in Models : m # t => IndexesOf(m)' = IndexesOf(m)
      BY <3>1 DEF IndexesOf
    <3> QED  BY <2>1, <3>2, <3>3, PieceIsSound DEF ModelsInv, Mapping
  <2> QED  BY <2>1, <2>2, <2>3
<1>4. CASE ~ClearTable /\ ~FirstDevice /\ ~NextDevice /\ ~LastDevice
  BY <1>4, QuietSteps DEF ModelsInv, IndexesOf, Mapping, vars, collectVars
<1> QED  BY <1>1, <1>2, <1>3, <1>4

LEMMA VendorsStep == TableInv /\ [Next]_vars => VendorsInv'
<1> SUFFICES ASSUME TableInv, [Next]_vars PROVE VendorsInv'
  OBVIOUS
<1> USE DEF TableInv
<1>0. i \in Platforms /\ num_devices[i] \in Nat /\ idx \in Nat /\ j \in Nat /\ Len(found) \in Nat
  BY ListingFacts DEF TypeOK
<1>1. CASE ClearTable
  <2>1. \A v \in Vendors : devices'[v] = NoDevices
    BY <1>1, TypesAssumption DEF ClearTable, Types
  <2>2. \A v \in Vendors : IndexesOf(v)' = {}
    BY <2>1 DEF IndexesOf, NoDevices
  <2> QED  BY <2>2 DEF VendorsInv
<1>2. CASE FirstDevice
  <2>1. CASE pc' = "device"
    <3> DEFINE w == listing[i].vendor
    <3>1. /\ w \in Vendors
          /\ Register(w, idx, num_devices[i])
          /\ pc = "platform" /\ UNCHANGED <<listing, i, found, idx>>
          /\ j' = 1 /\ Known(DeviceAt(0)) /\ idx = base[i]
      BY <1>2, <2>1 DEF FirstDevice, Stop, collectVars, PlatformsInv
    <3>2. /\ devices'[w] = [first |-> idx, num |-> num_devices[i]]
          /\ \A v \in Vendors : v # w => devices'[v] = devices[v]
      BY <3>1, RegisterEntry DEF Types
    <3>3. OfVendor(idx, w)
      BY <3>1, <1>0 DEF OfVendor, DeviceAt, Known
    <3>4. base[i] + num_devices[i] <= Len(found)
      BY <1>0, <3>1 DEF BasesInv, Retrieved
    <3>5. ASSUME NEW v \in Vendors, v = w, NEW k \in IndexesOf(v)'
          PROVE  k < Len(found) /\ (k = idx \/ k >= idx + 1)
      <4>1. k \in idx..(idx + num_devices[i] - 1)
        BY <3>2, <3>5 DEF IndexesOf
      <4> QED  BY <1>0, <3>1, <3>4, <4>1
    <3>6. \A v \in Vendors : v # w => IndexesOf(v)' = IndexesOf(v)
      BY <3>2 DEF IndexesOf
    <3>7. \A v \in Vendors : v # w =>
            \A k \in IndexesOf(v) : k < Len(found) /\ OfVendor(k, v)
      BY <3>1 DEF VendorsInv, Mapping
    <3>8. \A k, v : OfVendor(k, v)' <=> OfVendor(k, v)
      BY <3>1 DEF OfVendor
    <3>9. w' = w
      BY <3>1
    <3> HIDE DEF w
    <3>10. ASSUME NEW v \in Vendors, NEW k \in IndexesOf(v)'
           PROVE  /\ k < Len(found)
                  /\ OfVendor(k, v) \/ (v = w /\ k >= idx + 1)
      <4>1. CASE v = w
        BY <3>3, <3>5, <3>10, <4>1
      <4>2. CASE v # w
        BY <3>6, <3>7, <3>10, <4>2
      <4> QED  BY <4>1, <4>2
    <3> QED
      BY <2>1, <3>1, <3>8, <3>9, <3>10 DEF VendorsInv, w
  <2>2. CASE pc' # "device"
    BY <1>2, <2>2 DEF FirstDevice, Stop, VendorsInv, Mapping
  <2> QED  BY <2>1, <2>2
<1>3. CASE NextDevice \/ LastDevice
  <2>1. /\ pc = "device" /\ UNCHANGED <<found, listing>> /\ t \in Models
        /\ UNCHANGED devices \/ Register(t, base_t, cnt_t)
    BY <1>3 DEF NextDevice, NextModel, LastDevice, EndPlatform, collectVars, PieceInv
  <2>2. \A v \in Vendors : devices'[v] = devices[v]
    <3>1. CASE Register(t, base_t, cnt_t)
      <4>1. \A other \in Types : other # t => devices'[other] = devices[other]
        BY <2>1, <3>1, RegisterEntry DEF Types
      <4> QED  BY <2>1, <4>1, TypesAssumption DEF Types
    <3> QED  BY <2>1, <3>1
  <2>3. \A v \in Vendors : IndexesOf(v)' = IndexesOf(v)
    BY <2>2 DEF IndexesOf
  <2>4. \A k, v : OfVendor(k, v)' <=> OfVendor(k, v)
    BY <2>1 DEF OfVendor
  <2>5. ASSUME NEW v \in Vendors, NEW k \in IndexesOf(v)
        PROVE  k < Len(found) /\ (OfVendor(k, v) \/ (v = listing[i].vendor /\ k >= idx + j))
    BY <2>1 DEF VendorsInv, Mapping
  <2>6. \A v \in Vendors : \A k \in IndexesOf(v) : k \in Int
    BY DEF IndexesOf, TypeOK, Types
  <2>7. CASE NextDevice
    <3>1. /\ pc' = "device" /\ j' = j + 1 /\ UNCHANGED <<i, idx>>
          /\ Known(DeviceAt(j)) /\ idx = base[i]
      BY <2>7 DEF NextDevice, NextModel, PlatformsInv
    <3>2. OfVendor(idx + j, listing[i].vendor)
      BY <1>0, <3>1 DEF OfVendor, DeviceAt, Known
    <3>3. ASSUME NEW v \in Vendors, NEW k \in IndexesOf(v)
          PROVE  OfVendor(k, v) \/ (v = listing[i].vendor /\ k >= idx + (j + 1))
      <4>1. k = idx + j \/ k >= idx + (j + 1) \/ ~(k >= idx + j)
        BY <1>0, <2>6
      <4> QED  BY <2>5, <3>2, <4>1
    <3> QED  BY <2>1, <2>3, <2>4, <2>5, <3>1, <3>3 DEF VendorsInv
  <2>8. CASE LastDevice
    <3>1. j = num_devices[i]
      BY <2>8 DEF LastDevice, EndPlatform
    <3>2. devices[listing[i].vendor] = [first |-> idx, num |-> num_devices[i]]
      BY <2>1 DEF PieceInv
    <3>3. \A k \in IndexesOf(listing[i].vendor) : ~(k >= idx + j)
      BY <1>0, <3>1, <3>2 DEF IndexesOf
    <3> QED  BY <2>1, <2>3, <2>4, <2>5, <3>3 DEF VendorsInv
  <2> QED  BY <1>3, <2>7, <2>8
<1>4. CASE ~ClearTable /\ ~FirstDevice /\ ~NextDevice /\ ~LastDevice
  BY <1>4, QuietSteps DEF VendorsInv, IndexesOf, OfVendor, Mapping, vars, collectVars, platformVars
<1> QED  BY <1>1, <1>2, <1>3, <1>4

LEMMA AnyStep == TableInv /\ [Next]_vars => AnyInv'
<1> SUFFICES ASSUME TableInv, [Next]_vars PROVE AnyInv'
  OBVIOUS
<1> USE DEF TableInv
<1>1. CASE ClearTable
  BY <1>1 DEF ClearTable, AnyInv, Types, collectVars
<1>2. CASE FirstDevice \/ NextDevice \/ LastDevice
  <2>1. /\ total' = total /\ pc \in {"platform", "device"}
        /\ \/ UNCHANGED devices
           \/ \E dev \in Vendors \cup Models : \E first, num : Register(dev, first, num)
    BY <1>2 DEF FirstDevice, NextDevice, NextModel, LastDevice, EndPlatform, Stop,
                collectVars, PieceInv
  <2>2. devices'[acc_device_any] = devices[acc_device_any]
    <3>1. ASSUME NEW dev \in Vendors \cup Models, NEW first, NEW num,
                 Register(dev, first, num)
          PROVE  devices'[acc_device_any] = devices[acc_device_any]
      <4>1. \A other \in Types : other # dev => devices'[other] = devices[other]
        BY <3>1, RegisterEntry DEF Types
      <4> QED  BY <4>1, TypesAssumption DEF Types
    <3> QED  BY <2>1, <3>1
  <2> QED  BY <2>1, <2>2 DEF AnyInv, Mapping
<1>3. CASE ~ClearTable /\ ~FirstDevice /\ ~NextDevice /\ ~LastDevice
  BY <1>3, QuietSteps DEF AnyInv, Mapping, vars, collectVars
<1> QED  BY <1>1, <1>2, <1>3

-----------------------------------------------------------------------------
LEMMA InvInit == Init => TableInv
<1> SUFFICES ASSUME Init PROVE TableInv
  OBVIOUS
<1>1. listing \in Seq([vendor : Vendors \cup {Unknown},
                       models : Seq(Models \cup {Unknown})])
      /\ listing # <<>>
  BY ListingsAssumption DEF Init
<1> DEFINE P == [vendor : Vendors \cup {Unknown}, models : Seq(Models \cup {Unknown})]
<1> HIDE DEF P
<1>2. Len(listing) \in Nat \ {0}
  BY <1>1
<1>3. Platforms = 1..Len(listing) /\ 1 \in Platforms
  BY <1>2 DEF Platforms
<1>4. TypeOK
  BY <1>3 DEF Init, TypeOK, NoDevices, Types
<1>5. Sums([p \in 0..Len(listing) |-> 0])
  BY <1>2, <1>3 DEF Init, Sums, Counted
<1>6. SumInv
  <2>1. [p \in 0..Len(listing) |-> 0] \in [0..Len(listing) -> Nat]
    OBVIOUS
  <2> QED  BY <1>5, <2>1 DEF SumInv
<1>7. CountsInv /\ BasesInv /\ PlatformsInv /\ PiecesCoverPlatform
  BY <1>3 DEF Init, CountsInv, BasesInv, Retrieved, PlatformsInv, PiecesCoverPlatform
<1>8. PieceInv /\ ModelsInv /\ VendorsInv /\ AnyInv
  BY DEF Init, PieceInv, ModelsInv, VendorsInv, AnyInv, Mapping
<1> QED  BY <1>4, <1>6, <1>7, <1>8 DEF TableInv

LEMMA InvStep == TableInv /\ [Next]_vars => TableInv'
BY TypeStep, CountsStep, BasesStep, SumStep, PlatformsStep, PieceStep, ModelsStep,
   VendorsStep, AnyStep DEF TableInv

LEMMA InvAlways == Spec => []TableInv
BY InvInit, InvStep, PTL DEF Spec

(* At the end every platform has devices, so the sum is right and every    *)
(* device of a vendor's piece was looked at.                               *)
LEMMA NumbersSound == TableInv => NumbersLeadToTheirType
<1> SUFFICES ASSUME TableInv, Done, NEW dev \in Types,
                    NEW num \in 0..(acc_get_num_devices(dev) - 1)
             PROVE  /\ acc_get_device_idx(dev, num) < Len(found)
                    /\ IsOf(acc_get_device_idx(dev, num), dev)
  BY DEF NumbersLeadToTheirType
<1> USE DEF TableInv
<1>1. pc = "done"
  BY DEF Done
<1>2. devices[dev].first \in Nat /\ devices[dev].num \in Nat
  BY DEF TypeOK
<1>3. acc_get_device_idx(dev, num) \in IndexesOf(dev)
  BY <1>2 DEF acc_get_device_idx, acc_get_num_devices, IndexesOf
<1>4. CASE dev \in Models
  BY <1>1, <1>3, <1>4 DEF ModelsInv, Mapping, IsOf
<1>5. CASE dev \in Vendors
  BY <1>1, <1>3, <1>5 DEF VendorsInv, Mapping, OfVendor, IsOf
<1>6. CASE dev = acc_device_any
  <2>1. total = Len(found)
    <3>1. PICK s \in [0..Len(listing) -> Nat] : Sums(s)
      BY <1>1 DEF SumInv, PlatformsInv
    <3> QED  BY <1>1, <3>1 DEF Sums
  <2>2. devices[dev] = [first |-> 0, num |-> total]
    BY <1>1, <1>6 DEF AnyInv, Mapping
  <2>3. num < total /\ acc_get_device_idx(dev, num) = num
    BY <2>2 DEF acc_get_num_devices, acc_get_device_idx, TypeOK
  <2> QED  BY <1>6, <2>1, <2>3 DEF IsOf
<1> QED  BY <1>4, <1>5, <1>6 DEF Types

-----------------------------------------------------------------------------
(* Type correctness of the table of devices (internal/opencl-init.c).      *)
THEOREM DeviceTableTypeOK == Spec => []TypeOK
<1>1. TableInv => TypeOK
  BY DEF TableInv
<1> QED  BY <1>1, InvAlways, PTL

(* acc_get_device_idx leads to a device of the type asked for, whatever    *)
(* OpenCL lists and whichever of its queries fail.                         *)
THEOREM NumbersAlwaysLeadToTheirType == Spec => []NumbersLeadToTheirType
BY NumbersSound, InvAlways, PTL

(* The assertion at the end of each platform (internal/opencl-init.c:284)  *)
(* never fails.                                                            *)
THEOREM PiecesAlwaysCoverPlatform == Spec => []PiecesCoverPlatform
<1>1. TableInv => PiecesCoverPlatform
  BY DEF TableInv
<1> QED  BY <1>1, InvAlways, PTL

-----------------------------------------------------------------------------
(* No device is forgotten when the devices are sorted.  The pieces of a    *)
(* platform hold what it lists, and the last one ends the array.           *)
ContentsInv ==
  \A p \in Platforms : Retrieved(p) =>
    \A x \in 1..num_devices[p] : found[base[p] + x] = listing[p].models[x]

AllRetrievedInv ==
  Collected => Len(found) = base[Len(listing)] + num_devices[Len(listing)]

(* The piece seen last starts where the model changed.                     *)
PieceStartInv ==
  /\ pc = "device" => cnt_t >= 1 /\ (base_t > idx => found[base_t] # t)
  /\ pc = "done" => idx = Len(found)

OfPlatformInv ==
  pc = "device" => \A x \in idx..(idx + j - 1) : OfVendor(x, listing[i].vendor)

Registered(x) == found[x + 1] \in Models /\ x \in IndexesOf(found[x + 1])

(* The devices of the platforms mapped before are registered, with their   *)
(* model and with their vendor, and those of the pieces before this one.   *)
MappedBefore(p) == pc = "done" \/ p < i

EarlierInv ==
  Mapping => \A x \in 0..(idx - 1) :
    /\ Registered(x)
    /\ x \in IndexesOf(VendorOf[found[x + 1]])
    /\ \E p \in Platforms : MappedBefore(p) /\ OfVendor(x, listing[p].vendor)

HereInv ==
  pc = "device" => \A x \in idx..(base_t - 1) : Registered(x)

ExactInv ==
  /\ ContentsInv /\ AllRetrievedInv /\ PieceStartInv /\ OfPlatformInv
  /\ Sorted => EarlierInv /\ HereInv

LEMMA StateFacts ==
  ASSUME TableInv
  PROVE  /\ Platforms = 1..Len(listing) /\ Len(listing) \in Nat \ {0}
         /\ i \in Platforms /\ idx \in Nat /\ j \in Nat /\ base_t \in Nat /\ cnt_t \in Nat
         /\ num_devices \in [Platforms -> Nat] /\ base \in [Platforms -> Nat]
         /\ found \in Seq(Models \cup {Unknown}) /\ Len(found) \in Nat
BY ListingFacts DEF TableInv, TypeOK

LEMMA ContentsStep ==
  ASSUME TableInv, ContentsInv, AllRetrievedInv, [Next]_vars
  PROVE  ContentsInv' /\ AllRetrievedInv'
<1> USE DEF TableInv
<1>0. /\ Platforms = 1..Len(listing) /\ Len(listing) \in Nat \ {0} /\ i \in Platforms
      /\ num_devices \in [Platforms -> Nat] /\ base \in [Platforms -> Nat]
      /\ found \in Seq(Models \cup {Unknown}) /\ Len(found) \in Nat
  BY StateFacts
<1>1. CASE CountDevices
  <2>1. listing' = listing /\ pc' \in {"count", "retrieve"} /\ (pc' = "retrieve" => i' = 1)
    BY <1>1 DEF CountDevices, NextPlatform
  <2>2. \A p \in Platforms' : ~Retrieved(p)'
    BY <2>1, <1>0 DEF Retrieved, Platforms
  <2> QED  BY <2>1, <2>2 DEF ContentsInv, AllRetrievedInv, Collected
<1>2. CASE RetrieveDevices
  <2>1. /\ pc = "retrieve" /\ listing' = listing /\ base' = [base EXCEPT ![i] = Len(found)]
        /\ Platforms' = Platforms
        /\ IF i < Len(listing) THEN i' = i + 1 /\ pc' = "retrieve"
           ELSE i' = 1 /\ pc' = "table"
    BY <1>2 DEF RetrieveDevices, NextPlatform, Platforms
  <2>2. listing[i].models \in Seq(Models \cup {Unknown})
    BY <1>0, ListingFacts
  <2>3. /\ \A x \in 1..Len(found) : found'[x] = found[x]
        /\ \A p \in Platforms : p # i => num_devices'[p] = num_devices[p]
        /\ \A x \in 1..num_devices'[i] : found'[Len(found) + x] = listing[i].models[x]
        /\ Len(found') = Len(found) + num_devices'[i]
    <3>1. CASE UNCHANGED num_devices /\ num_devices[i] # 0 /\ found' = found \o listing[i].models
      <4>1. num_devices[i] = Len(listing[i].models)
        BY <1>0, <3>1 DEF CountsInv
      <4>2. \A x \in 1..Len(found) : (found \o listing[i].models)[x] = found[x]
        BY <1>0, <2>2
      <4>3. \A x \in 1..Len(listing[i].models) :
              (found \o listing[i].models)[Len(found) + x] = listing[i].models[x]
        BY <1>0, <2>2
      <4>4. Len(found \o listing[i].models) = Len(found) + Len(listing[i].models)
        BY <1>0, <2>2
      <4> QED  BY <3>1, <4>1, <4>2, <4>3, <4>4
    <3>2. CASE UNCHANGED found /\ num_devices' = [num_devices EXCEPT ![i] = 0]
      BY <1>0, <3>2
    <3> QED  BY <1>2, <3>1, <3>2 DEF RetrieveDevices
  <2>4. base'[i] = Len(found) /\ \A p \in Platforms : p # i => base'[p] = base[p]
    BY <1>0, <2>1
  <2>5. ASSUME NEW p \in Platforms, p < i, NEW x \in 1..num_devices'[p]
        PROVE  found'[base'[p] + x] = listing[p].models[x]
    <3>1. p # i /\ num_devices'[p] = num_devices[p] /\ base'[p] = base[p]
      BY <1>0, <2>3, <2>4, <2>5
    <3>2. Retrieved(p)
      BY <2>1, <2>5 DEF Retrieved
    <3>3. base[p] + num_devices[p] <= Len(found)
      BY <3>2 DEF BasesInv
    <3>4. base[p] + x \in 1..Len(found)
      BY <1>0, <2>5, <3>1, <3>3
    <3> QED  BY <2>3, <2>5, <3>1, <3>2, <3>4 DEF ContentsInv
  <2>6. \A p \in Platforms : Retrieved(p)' => p < i \/ p = i
    BY <1>0, <2>1 DEF Retrieved
  <2>7. ASSUME NEW p \in Platforms, Retrieved(p)', NEW x \in 1..num_devices'[p]
        PROVE  found'[base'[p] + x] = listing[p].models[x]
    <3>1. CASE p < i
      BY <2>5, <2>7, <3>1
    <3>2. CASE p = i
      BY <2>3, <2>4, <2>7, <3>2
    <3> QED  BY <2>6, <2>7, <3>1, <3>2
  <2>c. ContentsInv'
    BY <2>1, <2>7 DEF ContentsInv
  <2>8. AllRetrievedInv'
    BY <1>0, <2>1, <2>3, <2>4 DEF AllRetrievedInv, Collected
  <2> QED  BY <2>c, <2>8
<1>3. CASE ~CountDevices /\ ~RetrieveDevices
  BY <1>3, MappingSteps
  DEF ContentsInv, AllRetrievedInv, Retrieved, Collected, collectVars, Platforms, vars
<1> QED  BY <1>1, <1>2, <1>3

LEMMA PieceStartStep ==
  ASSUME TableInv, AllRetrievedInv, PieceStartInv, OfPlatformInv, [Next]_vars
  PROVE  PieceStartInv' /\ OfPlatformInv'
<1> USE DEF TableInv
<1>0. /\ Platforms = 1..Len(listing) /\ Len(listing) \in Nat \ {0} /\ i \in Platforms
      /\ idx \in Nat /\ j \in Nat /\ base_t \in Nat /\ cnt_t \in Nat
      /\ num_devices[i] \in Nat
  BY StateFacts
<1>1. CASE FirstDevice
  <2>1. CASE pc' = "device"
    <3>1. /\ UNCHANGED <<listing, i, found, idx>>
          /\ j' = 1 /\ base_t' = idx /\ cnt_t' = 1
          /\ Known(DeviceAt(0)) /\ idx = base[i]
      BY <1>1, <2>1 DEF FirstDevice, Stop, collectVars, PlatformsInv
    <3>2. OfVendor(idx, listing[i].vendor)
      BY <1>0, <3>1 DEF OfVendor, DeviceAt, Known
    <3>3. \A x \in idx..(idx + 1 - 1) : x = idx
      BY <1>0
    <3> QED
      BY <1>0, <2>1, <3>1, <3>2, <3>3 DEF PieceStartInv, OfPlatformInv, OfVendor
  <2>2. CASE pc' # "device"
    BY <1>1, <2>2 DEF FirstDevice, Stop, PieceStartInv, OfPlatformInv
  <2> QED  BY <2>1, <2>2
<1>2. CASE NextDevice
  <2>1. /\ pc = "device" /\ pc' = "device" /\ j' = j + 1
        /\ t' = DeviceAt(j) /\ Known(DeviceAt(j)) /\ idx = base[i]
        /\ UNCHANGED <<listing, i, found, idx>>
    BY <1>2 DEF NextDevice, NextModel, collectVars, PlatformsInv
  <2>2. OfVendor(idx + j, listing[i].vendor) /\ t' = found[idx + j + 1]
    BY <1>0, <2>1 DEF OfVendor, DeviceAt, Known
  <2>3. \A x \in idx..(idx + (j + 1) - 1) : x \in idx..(idx + j - 1) \/ x = idx + j
    BY <1>0
  <2>4. OfPlatformInv'
    BY <2>1, <2>2, <2>3 DEF OfPlatformInv, OfVendor
  <2>5. /\ base_t + cnt_t = idx + j /\ cnt_t >= 1
        /\ \A k \in base_t..(base_t + cnt_t - 1) : found[k + 1] = t
        /\ base_t > idx => found[base_t] # t
    BY <2>1 DEF PieceInv, PieceStartInv
  <2>6. CASE t' # t
    <3>1. base_t' = idx + j /\ cnt_t' = 1
      BY <1>0, <1>2, <2>1, <2>5, <2>6 DEF NextDevice, NextModel
    <3>2. idx + j - 1 \in base_t..(base_t + cnt_t - 1)
      BY <1>0, <2>5
    <3>3. found[idx + j - 1 + 1] = t
      BY <2>5, <3>2
    <3>4. idx + j - 1 + 1 = idx + j
      BY <1>0
    <3> QED  BY <2>1, <2>4, <2>6, <3>1, <3>3, <3>4 DEF PieceStartInv
  <2>7. CASE t' = t
    <3>1. base_t' = base_t /\ cnt_t' = cnt_t + 1
      BY <1>2, <2>1, <2>7 DEF NextDevice, NextModel
    <3> QED  BY <1>0, <2>1, <2>4, <2>5, <2>7, <3>1 DEF PieceStartInv
  <2> QED  BY <2>6, <2>7
<1>3. CASE LastDevice
  <2>1. /\ pc = "device" /\ idx' = idx + num_devices[i] /\ idx = base[i] /\ found' = found
        /\ pc' = "done" => i = Len(listing)
        /\ pc' # "device"
    BY <1>0, <1>3 DEF LastDevice, EndPlatform, PlatformsInv, collectVars
  <2> QED  BY <2>1 DEF PieceStartInv, OfPlatformInv, AllRetrievedInv, Collected
<1>4. CASE ClearTable
  BY <1>4 DEF ClearTable, PieceStartInv, OfPlatformInv
<1>5. CASE ~ClearTable /\ ~FirstDevice /\ ~NextDevice /\ ~LastDevice
  BY <1>5, QuietSteps
  DEF PieceStartInv, OfPlatformInv, OfVendor, Mapping, vars, collectVars, platformVars
<1> QED  BY <1>1, <1>2, <1>3, <1>4, <1>5

(* Of sorted devices those of the model being registered are in one piece, *)
(* which nothing before it is of.                                          *)
LEMMA PieceIsAlone ==
  ASSUME TableInv, ExactInv, Sorted, pc = "device",
         NEW x \in 0..(base_t - 1)
  PROVE  Registered(x) /\ found[x + 1] # t
<1> USE DEF TableInv, ExactInv
<1>0. /\ Platforms = 1..Len(listing) /\ Len(listing) \in Nat \ {0} /\ i \in Platforms
      /\ idx \in Nat /\ j \in Nat /\ base_t \in Nat /\ cnt_t \in Nat
      /\ num_devices[i] \in Nat
  BY StateFacts
<1>1. /\ VendorOf[t] = listing[i].vendor /\ base_t >= idx /\ cnt_t >= 1
      /\ base_t + cnt_t = idx + j /\ j <= num_devices[i] /\ idx = base[i]
      /\ \A k \in base_t..(base_t + cnt_t - 1) : found[k + 1] = t
  BY <1>0 DEF PieceInv, PieceStartInv, PlatformsInv
<1>2. CASE x < idx
  <2>1. x \in 0..(idx - 1)
    BY <1>0, <1>2
  <2>2. PICK p \in Platforms : p < i /\ OfVendor(x, listing[p].vendor) /\ Registered(x)
    BY <2>1 DEF EarlierInv, Mapping, MappedBefore
  <2>3. listing[p].vendor # listing[i].vendor
    BY <1>0, <2>2 DEF Sorted
  <2> QED  BY <1>1, <2>2, <2>3 DEF OfVendor
<1>3. CASE x >= idx
  <2>1. x \in idx..(base_t - 1)
    BY <1>0, <1>3
  <2>2. Registered(x)
    BY <2>1 DEF HereInv
  <2>3. SUFFICES ASSUME found[x + 1] = t PROVE FALSE
    BY <2>2
  <2> DEFINE m == listing[i].models
  <2>4. \A y \in 1..num_devices[i] : found[idx + y] = m[y]
    BY <1>0, <1>1 DEF ContentsInv, Retrieved
  <2>5. Len(m) \in Nat /\ DOMAIN m = 1..Len(m) /\ num_devices[i] <= Len(m)
    <3>1. m \in Seq(Models \cup {Unknown})
      BY <1>0, ListingFacts
    <3> QED  BY <1>0, <3>1 DEF CountsInv
  <2> HIDE DEF m
  <2> DEFINE a == x - idx + 1
             b == base_t - idx
             c == base_t - idx + 1
  <2>6. /\ a \in 1..num_devices[i] /\ b \in 1..num_devices[i] /\ c \in 1..num_devices[i]
        /\ b \in a..c
        /\ idx + a = x + 1 /\ idx + b = base_t /\ idx + c = base_t + 1
    <3>1. /\ base_t + 1 <= idx + num_devices[i] /\ x \in Nat /\ idx <= x /\ x + 1 <= base_t
      BY <1>0, <1>1, <1>3, <2>1
    <3> HIDE DEF a, b, c
    <3>2. a = x - idx + 1 /\ b = base_t - idx /\ c = base_t - idx + 1
      BY DEF a, b, c
    <3>3. a \in Nat /\ b \in Nat /\ c \in Nat
      BY <1>0, <3>1, <3>2
    <3>4. 1 <= a /\ a <= b /\ b <= c /\ c <= num_devices[i]
      BY <1>0, <3>1, <3>2
    <3> QED  BY <1>0, <3>1, <3>2, <3>3, <3>4
  <2>7. found[base_t + 1] = t
    BY <1>0, <1>1
  <2>8. m[a] = t /\ m[c] = t /\ m[b] = found[base_t]
    BY <2>3, <2>4, <2>6, <2>7
  <2>9. a \in DOMAIN m /\ c \in DOMAIN m
    BY <1>0, <2>5, <2>6
  <2> HIDE DEF a, b, c
  <2>10. m[b] = m[a]
    BY <1>0, <2>6, <2>8, <2>9 DEF Sorted, m
  <2>11. found[base_t] # t
    BY <1>0, <2>1 DEF PieceStartInv
  <2> QED  BY <2>8, <2>10, <2>11
<1> QED  BY <1>0, <1>2, <1>3

(* Registering a model or a vendor adds its own devices, and takes none    *)
(* from another.                                                           *)
LEMMA OtherIndexes ==
  ASSUME TypeOK, NEW dev \in Types, NEW first, NEW num, Register(dev, first, num)
  PROVE  /\ IndexesOf(dev)' = first..(first + num - 1)
         /\ \A other \in Types : other # dev => IndexesOf(other)' = IndexesOf(other)
<1>1. devices'[dev] = [first |-> first, num |-> num]
  BY RegisterEntry
<1>2. devices'[dev].first = first /\ devices'[dev].num = num
  BY <1>1
<1>3. IndexesOf(dev)' = first..(first + num - 1)
  BY <1>2 DEF IndexesOf
<1>4. \A other \in Types : other # dev => devices'[other] = devices[other]
  BY RegisterEntry
<1>5. \A other \in Types : other # dev => IndexesOf(other)' = IndexesOf(other)
  BY <1>4 DEF IndexesOf
<1> QED  BY <1>3, <1>5

(* The vendor of the platform keeps its devices, and a model registered    *)
(* has all those of the pieces that were seen.                             *)
LEMMA PieceRegistered ==
  ASSUME TableInv, ExactInv, Sorted, pc = "device", Register(t, base_t, cnt_t),
         UNCHANGED found
  PROVE  /\ \A x \in 0..(base_t + cnt_t - 1) : Registered(x)'
         /\ \A v \in Vendors : IndexesOf(v)' = IndexesOf(v)
<1>0. base_t \in Nat /\ cnt_t \in Nat /\ t \in Models /\ TypeOK
  BY StateFacts DEF TableInv, PieceInv
<1>1. \A other \in Types : other # t => IndexesOf(other)' = IndexesOf(other)
  <2>1. t \in Types
    BY <1>0 DEF Types
  <2> QED  BY <1>0, <2>1, OtherIndexes
<1>2. \A v \in Vendors : IndexesOf(v)' = IndexesOf(v)
  BY <1>0, <1>1, TypesAssumption DEF Types
<1>3. ASSUME NEW x \in 0..(base_t + cnt_t - 1) PROVE Registered(x)'
  <2>1. CASE x < base_t
    <3>1. x \in 0..(base_t - 1)
      BY <1>0, <2>1
    <3>2. found[x + 1] # t /\ found[x + 1] \in Models /\ x \in IndexesOf(found[x + 1])
      BY <3>1, PieceIsAlone DEF Registered
    <3>3. IndexesOf(found[x + 1])' = IndexesOf(found[x + 1])
      BY <1>1, <3>2 DEF Types, IndexesOf
    <3> QED  BY <3>2, <3>3 DEF Registered, IndexesOf
  <2>2. CASE x \in base_t..(base_t + cnt_t - 1)
    <3>1. found[x + 1] = t
      BY <2>2, PieceIsSound
    <3>2. devices'[t] = [first |-> base_t, num |-> cnt_t]
      BY <1>0, RegisterEntry DEF Types
    <3> QED  BY <1>0, <2>2, <3>1, <3>2 DEF Registered, IndexesOf
  <2> QED  BY <1>0, <2>1, <2>2
<1> QED  BY <1>2, <1>3

LEMMA SortedStep ==
  ASSUME TableInv, ExactInv, Sorted, [Next]_vars
  PROVE  EarlierInv' /\ HereInv'
<1> USE DEF TableInv, ExactInv
<1>0. /\ Platforms = 1..Len(listing) /\ Len(listing) \in Nat \ {0} /\ i \in Platforms
      /\ idx \in Nat /\ j \in Nat /\ base_t \in Nat /\ cnt_t \in Nat
      /\ num_devices[i] \in Nat
  BY StateFacts
<1>1. CASE ClearTable
  BY <1>0, <1>1 DEF ClearTable, EarlierInv, HereInv, PlatformsInv
<1>2. CASE FirstDevice
  <2>1. CASE pc' = "device"
    <3> DEFINE w == listing[i].vendor
    <3>1. /\ pc = "platform" /\ w \in Vendors
          /\ Register(w, idx, num_devices[i])
          /\ UNCHANGED <<listing, i, found, idx>> /\ base_t' = idx
      BY <1>2, <2>1 DEF FirstDevice, Stop, collectVars
    <3>2. \A other \in Types : other # w => IndexesOf(other)' = IndexesOf(other)
      BY <3>1, OtherIndexes DEF Types
    <3>3. HereInv'
      BY <1>0, <3>1 DEF HereInv
    <3>4. ASSUME NEW x \in 0..(idx - 1)
          PROVE  /\ Registered(x)'
                 /\ (x \in IndexesOf(VendorOf[found[x + 1]]))'
                 /\ (\E p \in Platforms : MappedBefore(p) /\ OfVendor(x, listing[p].vendor))'
      <4>1. PICK p \in Platforms : p < i /\ OfVendor(x, listing[p].vendor)
        BY <3>1 DEF EarlierInv, Mapping, MappedBefore
      <4>2. found[x + 1] \in Models /\ x \in IndexesOf(found[x + 1])
            /\ x \in IndexesOf(VendorOf[found[x + 1]])
        BY <3>1 DEF EarlierInv, Mapping, Registered
      <4>3. VendorOf[found[x + 1]] # w /\ VendorOf[found[x + 1]] \in Vendors
        BY <1>0, <4>1, <4>2, VendorsAssumption DEF Sorted, OfVendor
      <4>4. /\ IndexesOf(found[x + 1])' = IndexesOf(found[x + 1])
            /\ IndexesOf(VendorOf[found[x + 1]])' = IndexesOf(VendorOf[found[x + 1]])
        <5>1. found[x + 1] # w /\ found' = found
          BY <3>1, <4>2, TypesAssumption
        <5> QED  BY <3>2, <4>2, <4>3, <5>1 DEF Types, IndexesOf
      <4>5. p < i' /\ Platforms' = Platforms /\ OfVendor(x, listing[p].vendor)'
        BY <3>1, <4>1 DEF OfVendor, Platforms
      <4> QED  BY <3>1, <4>2, <4>4, <4>5 DEF Registered, MappedBefore, IndexesOf
    <3> QED  BY <3>1, <3>3, <3>4 DEF EarlierInv
  <2>2. CASE pc' # "device"
    BY <1>2, <2>2 DEF FirstDevice, Stop, EarlierInv, HereInv, Mapping
  <2> QED  BY <2>1, <2>2
<1>3. CASE NextDevice
  <2>1. /\ pc = "device" /\ pc' = "device" /\ UNCHANGED <<listing, i, found, idx>>
        /\ \/ UNCHANGED <<devices, base_t>>
           \/ Register(t, base_t, cnt_t) /\ base_t' = base_t + cnt_t
    BY <1>3 DEF NextDevice, NextModel, collectVars
  <2>2. CASE UNCHANGED <<devices, base_t>>
    BY <2>1, <2>2
    DEF EarlierInv, HereInv, Registered, IndexesOf, MappedBefore, OfVendor, Mapping, Platforms
  <2>3. CASE Register(t, base_t, cnt_t) /\ base_t' = base_t + cnt_t
    <3>1. /\ \A x \in 0..(base_t + cnt_t - 1) : Registered(x)'
          /\ \A v \in Vendors : IndexesOf(v)' = IndexesOf(v)
      BY <2>1, <2>3, PieceRegistered
    <3>2. base_t >= idx
      BY <2>1 DEF PieceInv
    <3>3. HereInv'
      BY <1>0, <2>1, <2>3, <3>1 DEF HereInv
    <3>4. ASSUME NEW x \in 0..(idx - 1)
          PROVE  /\ Registered(x)'
                 /\ (x \in IndexesOf(VendorOf[found[x + 1]]))'
                 /\ (\E p \in Platforms : MappedBefore(p) /\ OfVendor(x, listing[p].vendor))'
      <4>1. PICK p \in Platforms : p < i /\ OfVendor(x, listing[p].vendor)
        BY <2>1 DEF EarlierInv, Mapping, MappedBefore
      <4>2. found[x + 1] \in Models /\ x \in IndexesOf(VendorOf[found[x + 1]])
        BY <2>1 DEF EarlierInv, Mapping, Registered
      <4>3. IndexesOf(VendorOf[found[x + 1]])' = IndexesOf(VendorOf[found[x + 1]])
        BY <2>1, <3>1, <4>2, VendorsAssumption DEF IndexesOf
      <4>4. p < i' /\ Platforms' = Platforms /\ OfVendor(x, listing[p].vendor)'
        BY <2>1, <4>1 DEF OfVendor, Platforms
      <4>5. Registered(x)'
        BY <1>0, <3>1, <3>2
      <4> QED  BY <4>2, <4>3, <4>4, <4>5 DEF MappedBefore
    <3> QED  BY <2>1, <3>3, <3>4 DEF EarlierInv
  <2> QED  BY <2>1, <2>2, <2>3
<1>4. CASE LastDevice
  <2>1. /\ pc = "device" /\ j = num_devices[i] /\ Register(t, base_t, cnt_t)
        /\ idx' = idx + num_devices[i] /\ UNCHANGED <<listing, found>>
        /\ base_t + cnt_t = idx + j /\ listing[i].vendor \in Vendors
        /\ devices[listing[i].vendor] = [first |-> idx, num |-> num_devices[i]]
    BY <1>4 DEF LastDevice, EndPlatform, PieceInv, collectVars
  <2>2. pc' = "done" \/ (pc' = "platform" /\ i' = i + 1)
    BY <1>4, <2>1 DEF LastDevice, EndPlatform
  <2>3. /\ \A x \in 0..(base_t + cnt_t - 1) : Registered(x)'
        /\ \A v \in Vendors : IndexesOf(v)' = IndexesOf(v)
    BY <2>1, PieceRegistered
  <2>a. idx' = base_t + cnt_t
    BY <1>0, <2>1
  <2>4. ASSUME NEW x \in 0..(idx' - 1)
        PROVE  /\ Registered(x)'
               /\ (x \in IndexesOf(VendorOf[found[x + 1]]))'
               /\ (\E p \in Platforms : MappedBefore(p) /\ OfVendor(x, listing[p].vendor))'
    <3>a. x \in 0..(base_t + cnt_t - 1)
      BY <1>0, <2>a
    <3>1. Registered(x)'
      BY <2>3, <3>a
    <3>2. PICK p \in Platforms : p <= i /\ OfVendor(x, listing[p].vendor)
                                /\ x \in IndexesOf(VendorOf[found[x + 1]])
      <4>1. CASE x < idx
        <5>1. x \in 0..(idx - 1)
          BY <1>0, <4>1
        <5>2. PICK p \in Platforms : MappedBefore(p) /\ OfVendor(x, listing[p].vendor)
          BY <2>1, <5>1 DEF EarlierInv, Mapping
        <5>3. p <= i
          BY <1>0, <2>1, <5>2 DEF MappedBefore
        <5>4. x \in IndexesOf(VendorOf[found[x + 1]])
          BY <2>1, <5>1 DEF EarlierInv, Mapping
        <5> QED  BY <5>2, <5>3, <5>4
      <4>2. CASE x \in idx..(idx + j - 1)
        <5>1. OfVendor(x, listing[i].vendor)
          BY <2>1, <4>2 DEF OfPlatformInv
        <5>2. x \in IndexesOf(listing[i].vendor)
          BY <1>0, <2>1, <4>2 DEF IndexesOf
        <5> QED  BY <1>0, <5>1, <5>2 DEF OfVendor
      <4> QED  BY <1>0, <2>1, <4>1, <4>2
    <3>3. IndexesOf(VendorOf[found[x + 1]])' = IndexesOf(VendorOf[found[x + 1]])
      BY <2>1, <2>3, <3>2, VendorsAssumption DEF IndexesOf, OfVendor
    <3>4. Platforms' = Platforms /\ OfVendor(x, listing[p].vendor)'
      BY <2>1, <3>2 DEF OfVendor, Platforms
    <3>5. MappedBefore(p)'
      BY <1>0, <2>2, <3>2 DEF MappedBefore
    <3> QED  BY <3>1, <3>2, <3>3, <3>4, <3>5
  <2>5. HereInv'
    BY <2>2 DEF HereInv
  <2> QED  BY <2>4, <2>5 DEF EarlierInv
<1>5. CASE ~ClearTable /\ ~FirstDevice /\ ~NextDevice /\ ~LastDevice
  BY <1>5, QuietSteps
  DEF EarlierInv, HereInv, Registered, IndexesOf, MappedBefore, OfVendor, Mapping,
      Platforms, vars, collectVars, platformVars
<1> QED  BY <1>1, <1>2, <1>3, <1>4, <1>5

LEMMA ExactInit == Init => ExactInv
BY DEF Init, ExactInv, ContentsInv, AllRetrievedInv, PieceStartInv, OfPlatformInv,
       EarlierInv, HereInv, Retrieved, Collected, Mapping, Platforms

LEMMA ExactStep == TableInv /\ ExactInv /\ [Next]_vars => ExactInv'
<1> SUFFICES ASSUME TableInv, ExactInv, [Next]_vars PROVE ExactInv'
  OBVIOUS
<1>1. ContentsInv' /\ AllRetrievedInv'
  BY ContentsStep DEF ExactInv
<1>2. PieceStartInv' /\ OfPlatformInv'
  BY PieceStartStep DEF ExactInv
<1>3. Sorted' => Sorted
  <2>1. listing' = listing
    BY DEF Next, CountDevices, RetrieveDevices, ClearTable, UnknownPlatform, NoFirstDevice,
           FirstDevice, NextDevice, NextModel, UnknownDevice, LastDevice, EndPlatform,
           Stop, vars
  <2> QED  BY <2>1 DEF Sorted, Platforms
<1>4. Sorted' => EarlierInv' /\ HereInv'
  BY <1>3, SortedStep
<1> QED  BY <1>1, <1>2, <1>4 DEF ExactInv

LEMMA ExactAlways == Spec => []ExactInv
BY ExactInit, ExactStep, InvAlways, PTL DEF Spec

(* The number of an index in the part of its type.                         *)
LEMMA CheckIsMembership ==
  ASSUME TypeOK, NEW dev \in Types, NEW device_idx \in Nat
  PROVE  acc_device_idx_check_type(device_idx, dev) <=> device_idx \in IndexesOf(dev)
<1>1. devices[dev].first \in Nat /\ devices[dev].num \in Nat
  BY DEF TypeOK
<1> QED  BY <1>1 DEF acc_device_idx_check_type, IndexesOf

LEMMA ExactSound == TableInv /\ ExactInv => TypeCheckIsExact
<1> SUFFICES ASSUME TableInv, ExactInv, Done, Sorted, NEW dev \in Types,
                    NEW device_idx \in 0..(Len(found) - 1)
             PROVE  acc_device_idx_check_type(device_idx, dev) <=> IsOf(device_idx, dev)
  BY DEF TypeCheckIsExact
<1> USE DEF TableInv, ExactInv
<1>0. pc = "done" /\ Mapping /\ TypeOK /\ Len(found) \in Nat /\ device_idx \in Nat
  BY StateFacts DEF Done, Mapping
<1>1. acc_device_idx_check_type(device_idx, dev) <=> device_idx \in IndexesOf(dev)
  BY <1>0, CheckIsMembership
<1>2. /\ found[device_idx + 1] \in Models
      /\ device_idx \in IndexesOf(found[device_idx + 1])
      /\ device_idx \in IndexesOf(VendorOf[found[device_idx + 1]])
  <2>1. idx = Len(found)
    BY <1>0 DEF PieceStartInv
  <2> QED  BY <1>0, <2>1 DEF EarlierInv, Registered
<1>3. CASE dev \in Models
  <2>1. dev # acc_device_any /\ dev # VendorOf[found[device_idx + 1]]
    BY <1>2, <1>3, TypesAssumption, VendorsAssumption
  <2>2. device_idx \in IndexesOf(dev) => found[device_idx + 1] = dev
    BY <1>0, <1>3 DEF ModelsInv
  <2> QED  BY <1>1, <1>2, <2>1, <2>2 DEF IsOf
<1>4. CASE dev \in Vendors
  <2>1. dev # acc_device_any /\ dev # found[device_idx + 1]
    BY <1>2, <1>4, TypesAssumption
  <2>2. device_idx \in IndexesOf(dev) => VendorOf[found[device_idx + 1]] = dev
    BY <1>0, <1>4 DEF VendorsInv, OfVendor
  <2> QED  BY <1>1, <1>2, <2>1, <2>2 DEF IsOf
<1>5. CASE dev = acc_device_any
  <2>1. total = Len(found)
    <3>1. PICK s \in [0..Len(listing) -> Nat] : Sums(s)
      BY <1>0 DEF SumInv, PlatformsInv
    <3> QED  BY <1>0, <3>1 DEF Sums
  <2>2. devices[dev] = [first |-> 0, num |-> total]
    BY <1>0, <1>5 DEF AnyInv
  <2>3. devices[dev].first = 0 /\ devices[dev].num = Len(found)
    BY <2>1, <2>2
  <2>4. IndexesOf(dev) = 0..(Len(found) - 1)
    BY <1>0, <2>3 DEF IndexesOf
  <2> QED  BY <1>1, <1>5, <2>4 DEF IsOf
<1> QED  BY <1>3, <1>4, <1>5 DEF Types

(* acc_device_idx_check_type (internal/runtime.c) tells the devices of a   *)
(* type, vendor or model, from all others, if the platforms are sorted as  *)
(* the comment in acc_init_ocl_devices assumes.                            *)
THEOREM TypeCheckIsAlwaysExact == Spec => []TypeCheckIsExact
BY ExactSound, ExactAlways, InvAlways, PTL
=============================================================================
