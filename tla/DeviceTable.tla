---------------------------- MODULE DeviceTable -----------------------------
(***************************************************************************)
(* How the devices that OpenCL lists get their place in the table of       *)
(* OpenACC device types (internal/opencl-init.c, internal/runtime.c).      *)
(*                                                                         *)
(* The devices of all platforms are put into one array, platform after     *)
(* platform, and are known by their index in it.  A type of device, which  *)
(* is a vendor or a model, owns the indexes from devices[type].first on,   *)
(* devices[type].num of them.                                              *)
(*                                                                         *)
(* There is at least one platform.  An index is counted from 0, in         *)
(* sequences from 1.                                                       *)
(***************************************************************************)
EXTENDS Integers, Sequences

CONSTANTS
  Vendors,    \* types of the platforms of platforms_desc
  Models,     \* types of the devices of devices_desc
  acc_device_any,
  Unknown,    \* a name that no description has
  VendorOf,   \* the platform description a device description is of
  Listings    \* what OpenCL may list: sequences of platforms

Types == Vendors \cup Models \cup {acc_device_any}

ASSUME VendorsAssumption == VendorOf \in [Models -> Vendors]
ASSUME TypesAssumption == Vendors \cap Models = {} /\ acc_device_any \notin Vendors \cup Models
ASSUME ListingsAssumption ==
  /\ Listings \subseteq Seq([vendor : Vendors \cup {Unknown},
                           models : Seq(Models \cup {Unknown})])
  /\ <<>> \notin Listings

VARIABLES
  listing,      \* the platforms, with the name of each of their devices
  pc,
  i,            \* the platform being dealt with
  num_devices,  \* of each platform
  total,        \* last element of num_devices: the sum
  found,        \* the array of all devices retrieved
  base,         \* the index in it of the first device of each platform
  devices,      \* acc_runtime.devices
  idx,          \* index of the first device of platform i
  j,            \* devices of platform i that were looked at
  t,            \* model of the last of them
  base_t,       \* index of the first one of that model
  cnt_t         \* and how many there were in a row

collectVars == <<num_devices, total, found, base>>
platformVars == <<j, t, base_t, cnt_t>>
vars == <<listing, pc, i, collectVars, devices, idx, platformVars>>

Platforms == 1..Len(listing)

NoDevices == [first |-> 0, num |-> 0]

-----------------------------------------------------------------------------
(* A loop over the platforms and the phase after it.                       *)
NextPlatform(phase) ==
  IF i < Len(listing) THEN i' = i + 1 /\ UNCHANGED pc
  ELSE i' = 1 /\ pc' = phase

(* acc_collect_ocl_devices: how many devices a platform has.  A query that *)
(* fails, as it does for a platform without devices, counts for 0.         *)
CountDevices ==
  /\ pc = "count"
  /\ \E num \in {0, Len(listing[i].models)} :
       /\ num_devices' = [num_devices EXCEPT ![i] = num]
       /\ total' = total + num
  /\ NextPlatform("retrieve")
  /\ UNCHANGED <<listing, found, base, devices, idx, platformVars>>

(* ... and which.  If the query fails the platform has none, but the sum   *)
(* stays.  (The pointer of a platform without devices is NULL, see         *)
(* NoFirstDevice.)                                                         *)
RetrieveDevices ==
  /\ pc = "retrieve"
  /\ \/ /\ num_devices[i] # 0
        /\ found' = found \o listing[i].models
        /\ UNCHANGED num_devices
     \/ /\ num_devices' = [num_devices EXCEPT ![i] = 0]
        /\ UNCHANGED found
  /\ base' = [base EXCEPT ![i] = Len(found)]
  /\ NextPlatform("table")
  /\ UNCHANGED <<listing, total, devices, idx, platformVars>>

(* acc_init_ocl_devices: an empty table but for all devices together.      *)
ClearTable ==
  /\ pc = "table"
  /\ devices' = [dev \in Types |->
                   IF dev = acc_device_any THEN [first |-> 0, num |-> total] ELSE NoDevices]
  /\ pc' = "platform"
  /\ UNCHANGED <<listing, i, collectVars, idx, platformVars>>

Register(dev, first, num) ==
  devices' = [devices EXCEPT ![dev] = [first |-> first, num |-> num]]

(* devices[i][n] of the arrays OpenCL filled.                              *)
DeviceAt(n) == found[base[i] + n + 1]

(* acc_get_device_desc finds a model among those of the vendor, or stops   *)
(* the program.                                                            *)
Known(model) == model \in Models /\ VendorOf[model] = listing[i].vendor

Stop(how) ==
  /\ pc' = how
  /\ UNCHANGED <<listing, i, collectVars, idx, platformVars>>

UnknownPlatform ==
  /\ pc = "platform"
  /\ listing[i].vendor \notin Vendors
  /\ Stop("exit")
  /\ UNCHANGED devices

(* Mutant: a platform without devices is passed over.                      *)
NoFirstDevice_skip ==
  /\ pc = "platform"
  /\ listing[i].vendor \in Vendors
  /\ num_devices[i] = 0
  /\ Register(listing[i].vendor, idx, 0)
  /\ IF i < Len(listing) THEN i' = i + 1 /\ UNCHANGED pc
     ELSE pc' = "done" /\ UNCHANGED i
  /\ UNCHANGED <<listing, collectVars, idx, platformVars>>

(* The first device of a platform is looked at whether it has one or not:  *)
(* its array is NULL then.                                                 *)
NoFirstDevice ==
  /\ pc = "platform"
  /\ listing[i].vendor \in Vendors
  /\ num_devices[i] = 0
  /\ Register(listing[i].vendor, idx, 0)
  /\ Stop("crash")

FirstDevice ==
  /\ pc = "platform"
  /\ listing[i].vendor \in Vendors
  /\ num_devices[i] # 0
  /\ Register(listing[i].vendor, idx, num_devices[i])
  /\ LET first == DeviceAt(0) IN
     IF Known(first)
     THEN /\ j' = 1 /\ t' = first /\ base_t' = idx /\ cnt_t' = 1
          /\ pc' = "device"
          /\ UNCHANGED <<listing, i, collectVars, idx>>
     ELSE Stop("exit")

(* The model of the next device; when it changes, the devices of the model *)
(* before are registered.                                                  *)
NextModel(changed) ==
  /\ pc = "device"
  /\ j < num_devices[i]
  /\ LET next == DeviceAt(j) IN
     /\ Known(next)
     /\ t' = next
     /\ j' = j + 1
     /\ IF next # t THEN changed ELSE cnt_t' = cnt_t + 1 /\ UNCHANGED <<devices, base_t>>
  /\ UNCHANGED <<listing, pc, i, collectVars, idx>>

(* Mutant: the device that changes the model is counted twice.             *)
NextDevice_double ==
  NextModel(Register(t, base_t, cnt_t) /\ base_t' = base_t + cnt_t /\ cnt_t' = 2)

NextDevice ==
  NextModel(Register(t, base_t, cnt_t) /\ base_t' = base_t + cnt_t /\ cnt_t' = 1)

UnknownDevice ==
  /\ pc = "device"
  /\ j < num_devices[i]
  /\ ~Known(DeviceAt(j))
  /\ Stop("exit")
  /\ UNCHANGED devices

EndPlatform(register) ==
  /\ pc = "device"
  /\ j = num_devices[i]
  /\ register
  /\ idx' = idx + num_devices[i]
  /\ IF base_t + cnt_t # idx' THEN pc' = "abort" /\ UNCHANGED i
     ELSE IF i < Len(listing) THEN pc' = "platform" /\ i' = i + 1
     ELSE pc' = "done" /\ UNCHANGED i
  /\ UNCHANGED <<listing, collectVars, platformVars>>

(* Mutant: the last model is not registered.                               *)
LastDevice_forgotten == EndPlatform(UNCHANGED devices)

LastDevice == EndPlatform(Register(t, base_t, cnt_t))

-----------------------------------------------------------------------------
Init ==
  /\ listing \in Listings
  /\ pc = "count"
  /\ i = 1
  /\ num_devices = [p \in Platforms |-> 0]
  /\ total = 0
  /\ found = <<>>
  /\ base = [p \in Platforms |-> 0]
  /\ devices = [dev \in Types |-> NoDevices]
  /\ idx = 0
  /\ j = 0
  /\ t = Unknown
  /\ base_t = 0
  /\ cnt_t = 0

Next ==
  \/ CountDevices \/ RetrieveDevices \/ ClearTable
  \/ UnknownPlatform \/ NoFirstDevice \/ FirstDevice
  \/ NextDevice \/ UnknownDevice \/ LastDevice

Spec == Init /\ [][Next]_vars

(* internal/runtime.c.                                                     *)
acc_get_num_devices(dev) == devices[dev].num

acc_get_device_idx(dev, num) == devices[dev].first + num

acc_device_idx_check_type(device_idx, dev) ==
  /\ device_idx >= devices[dev].first
  /\ device_idx < devices[dev].first + devices[dev].num

-----------------------------------------------------------------------------
TypeOK ==
  /\ listing \in Listings
  /\ pc \in {"count", "retrieve", "table", "platform", "device", "done",
             "exit", "crash", "abort"}
  /\ i \in Platforms
  /\ num_devices \in [Platforms -> Nat]
  /\ total \in Nat
  /\ found \in Seq(Models \cup {Unknown})
  /\ base \in [Platforms -> Nat]
  /\ devices \in [Types -> [first : Nat, num : Nat]]
  /\ idx \in Nat
  /\ j \in Nat
  /\ t \in Models \cup {Unknown}
  /\ base_t \in Nat
  /\ cnt_t \in Nat

Done == pc = "done"

IsOf(device_idx, dev) ==
  \/ dev = acc_device_any
  \/ dev = found[device_idx + 1]
  \/ found[device_idx + 1] \in Models /\ dev = VendorOf[found[device_idx + 1]]

(* A number of a device of a type leads to a device there is, and of that  *)
(* type, whatever OpenCL lists in whatever order and whichever of its      *)
(* queries fail: no kernel is built for another device.                    *)
NumbersLeadToTheirType ==
  Done =>
    \A dev \in Types : \A num \in 0..(acc_get_num_devices(dev) - 1) :
      /\ acc_get_device_idx(dev, num) < Len(found)
      /\ IsOf(acc_get_device_idx(dev, num), dev)

(* The comment on the remaining devices "assumes that they are sorted": a  *)
(* vendor has one platform, which lists each model in one piece.           *)
Sorted ==
  /\ \A p, q \in Platforms : listing[p].vendor = listing[q].vendor => p = q
  /\ \A p \in Platforms : LET m == listing[p].models IN
       \A k, n \in DOMAIN m : m[k] = m[n] => \A o \in k..n : m[o] = m[k]

(* Of sorted devices none is forgotten: version_match finds a device to be *)
(* of the types it is of, and of no other.                                 *)
TypeCheckIsExact ==
  Done /\ Sorted =>
    \A dev \in Types : \A device_idx \in 0..(Len(found) - 1) :
      acc_device_idx_check_type(device_idx, dev) <=> IsOf(device_idx, dev)

(* The assertion that the models registered are all devices of a platform. *)
PiecesCoverPlatform == pc # "abort"
=============================================================================
