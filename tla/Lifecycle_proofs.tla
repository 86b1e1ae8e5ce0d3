-------------------------- MODULE Lifecycle_proofs --------------------------
(***************************************************************************)
(* For any table of devices, any regions and any program, OpenCL is given  *)
(* an object of another context, and memory is touched that is not there,  *)
(* in the cases that NoForeignObject and NoWildAccess name and in no other.*)
(* What keeps it so is that each object is of the context its device has   *)
(* now, but for those the program has left behind.                         *)
(***************************************************************************)
EXTENDS Lifecycle, FiniteSetTheorems, TLAPS

(* Data that were freed are of a device whose context failed.              *)
FreedHaveFailed ==
  \A d \in Devices : devices_data[d] = Freed => d \in failed

(* What the program has left behind.                                       *)
HeldOver(d, x) == <<"buffer", d, x>> \in left
Lost(d, r) == <<"region", d, r>> \in left
Outdated(d, r) == <<"options", d, r>> \in left

(* A region that was started has its programs until it is stopped, on the  *)
(* devices that were not shut down meanwhile.                              *)
StartedIsBuilt ==
  (region # Unset /\ region.started) =>
    \A d \in region.devices :
      \/ Lost(d, region.id)
      \/ /\ devices_data[d] \in Data
         /\ devices_data[d].programs[region.id] # Unset

BuffersAreOfTheContext ==
  \A d \in Devices, x \in Arrays :
    buffers[d][x] # Unset =>
      \/ HeldOver(d, x)
      \/ /\ devices_data[d] \in Data
         /\ buffers[d][x] = devices_data[d].context

ProgramsAreOfTheVersion ==
  \A d \in Devices, r \in Regions :
    devices_data[d] \in Data =>
      \/ Outdated(d, r)
      \/ devices_data[d].programs[r] \in {Unset, options[r]}

AliveIsKnown ==
  \A d \in Devices, c \in Nat, r \in Regions :
    <<d, c, r>> \in alive <=>
      /\ devices_data[d] \in Data
      /\ devices_data[d].context = c
      /\ devices_data[d].programs[r] # Unset

LifecycleInv ==
  /\ TypeOK
  /\ FreedHaveFailed
  /\ StartedIsBuilt
  /\ BuffersAreOfTheContext
  /\ ProgramsAreOfTheVersion
  /\ AliveIsKnown
  /\ NoWildAccess
  /\ NoForeignObject

-----------------------------------------------------------------------------
LEMMA InitLifecycleInv == Init => LifecycleInv
<1> SUFFICES ASSUME Init PROVE LifecycleInv
  OBVIOUS
<1>1. TypeOK
  BY TableAssumption DEF Init, TypeOK, Outcomes
<1>2. FreedHaveFailed /\ StartedIsBuilt /\ BuffersAreOfTheContext
  BY PointersAssumption DEF Init, FreedHaveFailed, StartedIsBuilt, BuffersAreOfTheContext
<1>3. ProgramsAreOfTheVersion /\ AliveIsKnown
  BY PointersAssumption DEF Init, ProgramsAreOfTheVersion, AliveIsKnown
<1>4. NoWildAccess /\ NoForeignObject
  BY DEF Init, NoWildAccess, NoForeignObject
<1> QED
  BY <1>1, <1>2, <1>3, <1>4 DEF LifecycleInv

(* The end of the program changes nothing but its outcome.                 *)
LEMMA Stopped ==
  ASSUME LifecycleInv, NEW o \in Outcomes, Stop(o), o = "foreign" => left # {},
         o = "undefined" =>
           \/ num_devices = Unset
           \/ failed # {}
           \/ region # Unset /\ NeedsList /\ ~region.listed
           \/ Exists(curr.type, curr.num) /\ devices_data[CurrentDevice] = Unset
           \/ \E l \in left : l[1] = "region"
  PROVE  LifecycleInv'
<1> USE DEF Stop, objects, startVars, deviceVars, regionVars, history
<1>1. TypeOK'
  BY DEF LifecycleInv, TypeOK
<1>2. FreedHaveFailed' /\ StartedIsBuilt' /\ BuffersAreOfTheContext'
  BY DEF LifecycleInv, FreedHaveFailed, StartedIsBuilt, BuffersAreOfTheContext,
         Lost, HeldOver
<1>3. ProgramsAreOfTheVersion' /\ AliveIsKnown'
  BY DEF LifecycleInv, ProgramsAreOfTheVersion, AliveIsKnown, Outdated
<1>4. NoWildAccess' /\ NoForeignObject'
  BY DEF LifecycleInv, NoWildAccess, NoForeignObject, NeedsList, Exists,
         CurrentDevice, DeviceOf
<1> QED
  BY <1>1, <1>2, <1>3, <1>4 DEF LifecycleInv

LEMMA Unchanged == LifecycleInv /\ UNCHANGED vars => LifecycleInv'
<1> SUFFICES ASSUME LifecycleInv, UNCHANGED vars PROVE LifecycleInv'
  OBVIOUS
<1> USE DEF vars, objects, startVars, deviceVars, regionVars, history
<1>1. TypeOK'
  BY DEF LifecycleInv, TypeOK
<1>2. FreedHaveFailed' /\ StartedIsBuilt' /\ BuffersAreOfTheContext'
  BY DEF LifecycleInv, FreedHaveFailed, StartedIsBuilt, BuffersAreOfTheContext,
         Lost, HeldOver
<1>3. ProgramsAreOfTheVersion' /\ AliveIsKnown'
  BY DEF LifecycleInv, ProgramsAreOfTheVersion, AliveIsKnown, Outdated
<1>4. NoWildAccess' /\ NoForeignObject'
  BY DEF LifecycleInv, NoWildAccess, NoForeignObject, NeedsList, Exists,
         CurrentDevice, DeviceOf
<1> QED
  BY <1>1, <1>2, <1>3, <1>4 DEF LifecycleInv

-----------------------------------------------------------------------------
(* The first call, and the choice of the current device, touch no device.  *)
LEMMA DevicesUntouched ==
  ASSUME LifecycleInv, outcome = "running",
         UNCHANGED <<outcome, deviceVars, buffers, regionVars, history>>, TypeOK'
  PROVE  LifecycleInv'
<1> USE DEF deviceVars, regionVars, history
<1>2. FreedHaveFailed' /\ StartedIsBuilt' /\ BuffersAreOfTheContext'
  BY DEF LifecycleInv, FreedHaveFailed, StartedIsBuilt, BuffersAreOfTheContext,
         Lost, HeldOver
<1>3. ProgramsAreOfTheVersion' /\ AliveIsKnown'
  BY DEF LifecycleInv, ProgramsAreOfTheVersion, AliveIsKnown, Outdated
<1>4. NoWildAccess' /\ NoForeignObject'
  BY DEF LifecycleInv, NoWildAccess, NoForeignObject
<1> QED
  BY <1>2, <1>3, <1>4 DEF LifecycleInv

LEMMA DeviceNumbers == Cardinality(Devices) \in Nat /\ Devices \subseteq Nat
<1>1. Table[acc_device_any].num \in Nat
  BY TableAssumption
<1>2. IsFiniteSet(Devices)
  BY <1>1, FS_Interval DEF Devices
<1> QED
  BY <1>1, <1>2, FS_CardinalityType DEF Devices

LEMMA OnceKeepsInv == LifecycleInv /\ acc_init_once => LifecycleInv'
<1> SUFFICES ASSUME LifecycleInv, acc_init_once PROVE LifecycleInv'
  OBVIOUS
<1>o. outcome = "running"
  BY DEF acc_init_once, InitAlloc, acc_collect_ocl_devices, acc_init_devices,
         acc_load_ocl_sources, acc_init_defaults, InitData, acc_profiling_init, Part
<1> DEFINE Done(flag) == /\ flag \in Flags /\ set_flag(flag)
                         /\ num_devices' \in {num_devices, Table[acc_device_any].num}
                         /\ regions' \in {regions, Regions}
                         /\ curr' \in [type : Types, num : Int]
<1>1. ASSUME NEW flag, Done(flag) PROVE LifecycleInv'
  <2>1. TypeOK'
    BY <1>1 DEF set_flag, LifecycleInv, TypeOK, deviceVars, regionVars, history
  <2> QED
    BY <1>o, <1>1, <2>1, DevicesUntouched DEF set_flag
<1>2. \A o \in {"assertion", "undefined"} : Stop(o) =>
        ((o = "undefined" => num_devices = Unset) => LifecycleInv')
  BY Stopped DEF Outcomes
<1>c. curr \in [type : Types, num : Int]
  BY DEF LifecycleInv, TypeOK
<1>3. CASE InitAlloc
  <2>1. Done("alloc") \/ Done("sqlite")
    BY <1>3, <1>c DEF InitAlloc, Flags
  <2> QED BY <2>1, <1>1
<1>4. CASE acc_collect_ocl_devices
  <2>1. Done("ocl_devices") \/ Stop("assertion")
    BY <1>4, <1>c DEF acc_collect_ocl_devices, Flags
  <2> QED BY <2>1, <1>1, <1>2
<1>5. CASE acc_init_devices
  <2>1. Done("acc_devices") \/ (num_devices = Unset /\ Stop("undefined"))
    BY <1>5, <1>c DEF acc_init_devices, Flags
  <2> QED BY <2>1, <1>1, <1>2
<1>6. CASE acc_load_ocl_sources
  <2>1. Done("ocl_sources") \/ Stop("assertion")
    BY <1>6, <1>c DEF acc_load_ocl_sources, Flags
  <2> QED BY <2>1, <1>1, <1>2
<1>7. CASE acc_init_defaults
  <2>1. curr' \in [type : Types, num : Int]
    BY <1>7, DeviceNumbers DEF acc_init_defaults
  <2>2. Done("acc_defaults")
    BY <1>7, <2>1 DEF acc_init_defaults, Flags
  <2> QED BY <2>2, <1>1
<1>8. CASE InitData
  <2>1. Done("mem_manager") \/ Done("data_env") \/ (num_devices = Unset /\ Stop("undefined"))
    BY <1>8, <1>c DEF InitData, Flags
  <2> QED BY <2>1, <1>1, <1>2
<1>9. CASE acc_profiling_init
  <2>1. Done("profiling") \/ Stop("assertion")
    BY <1>9, <1>c DEF acc_profiling_init, Flags
  <2> QED BY <2>1, <1>1, <1>2
<1> QED
  BY <1>3, <1>4, <1>5, <1>6, <1>7, <1>8, <1>9 DEF acc_init_once

-----------------------------------------------------------------------------
LEMMA KindsOfData ==
  /\ Unset # Freed /\ Unset \notin Data /\ Freed \notin Data
  /\ Unset \notin Nat /\ Unset \notin Versions
BY PointersAssumption

LEMMA NewDataType ==
  ASSUME TypeOK, NEW d \in Devices
  PROVE  /\ NewData(d) \in Data
         /\ NewData(d).context = created[d] + 1
         /\ \A r \in Regions : NewData(d).programs[r] = Unset
BY DEF TypeOK, NewData, Data

(* Devices of a region are devices, and its version is one.                *)
LEMMA RegionType ==
  ASSUME TypeOK, region # Unset
  PROVE  /\ region \in [id : Regions, devices : SUBSET Devices, listed : BOOLEAN,
                        num_gang : Nat \cup {Address}, vector_length : Nat,
                        started : BOOLEAN]
         /\ region.id \in Regions /\ region.devices \subseteq Devices
         /\ region.started \in BOOLEAN /\ region.listed \in BOOLEAN
         /\ options[region.id] \in Versions /\ options[region.id] # Unset
BY KindsOfData DEF TypeOK

(* Initialising touches devices only that have no data: whatever buffers   *)
(* they hold, and a running region they are in, were left behind.          *)
LEMMA InitKeepsInv == LifecycleInv /\ acc_init => LifecycleInv'
<1> SUFFICES ASSUME LifecycleInv, acc_init PROVE LifecycleInv'
  OBVIOUS
<1>1. CASE Stop("exit")
  BY <1>1, Stopped DEF Outcomes
<1>2. ASSUME NEW D \in Selections \ {{}}, NEW bad \in SUBSET Uninitialised(D),
             \A d \in Uninitialised(D) : created[d] < MaxContexts,
             devices_data' = [d \in Devices |->
               IF d \in bad THEN Freed
               ELSE IF d \in Uninitialised(D) THEN NewData(d) ELSE devices_data[d]],
             created' = [d \in Devices |->
               IF d \in Uninitialised(D) \ bad THEN created[d] + 1 ELSE created[d]],
             failed' = failed \cup bad,
             UNCHANGED <<startVars, curr, alive, buffers, regionVars, left, outcome>>
      PROVE  LifecycleInv'
  <2>t. TypeOK
    BY DEF LifecycleInv
  <2>0. D \subseteq Devices
    BY TableAssumption DEF Selections, Devices, DeviceOf
  <2> HIDE DEF Devices
  <2>1. \A d \in Devices :
          \/ devices_data'[d] = devices_data[d]
          \/ devices_data[d] = Unset /\ devices_data'[d] = Freed /\ d \in failed'
          \/ devices_data[d] = Unset /\ devices_data'[d] = NewData(d)
    BY <1>2, <2>t DEF Uninitialised, TypeOK
  <2>2. TypeOK'
    <3>1. devices_data' \in [Devices -> Data \cup {Unset, Freed}]
      BY <1>2, <2>t, <2>1, NewDataType DEF TypeOK
    <3>2. created' \in [Devices -> Nat] /\ failed' \subseteq Devices
      BY <1>2, <2>t, <2>0 DEF TypeOK, Uninitialised
    <3> QED
      BY <1>2, <2>t, <3>1, <3>2 DEF TypeOK, startVars, regionVars
  <2>3. FreedHaveFailed'
    BY <1>2, <2>1, <2>t, NewDataType, KindsOfData DEF LifecycleInv, FreedHaveFailed
  <2>4. StartedIsBuilt'
    <3> SUFFICES ASSUME region # Unset, region.started, NEW d \in region.devices, ~Lost(d, region.id)
                 PROVE  devices_data'[d] \in Data /\ devices_data'[d].programs[region.id] # Unset
      BY <1>2 DEF StartedIsBuilt, regionVars, Lost
    <3>1. devices_data[d] \in Data /\ devices_data[d].programs[region.id] # Unset
      BY DEF LifecycleInv, StartedIsBuilt
    <3> QED
      BY <3>1, <2>1, <2>t, RegionType, KindsOfData
  <2>5. BuffersAreOfTheContext'
    BY <1>2, <2>1, KindsOfData DEF LifecycleInv, BuffersAreOfTheContext, HeldOver
  <2>6. ProgramsAreOfTheVersion'
    <3> SUFFICES ASSUME NEW d \in Devices, NEW r \in Regions, devices_data'[d] \in Data,
                        ~Outdated(d, r)
                 PROVE  devices_data'[d].programs[r] \in {Unset, options[r]}
      BY <1>2 DEF ProgramsAreOfTheVersion, regionVars, Outdated
    <3> QED
      BY <2>1, <2>t, NewDataType, KindsOfData DEF LifecycleInv, ProgramsAreOfTheVersion
  <2>7. AliveIsKnown'
    <3> SUFFICES ASSUME NEW d \in Devices, NEW c \in Nat, NEW r \in Regions
                 PROVE  <<d, c, r>> \in alive' <=>
                          /\ devices_data'[d] \in Data
                          /\ devices_data'[d].context = c
                          /\ devices_data'[d].programs[r] # Unset
      BY DEF AliveIsKnown
    <3> QED
      BY <1>2, <2>1, <2>t, NewDataType, KindsOfData DEF LifecycleInv, AliveIsKnown
  <2>8. NoWildAccess' /\ NoForeignObject'
    BY <1>2 DEF acc_init, Ready, NoWildAccess, NoForeignObject
  <2> QED
    BY <2>2, <2>3, <2>4, <2>5, <2>6, <2>7, <2>8 DEF LifecycleInv
<1> QED
  BY <1>1, <1>2 DEF acc_init

(* What a shutdown of the devices D adds and takes away.                   *)
LEMMA ShutdownLeaves ==
  ASSUME TypeOK, NEW D \in SUBSET Devices, left' = LeftByShutdown(D)
  PROVE  /\ \A d \in Devices, x \in Arrays :
              HeldOver(d, x) \/ (d \in D /\ buffers[d][x] # Unset) => <<"buffer", d, x>> \in left'
         /\ \A d \in Devices, r \in Regions : Lost(d, r) => <<"region", d, r>> \in left'
         /\ \A d \in D \cap Running : <<"region", d, region.id>> \in left'
         /\ \A d \in Devices \ D, r \in Regions :
              Outdated(d, r) => <<"options", d, r>> \in left'
         /\ left' \subseteq Leftovers
<1>1. \A l \in left : (l[1] # "options" \/ l[2] \notin D) => l \in left'
  BY DEF LeftByShutdown
<1>2. \A d \in D, x \in Arrays : buffers[d][x] # Unset => <<"buffer", d, x>> \in left'
  BY DEF LeftByShutdown
<1>3. \A d \in D \cap Running : <<"region", d, region.id>> \in left'
  BY DEF LeftByShutdown
<1>4. left' \subseteq Leftovers
  <2>1. {l \in left : l[1] = "options" => l[2] \notin D} \subseteq Leftovers
    BY DEF TypeOK
  <2>2. {l \in {"buffer"} \X D \X Arrays : buffers[l[2]][l[3]] # Unset} \subseteq Leftovers
    BY DEF Leftovers
  <2>3. Running # {} => region.id \in Regions
    BY RegionType DEF Running
  <2>4. \A d \in D \cap Running : <<"region", d, region.id>> \in Leftovers
    BY <2>3 DEF Leftovers
  <2> QED
    BY <2>1, <2>2, <2>4 DEF LeftByShutdown
<1> QED
  BY <1>1, <1>2, <1>3, <1>4 DEF HeldOver, Lost, Outdated

(* Shutting down forgets the data of devices and releases their programs;  *)
(* what they hold and run is left behind.                                  *)
LEMMA ShutdownKeepsInv == LifecycleInv /\ acc_shutdown => LifecycleInv'
<1> SUFFICES ASSUME LifecycleInv, acc_shutdown PROVE LifecycleInv'
  OBVIOUS
<1>t. TypeOK
  BY DEF LifecycleInv
<1>0. \A D \in Selections : D \subseteq Devices
  BY TableAssumption DEF Selections, Devices, DeviceOf
<1> HIDE DEF Devices
<1>1. ASSUME NEW D \in Selections, \E d \in D : devices_data[d] = Freed, Stop("undefined")
      PROVE  LifecycleInv'
  <2>1. failed # {}
    BY <1>0, <1>1 DEF LifecycleInv, FreedHaveFailed
  <2> QED BY <1>1, <2>1, Stopped DEF Outcomes
<1>2. ASSUME NEW D \in Selections,
             alive' = ReleasePrograms(D),
             devices_data' = WithoutData(D),
             left' = LeftByShutdown(D),
             UNCHANGED <<startVars, curr, created, buffers, regionVars, failed, outcome>>
      PROVE  LifecycleInv'
  <2>0. D \in SUBSET Devices
    BY <1>0
  <2>l. /\ \A d \in Devices, x \in Arrays :
             HeldOver(d, x) \/ (d \in D /\ buffers[d][x] # Unset) => <<"buffer", d, x>> \in left'
        /\ \A d \in Devices, r \in Regions : Lost(d, r) => <<"region", d, r>> \in left'
        /\ \A d \in D \cap Running : <<"region", d, region.id>> \in left'
        /\ \A d \in Devices \ D, r \in Regions :
             Outdated(d, r) => <<"options", d, r>> \in left'
        /\ left' \subseteq Leftovers
    BY <1>2, <1>t, <2>0, ShutdownLeaves
  <2>1. \A d \in Devices :
          \/ d \in D /\ devices_data'[d] = Unset
          \/ d \notin D /\ devices_data'[d] = devices_data[d]
    BY <1>2 DEF WithoutData
  <2>2. TypeOK'
    <3>1. devices_data' \in [Devices -> Data \cup {Unset, Freed}]
      BY <1>2, <1>t DEF TypeOK, WithoutData
    <3>2. alive' \subseteq Devices \X Nat \X Regions
      BY <1>2, <1>t DEF TypeOK, ReleasePrograms
    <3> QED
      BY <1>2, <1>t, <2>l, <3>1, <3>2 DEF TypeOK, startVars, regionVars
  <2>3. FreedHaveFailed'
    BY <1>2, <2>1, KindsOfData DEF LifecycleInv, FreedHaveFailed
  <2>4. StartedIsBuilt'
    <3> SUFFICES ASSUME region # Unset, region.started, NEW d \in region.devices,
                        <<"region", d, region.id>> \notin left'
                 PROVE  devices_data'[d] \in Data /\ devices_data'[d].programs[region.id] # Unset
      BY <1>2 DEF StartedIsBuilt, regionVars, Lost
    <3>1. d \in Devices /\ region.id \in Regions
      BY <1>t, RegionType
    <3>2. ~Lost(d, region.id)
      BY <2>l, <3>1
    <3>3. d \notin D
      BY <2>l DEF Running
    <3> QED
      BY <2>1, <3>1, <3>2, <3>3 DEF LifecycleInv, StartedIsBuilt
  <2>5. BuffersAreOfTheContext'
    <3> SUFFICES ASSUME NEW d \in Devices, NEW x \in Arrays, buffers[d][x] # Unset,
                        <<"buffer", d, x>> \notin left'
                 PROVE  devices_data'[d] \in Data /\ buffers[d][x] = devices_data'[d].context
      BY <1>2 DEF BuffersAreOfTheContext, HeldOver
    <3>1. d \notin D /\ ~HeldOver(d, x)
      BY <2>l
    <3> QED
      BY <2>1, <3>1 DEF LifecycleInv, BuffersAreOfTheContext
  <2>6. ProgramsAreOfTheVersion'
    <3> SUFFICES ASSUME NEW d \in Devices, NEW r \in Regions, devices_data'[d] \in Data,
                        <<"options", d, r>> \notin left'
                 PROVE  devices_data'[d].programs[r] \in {Unset, options[r]}
      BY <1>2 DEF ProgramsAreOfTheVersion, regionVars, Outdated
    <3>1. d \notin D
      BY <2>1, KindsOfData
    <3>2. ~Outdated(d, r)
      BY <2>l, <3>1
    <3> QED
      BY <2>1, <3>1, <3>2 DEF LifecycleInv, ProgramsAreOfTheVersion
  <2>7. AliveIsKnown'
    <3> SUFFICES ASSUME NEW d \in Devices, NEW c \in Nat, NEW r \in Regions
                 PROVE  <<d, c, r>> \in alive' <=>
                          /\ devices_data'[d] \in Data
                          /\ devices_data'[d].context = c
                          /\ devices_data'[d].programs[r] # Unset
      BY DEF AliveIsKnown
    <3>1. <<d, c, r>> \in alive' <=> <<d, c, r>> \in alive /\ d \notin D
      BY <1>2 DEF ReleasePrograms
    <3> QED
      BY <3>1, <2>1, KindsOfData DEF LifecycleInv, AliveIsKnown
  <2>8. NoWildAccess' /\ NoForeignObject'
    BY <1>2 DEF acc_shutdown, Ready, NoWildAccess, NoForeignObject
  <2> QED
    BY <2>2, <2>3, <2>4, <2>5, <2>6, <2>7, <2>8 DEF LifecycleInv
<1> QED
  BY <1>1, <1>2 DEF acc_shutdown

-----------------------------------------------------------------------------
LEMMA SetDeviceKeepsInv == LifecycleInv /\ acc_set_device => LifecycleInv'
<1> SUFFICES ASSUME LifecycleInv, acc_set_device PROVE LifecycleInv'
  OBVIOUS
<1>1. curr' \in [type : Types, num : Int]
  <2>1. curr.num \in Int
    BY DEF LifecycleInv, TypeOK
  <2>2. \A d \in Devices : d \in Int
    BY DeviceNumbers
  <2>3. \A num \in {curr.num} \cup Devices : num \in Int
    BY <2>1, <2>2
  <2> QED
    BY <2>3 DEF acc_set_device
<1>2. TypeOK'
  BY <1>1 DEF acc_set_device, LifecycleInv, TypeOK, startVars, deviceVars, regionVars, history
<1> QED
  BY <1>2, DevicesUntouched DEF acc_set_device, Ready

LEMMA CurrentIsADevice ==
  ASSUME TypeOK, Exists(curr.type, curr.num)
  PROVE  CurrentDevice \in Devices
BY TableAssumption DEF TypeOK, Exists, CurrentDevice, DeviceOf, Devices

(* Data that cannot be used are of a device that is not initialised, or    *)
(* whose context failed.                                                   *)
LEMMA BrokenHasFailed ==
  ASSUME LifecycleInv, NEW d \in Devices, devices_data[d] # Unset, Broken(d)
  PROVE  failed # {}
BY DEF LifecycleInv, TypeOK, FreedHaveFailed, Broken

(* A buffer that comes or goes.                                            *)
LEMMA BufferSet ==
  ASSUME LifecycleInv, outcome = "running", NEW d \in Devices, NEW x \in Arrays,
         NEW c, buffers' = [buffers EXCEPT ![d][x] = c],
         \/ c = Unset /\ left' = left \ {<<"buffer", d, x>>}
         \/ /\ devices_data[d] \in Data /\ c = devices_data[d].context
            /\ left' = left,
         UNCHANGED <<startVars, curr, deviceVars, regionVars, failed, outcome>>
  PROVE  LifecycleInv'
<1> USE DEF startVars, deviceVars, regionVars
<1>1. TypeOK'
  <2>1. c \in Nat \cup {Unset}
    BY DEF Data
  <2>2. left' \subseteq Leftovers
    BY DEF LifecycleInv, TypeOK
  <2> QED
    BY <2>1, <2>2 DEF LifecycleInv, TypeOK
<1>l. /\ \A e \in Devices, r \in Regions : Lost(e, r) <=> <<"region", e, r>> \in left'
      /\ \A e \in Devices, r \in Regions : Outdated(e, r) <=> <<"options", e, r>> \in left'
      /\ \A e \in Devices, y \in Arrays :
           (e # d \/ y # x) => (HeldOver(e, y) <=> <<"buffer", e, y>> \in left')
  BY DEF Lost, Outdated, HeldOver
<1>b. \A e \in Devices, y \in Arrays :
        buffers'[e][y] = IF e = d /\ y = x THEN c ELSE buffers[e][y]
  BY DEF LifecycleInv, TypeOK
<1>2. FreedHaveFailed'
  BY DEF LifecycleInv, FreedHaveFailed
<1>3. StartedIsBuilt'
  <2>1. region # Unset => region.devices \subseteq Devices /\ region.id \in Regions
    BY RegionType DEF LifecycleInv
  <2> QED
    BY <1>l, <2>1 DEF LifecycleInv, StartedIsBuilt, Lost
<1>4. BuffersAreOfTheContext'
  <2> SUFFICES ASSUME NEW e \in Devices, NEW y \in Arrays, buffers'[e][y] # Unset,
                      <<"buffer", e, y>> \notin left'
               PROVE  devices_data[e] \in Data /\ buffers'[e][y] = devices_data[e].context
    BY DEF BuffersAreOfTheContext, HeldOver
  <2>1. CASE e = d /\ y = x
    BY <1>b, <2>1
  <2>2. CASE e # d \/ y # x
    <3>1. ~HeldOver(e, y) /\ buffers'[e][y] = buffers[e][y]
      BY <1>b, <1>l, <2>2
    <3> QED
      BY <3>1 DEF LifecycleInv, BuffersAreOfTheContext
  <2> QED
    BY <2>1, <2>2
<1>5. ProgramsAreOfTheVersion'
  BY <1>l DEF LifecycleInv, ProgramsAreOfTheVersion, Outdated
<1>6. AliveIsKnown'
  BY DEF LifecycleInv, AliveIsKnown
<1>7. NoWildAccess' /\ NoForeignObject'
  BY DEF NoWildAccess, NoForeignObject
<1> QED
  BY <1>1, <1>2, <1>3, <1>4, <1>5, <1>6, <1>7 DEF LifecycleInv

LEMMA MemoryKeepsInv ==
  LifecycleInv /\ (acc_create \/ acc_update \/ acc_delete) => LifecycleInv'
<1> SUFFICES ASSUME LifecycleInv, acc_create \/ acc_update \/ acc_delete
             PROVE  LifecycleInv'
  OBVIOUS
<1>r. outcome = "running"
  BY DEF acc_create, acc_update, acc_delete, OnDevice, Ready
<1>s. \A o \in {"exit", "assertion"} : Stop(o) => LifecycleInv'
  BY Stopped DEF Outcomes
<1>u. ASSUME NEW d \in Devices, OnDevice(d), Broken(d), Stop("undefined")
      PROVE  LifecycleInv'
  <2>1. CASE devices_data[d] = Unset
    BY <1>u, <2>1, Stopped DEF Outcomes, OnDevice
  <2>2. CASE devices_data[d] # Unset
    <3>1. failed # {}
      BY <1>u, <2>2, BrokenHasFailed
    <3> QED BY <1>u, <3>1, Stopped DEF Outcomes
  <2> QED
    BY <2>1, <2>2
<1>1. CASE acc_create
  <2> SUFFICES ASSUME NEW d \in Devices, NEW x \in Arrays, ~Broken(d),
                      buffers' = [buffers EXCEPT ![d][x] = devices_data[d].context],
                      UNCHANGED <<startVars, curr, deviceVars, regionVars, history, outcome>>
               PROVE  LifecycleInv'
    BY <1>1, <1>s, <1>u DEF acc_create
  <2>1. devices_data[d] \in Data
    BY DEF Broken
  <2>2. left' = left /\ failed' = failed
    BY DEF history
  <2> QED
    BY <1>r, <2>1, <2>2, BufferSet
<1>2. CASE acc_update
  <2>1. PICK d \in Devices :
               /\ OnDevice(d)
               /\ \/ Broken(d) /\ Stop("undefined")
                  \/ ~Broken(d) /\ Stop("exit")
                  \/ /\ ~Broken(d) /\ \E x \in Held(d) : buffers[d][x] # devices_data[d].context
                     /\ Stop("foreign")
    BY <1>2 DEF acc_update
  <2>2. ASSUME NEW x \in Held(d), buffers[d][x] # devices_data[d].context
        PROVE  left # {}
    BY <2>2 DEF Held, HeldOver, LifecycleInv, BuffersAreOfTheContext
  <2>3. CASE Stop("foreign") /\ \E x \in Held(d) : buffers[d][x] # devices_data[d].context
    BY <2>2, <2>3, Stopped DEF Outcomes
  <2> QED
    BY <2>1, <2>3, <1>s, <1>u
<1>3. CASE acc_delete
  <2> SUFFICES ASSUME NEW d \in Devices, NEW x \in Arrays,
                      buffers' = [buffers EXCEPT ![d][x] = Unset],
                      left' = left \ {<<"buffer", d, x>>},
                      UNCHANGED <<startVars, curr, deviceVars, regionVars, failed, outcome>>
               PROVE  LifecycleInv'
    BY <1>3, <1>s DEF acc_delete
  <2> QED
    BY <1>r, BufferSet
<1> QED
  BY <1>1, <1>2, <1>3

-----------------------------------------------------------------------------
(* A region that is not started says nothing of the programs.              *)
LEMMA RegionSet ==
  ASSUME LifecycleInv, outcome = "running",
         TypeOK', options' = options,
         region' = Unset \/ ~region'.started,
         left' = left \/ left' = {l \in left : l[1] # "region"},
         UNCHANGED <<startVars, curr, deviceVars, buffers, failed, outcome>>
  PROVE  LifecycleInv'
<1> USE DEF startVars, deviceVars
<1>l. /\ \A d \in Devices, x \in Arrays : HeldOver(d, x) => <<"buffer", d, x>> \in left'
      /\ \A d \in Devices, r \in Regions : Outdated(d, r) => <<"options", d, r>> \in left'
  BY DEF HeldOver, Outdated
<1>1. FreedHaveFailed' /\ BuffersAreOfTheContext'
  BY <1>l DEF LifecycleInv, FreedHaveFailed, BuffersAreOfTheContext, HeldOver
<1>2. StartedIsBuilt'
  BY DEF StartedIsBuilt
<1>3. ProgramsAreOfTheVersion'
  BY <1>l DEF LifecycleInv, ProgramsAreOfTheVersion, Outdated
<1>4. AliveIsKnown'
  BY DEF LifecycleInv, AliveIsKnown
<1>5. NoWildAccess' /\ NoForeignObject'
  BY DEF NoWildAccess, NoForeignObject
<1> QED
  BY <1>1, <1>2, <1>3, <1>4, <1>5 DEF LifecycleInv

LEMMA BuildKeepsInv == LifecycleInv /\ acc_build_region => LifecycleInv'
<1> SUFFICES ASSUME LifecycleInv, acc_build_region PROVE LifecycleInv'
  OBVIOUS
<1>s. Stop("assertion") => LifecycleInv'
  BY Stopped DEF Outcomes
<1> SUFFICES ASSUME NEW r \in regions, NEW listed \in BOOLEAN, NEW D \in SUBSET Devices \ {{}},
                    region' = [id |-> r, devices |-> D, listed |-> listed,
                               num_gang |-> 0, vector_length |-> 0, started |-> FALSE],
                    UNCHANGED <<startVars, curr, deviceVars, buffers, options, history, outcome>>
             PROVE  LifecycleInv'
  BY <1>s DEF acc_build_region
<1>1. r \in Regions
  BY DEF LifecycleInv, TypeOK
<1>2. TypeOK'
  BY <1>1 DEF LifecycleInv, TypeOK, startVars, deviceVars, history
<1> QED
  BY <1>2, RegionSet DEF acc_build_region, Ready, history

LEMMA SizesKeepInv == LifecycleInv /\ SetSizes => LifecycleInv'
<1> SUFFICES ASSUME LifecycleInv, SetSizes PROVE LifecycleInv'
  OBVIOUS
<1>t. TypeOK
  BY DEF LifecycleInv
<1>1. PICK gang \in {0, 1}, vector \in {0, 1} :
        region' = [region EXCEPT !.num_gang = gang, !.vector_length = vector]
  BY DEF SetSizes
<1>2. /\ region' \in [id : Regions, devices : SUBSET Devices, listed : BOOLEAN,
                     num_gang : Nat \cup {Address}, vector_length : Nat,
                     started : BOOLEAN]
      /\ region'.started = region.started
  <2>1. region \in [id : Regions, devices : SUBSET Devices, listed : BOOLEAN,
                    num_gang : Nat \cup {Address}, vector_length : Nat,
                    started : BOOLEAN]
    BY <1>t, RegionType DEF SetSizes
  <2>2. gang \in Nat \cup {Address} /\ vector \in Nat
    OBVIOUS
  <2>3. region' = [id |-> region.id, devices |-> region.devices,
                   listed |-> region.listed, num_gang |-> gang,
                   vector_length |-> vector, started |-> region.started]
    BY <1>1, <2>1
  <2> QED
    BY <2>1, <2>2, <2>3
<1>3. TypeOK'
  BY <1>t, <1>2 DEF SetSizes, TypeOK, startVars, deviceVars, history
<1> QED
  BY <1>2, <1>3, RegionSet DEF SetSizes, Ready, history

(* Other options leave the programs behind that are built.                 *)
LEMMA VersionKeepsInv == LifecycleInv /\ SetVersion => LifecycleInv'
<1> SUFFICES ASSUME LifecycleInv, SetVersion PROVE LifecycleInv'
  OBVIOUS
<1> USE DEF startVars, deviceVars
<1> DEFINE Built(r) == {e \in Devices : devices_data[e] \in Data
                                        /\ devices_data[e].programs[r] # Unset}
<1>1. PICK r \in regions, v \in Versions :
        /\ options' = [options EXCEPT ![r] = v]
        /\ left' = left \cup {<<"options", d, r>> : d \in Built(r)}
  BY DEF SetVersion
<1>2. r \in Regions /\ \A q \in Regions : q # r => options'[q] = options[q]
  BY <1>1 DEF LifecycleInv, TypeOK
<1>l. /\ left \subseteq left'
      /\ \A d \in Built(r) : <<"options", d, r>> \in left'
  BY <1>1
<1>3. TypeOK'
  <2>1. left' \subseteq Leftovers
    BY <1>1, <1>2 DEF LifecycleInv, TypeOK, Leftovers
  <2>2. options' \in [Regions -> Versions]
    BY <1>1 DEF LifecycleInv, TypeOK
  <2> QED
    BY <2>1, <2>2 DEF SetVersion, LifecycleInv, TypeOK
<1>4. FreedHaveFailed' /\ StartedIsBuilt' /\ BuffersAreOfTheContext'
  BY <1>l DEF SetVersion, LifecycleInv, FreedHaveFailed, StartedIsBuilt,
              BuffersAreOfTheContext, Lost, HeldOver
<1>5. ProgramsAreOfTheVersion'
  <2> SUFFICES ASSUME NEW d \in Devices, NEW q \in Regions, devices_data[d] \in Data,
                      <<"options", d, q>> \notin left'
               PROVE  devices_data[d].programs[q] \in {Unset, options'[q]}
    BY DEF SetVersion, ProgramsAreOfTheVersion, Outdated
  <2>1. CASE q = r
    BY <1>l, <2>1
  <2>2. CASE q # r
    BY <1>2, <1>l, <2>2 DEF LifecycleInv, ProgramsAreOfTheVersion, Outdated
  <2> QED
    BY <2>1, <2>2
<1>6. AliveIsKnown'
  BY DEF SetVersion, LifecycleInv, AliveIsKnown
<1>7. NoWildAccess' /\ NoForeignObject'
  BY DEF SetVersion, Ready, NoWildAccess, NoForeignObject
<1> QED
  BY <1>3, <1>4, <1>5, <1>6, <1>7 DEF LifecycleInv

-----------------------------------------------------------------------------
(* Starting builds what is not built, with the version of the region.      *)
LEMMA ProgramsBuilt ==
  ASSUME LifecycleInv, region # Unset, NEW D, D = region.devices,
         \A d \in D : ~Broken(d),
         devices_data' = [d \in Devices |->
           IF d \in D /\ d \in Unbuilt(D)
           THEN [devices_data[d] EXCEPT !.programs[region.id] = options[region.id]]
           ELSE devices_data[d]]
  PROVE  \A d \in Devices :
           \/ /\ d \notin Unbuilt(D)
              /\ devices_data'[d] = devices_data[d]
           \/ /\ d \in Unbuilt(D) /\ devices_data[d] \in Data /\ devices_data'[d] \in Data
              /\ devices_data[d].programs[region.id] = Unset
              /\ devices_data'[d].context = devices_data[d].context
              /\ \A r \in Regions :
                   devices_data'[d].programs[r] =
                     IF r = region.id THEN options[r] ELSE devices_data[d].programs[r]
<1> SUFFICES ASSUME NEW d \in Devices, d \in Unbuilt(D)
             PROVE  /\ devices_data[d] \in Data /\ devices_data'[d] \in Data
                    /\ devices_data[d].programs[region.id] = Unset
                    /\ devices_data'[d].context = devices_data[d].context
                    /\ \A r \in Regions :
                         devices_data'[d].programs[r] =
                           IF r = region.id THEN options[r] ELSE devices_data[d].programs[r]
  BY DEF Unbuilt
<1>1. devices_data[d] \in Data /\ devices_data[d].programs[region.id] = Unset
  BY DEF Unbuilt, Broken
<1>2. region.id \in Regions /\ options[region.id] \in Versions
  BY RegionType DEF LifecycleInv
<1>3. devices_data'[d] = [devices_data[d] EXCEPT !.programs[region.id] = options[region.id]]
  BY DEF Unbuilt
<1>4. devices_data'[d] = [context |-> devices_data[d].context,
        programs |-> [devices_data[d].programs EXCEPT ![region.id] = options[region.id]]]
  BY <1>1, <1>3 DEF Data
<1>5. /\ devices_data[d].context \in Nat
      /\ devices_data[d].programs \in [Regions -> Versions \cup {Unset}]
  BY <1>1 DEF Data
<1> HIDE <1>3
<1>6. [devices_data[d].programs EXCEPT ![region.id] = options[region.id]]
        \in [Regions -> Versions \cup {Unset}]
  BY <1>2, <1>5
<1> QED
  BY <1>1, <1>2, <1>4, <1>5, <1>6 DEF Data

LEMMA StartKeepsInv == LifecycleInv /\ acc_region_start => LifecycleInv'
<1> SUFFICES ASSUME LifecycleInv, acc_region_start PROVE LifecycleInv'
  OBVIOUS
<1>t. TypeOK /\ region # Unset /\ ~region.started /\ outcome = "running"
  BY DEF LifecycleInv, acc_region_start, Ready
<1> DEFINE D == region.devices
<1>r. /\ D \subseteq Devices /\ region.id \in Regions
      /\ options[region.id] \in Versions /\ options[region.id] # Unset
  BY <1>t, RegionType
<1>s. \A o \in {"exit", "assertion"} : Stop(o) => LifecycleInv'
  BY Stopped DEF Outcomes
<1>f. ASSUME NEW d \in D, devices_data[d] = Freed, Stop("undefined") PROVE LifecycleInv'
  <2>1. failed # {}
    BY <1>f, <1>r DEF LifecycleInv, FreedHaveFailed
  <2> QED BY <1>f, <2>1, Stopped DEF Outcomes
<1>n. ASSUME NeedsList, ~region.listed, Stop("undefined") PROVE LifecycleInv'
  BY <1>n, <1>t, Stopped DEF Outcomes
<1>1. SUFFICES
        ASSUME \A d \in D : ~Broken(d),
               devices_data' = [d \in Devices |->
                 IF d \in D /\ d \in Unbuilt(D)
                 THEN [devices_data[d] EXCEPT !.programs[region.id] = options[region.id]]
                 ELSE devices_data[d]],
               alive' = alive \cup
                 {<<d, devices_data[d].context, region.id>> : d \in Unbuilt(D)},
               region' = [region EXCEPT !.started = TRUE, !.num_gang = Default(@, Address)],
               UNCHANGED <<startVars, curr, created, buffers, options, history, outcome>>
        PROVE  LifecycleInv'
  BY <1>s, <1>f, <1>n DEF acc_region_start
<1>2. \A d \in Devices :
        \/ /\ d \notin Unbuilt(D)
           /\ devices_data'[d] = devices_data[d]
        \/ /\ d \in Unbuilt(D) /\ devices_data[d] \in Data /\ devices_data'[d] \in Data
           /\ devices_data[d].programs[region.id] = Unset
           /\ devices_data'[d].context = devices_data[d].context
           /\ \A r \in Regions :
                devices_data'[d].programs[r] =
                  IF r = region.id THEN options[r] ELSE devices_data[d].programs[r]
  BY <1>1, <1>t, ProgramsBuilt
<1>3. /\ region' \in [id : Regions, devices : SUBSET Devices, listed : BOOLEAN,
                     num_gang : Nat \cup {Address}, vector_length : Nat,
                     started : BOOLEAN]
      /\ region'.id = region.id /\ region'.devices = region.devices
  <2>1. region \in [id : Regions, devices : SUBSET Devices, listed : BOOLEAN,
                    num_gang : Nat \cup {Address}, vector_length : Nat,
                    started : BOOLEAN]
    BY <1>t, RegionType
  <2>2. region' = [id |-> region.id, devices |-> region.devices,
                   listed |-> region.listed,
                   num_gang |-> Default(region.num_gang, Address),
                   vector_length |-> region.vector_length, started |-> TRUE]
    BY <1>1, <2>1
  <2>3. Default(region.num_gang, Address) \in Nat \cup {Address}
    BY <2>1 DEF Default
  <2> QED
    BY <2>1, <2>2, <2>3
<1> HIDE DEF D
<1>u. Unbuilt(D) \subseteq D
  BY DEF Unbuilt
<1>4. TypeOK'
  <2>1. devices_data' \in [Devices -> Data \cup {Unset, Freed}]
    BY <1>1, <1>2, <1>t DEF TypeOK
  <2>2. alive' \subseteq Devices \X Nat \X Regions
    <3>1. \A d \in Unbuilt(D) : d \in Devices /\ devices_data[d].context \in Nat
      BY <1>2, <1>u, <1>r DEF Data
    <3> QED
      BY <1>1, <1>r, <1>t, <3>1 DEF TypeOK
  <2> QED
    BY <1>1, <1>3, <1>t, <2>1, <2>2 DEF TypeOK, startVars, history
<1>5. FreedHaveFailed'
  BY <1>1, <1>2, KindsOfData DEF LifecycleInv, FreedHaveFailed, history
<1>6. StartedIsBuilt'
  <2> SUFFICES ASSUME NEW d \in D
               PROVE  devices_data'[d] \in Data /\ devices_data'[d].programs[region.id] # Unset
    BY <1>3 DEF StartedIsBuilt, D
  <2>1. d \in Devices /\ devices_data[d] \in Data
    BY <1>1, <1>r DEF Broken
  <2>2. d \notin Unbuilt(D) => devices_data[d].programs[region.id] # Unset
    BY DEF Unbuilt
  <2> QED
    BY <1>2, <1>r, <2>1, <2>2
<1>7. BuffersAreOfTheContext'
  BY <1>1, <1>2 DEF LifecycleInv, BuffersAreOfTheContext, HeldOver, history
<1>8. ProgramsAreOfTheVersion'
  <2> SUFFICES ASSUME NEW d \in Devices, NEW r \in Regions, devices_data'[d] \in Data,
                      ~Outdated(d, r)
               PROVE  devices_data'[d].programs[r] \in {Unset, options[r]}
    BY <1>1 DEF ProgramsAreOfTheVersion, Outdated, history
  <2> QED
    BY <1>2 DEF LifecycleInv, ProgramsAreOfTheVersion
<1>9. AliveIsKnown'
  <2> SUFFICES ASSUME NEW d \in Devices, NEW c \in Nat, NEW r \in Regions
               PROVE  <<d, c, r>> \in alive' <=>
                        /\ devices_data'[d] \in Data
                        /\ devices_data'[d].context = c
                        /\ devices_data'[d].programs[r] # Unset
    BY DEF AliveIsKnown
  <2>1. <<d, c, r>> \in alive <=>
          /\ devices_data[d] \in Data
          /\ devices_data[d].context = c
          /\ devices_data[d].programs[r] # Unset
    BY DEF LifecycleInv, AliveIsKnown
  <2>2. <<d, c, r>> \in alive' <=>
          \/ <<d, c, r>> \in alive
          \/ d \in Unbuilt(D) /\ c = devices_data[d].context /\ r = region.id
    BY <1>1
  <2>3. CASE d \notin Unbuilt(D)
    BY <1>2, <2>1, <2>2, <2>3
  <2>4. CASE d \in Unbuilt(D)
    BY <1>2, <1>r, <2>1, <2>2, <2>4
  <2> QED
    BY <2>3, <2>4
<1>10. NoWildAccess' /\ NoForeignObject'
  BY <1>1, <1>t DEF NoWildAccess, NoForeignObject
<1> QED
  BY <1>4, <1>5, <1>6, <1>7, <1>8, <1>9, <1>10 DEF LifecycleInv

(* A started region has all it needs to launch its kernel, or the program  *)
(* has left something behind.                                              *)
LEMMA StartedIsLaunchable ==
  ASSUME LifecycleInv, region # Unset, region.started, NEW d \in region.devices
  PROVE  /\ Broken(d) => \E l \in left : l[1] = "region"
         /\ ~Broken(d) /\ ~Launchable(d) => left # {}
<1>1. d \in Devices /\ region.id \in Regions
  BY RegionType DEF LifecycleInv
<1>2. Lost(d, region.id) => \E l \in left : l[1] = "region"
  BY DEF Lost
<1>3. \/ Lost(d, region.id)
      \/ devices_data[d] \in Data /\ devices_data[d].programs[region.id] # Unset
  BY DEF LifecycleInv, StartedIsBuilt
<1>4. Broken(d) => \E l \in left : l[1] = "region"
  BY <1>2, <1>3 DEF Broken
<1>5. ASSUME ~Broken(d), left = {}
      PROVE  Launchable(d)
  <2>1. devices_data[d] \in Data /\ devices_data[d].programs[region.id] # Unset
    BY <1>2, <1>3, <1>5 DEF Broken
  <2>2. devices_data[d].programs[region.id] = options[region.id]
    BY <1>1, <1>5, <2>1 DEF LifecycleInv, ProgramsAreOfTheVersion, Outdated
  <2>3. \A x \in Held(d) : buffers[d][x] = devices_data[d].context
    BY <1>1, <1>5 DEF Held, LifecycleInv, BuffersAreOfTheContext, HeldOver
  <2> QED
    BY <2>2, <2>3 DEF Launchable
<1> QED
  BY <1>4, <1>5

LEMMA KernelKeepsInv == LifecycleInv /\ acc_enqueue_kernel => LifecycleInv'
<1> SUFFICES ASSUME LifecycleInv, acc_enqueue_kernel PROVE LifecycleInv'
  OBVIOUS
<1>r. region # Unset /\ region.started
  BY DEF acc_enqueue_kernel
<1>1. CASE (\E d \in region.devices : Broken(d)) /\ Stop("undefined")
  BY <1>1, <1>r, StartedIsLaunchable, Stopped DEF Outcomes
<1>2. CASE Stop("exit")
  BY <1>2, Stopped DEF Outcomes
<1>3. CASE (\E d \in region.devices : ~Broken(d) /\ ~Launchable(d)) /\ Stop("foreign")
  BY <1>3, <1>r, StartedIsLaunchable, Stopped DEF Outcomes
<1> QED
  BY <1>1, <1>2, <1>3 DEF acc_enqueue_kernel

LEMMA StopKeepsInv == LifecycleInv /\ acc_region_stop => LifecycleInv'
<1> SUFFICES ASSUME LifecycleInv, acc_region_stop PROVE LifecycleInv'
  OBVIOUS
<1>1. CASE (\E d \in region.devices : Broken(d)) /\ Stop("undefined")
  BY <1>1, StartedIsLaunchable, Stopped DEF Outcomes, acc_region_stop
<1>2. ASSUME region' = Unset,
             left' = {l \in left : l[1] # "region"},
             UNCHANGED <<startVars, curr, deviceVars, buffers, options, failed, outcome>>
      PROVE  LifecycleInv'
  <2>1. TypeOK'
    BY <1>2 DEF LifecycleInv, TypeOK, startVars, deviceVars
  <2> QED
    BY <1>2, <2>1, RegionSet DEF acc_region_stop, Ready
<1> QED
  BY <1>1, <1>2 DEF acc_region_stop

-----------------------------------------------------------------------------
LEMMA NextLifecycleInv == LifecycleInv /\ [Next]_vars => LifecycleInv'
<1> SUFFICES ASSUME LifecycleInv, [Next]_vars PROVE LifecycleInv'
  OBVIOUS
<1>1. CASE UNCHANGED vars
  BY <1>1, Unchanged
<1>2. CASE acc_init_once
  BY <1>2, OnceKeepsInv
<1>3. CASE BadDevice \/ WrongDevice
  BY <1>3, Stopped DEF BadDevice, WrongDevice, Outcomes
<1>4. CASE acc_init
  BY <1>4, InitKeepsInv
<1>5. CASE acc_shutdown
  BY <1>5, ShutdownKeepsInv
<1>6. CASE acc_set_device
  BY <1>6, SetDeviceKeepsInv
<1>7. CASE acc_create \/ acc_update \/ acc_delete
  BY <1>7, MemoryKeepsInv
<1>8. CASE acc_build_region
  BY <1>8, BuildKeepsInv
<1>9. CASE SetSizes
  BY <1>9, SizesKeepInv
<1>10. CASE SetVersion
  BY <1>10, VersionKeepsInv
<1>11. CASE acc_region_start
  BY <1>11, StartKeepsInv
<1>12. CASE acc_enqueue_kernel
  BY <1>12, KernelKeepsInv
<1>13. CASE acc_region_stop
  BY <1>13, StopKeepsInv
<1> QED
  BY <1>1, <1>2, <1>3, <1>4, <1>5, <1>6, <1>7, <1>8, <1>9, <1>10, <1>11,
     <1>12, <1>13 DEF Next

LEMMA LifecycleAlways == Spec => []LifecycleInv
BY InitLifecycleInv, NextLifecycleInv, PTL DEF Spec

(* The state of runtime and OpenCL objects is well formed (TypeOK of       *)
(* Lifecycle) for any devices, regions and programs.                       *)
THEOREM LifecycleTypeOK == Spec => []TypeOK
<1>1. LifecycleInv => TypeOK
  BY DEF LifecycleInv
<1> QED
  BY <1>1, LifecycleAlways, PTL

(* Initialising twice, shutting down twice and starting again never lead   *)
(* to data that were freed (public/runtime.c): memory that is not there is *)
(* touched in the cases NoWildAccess names, and in no other.               *)
THEOREM WildAccessesAreKnown == Spec => []NoWildAccess
<1>1. LifecycleInv => NoWildAccess
  BY DEF LifecycleInv
<1> QED
  BY <1>1, LifecycleAlways, PTL

(* OpenCL refuses a transfer or a launch because its objects are of two    *)
(* contexts, or for want of a kernel, only while the program has left      *)
(* something behind: a buffer held over a shutdown, a device shut down     *)
(* under its region, options changed after a build (private/memory.c,      *)
(* internal/kernel.c, public/runtime.c, internal/region.c).                *)
THEOREM ObjectsAreNeverForeign == Spec => []NoForeignObject
<1>1. LifecycleInv => NoForeignObject
  BY DEF LifecycleInv
<1> QED
  BY <1>1, LifecycleAlways, PTL

(* The programs OpenCL keeps are those the tables of the devices point to: *)
(* none is built twice for a context, none is left when it is released     *)
(* (internal/region.c, public/runtime.c).                                  *)
THEOREM ProgramsAreAlwaysOwned == Spec => []ProgramsAreOwned
<1>1. LifecycleInv => ProgramsAreOwned
  <2> SUFFICES ASSUME LifecycleInv PROVE ProgramsAreOwned
    OBVIOUS
  <2> DEFINE Known == {<<d, devices_data[d].context, r>> :
                d \in {e \in Devices : devices_data[e] \in Data}, r \in Regions}
             Built == {p \in Devices \X Nat \X Regions :
                         devices_data[p[1]].programs[p[3]] # Unset}
  <2>1. alive \subseteq Devices \X Nat \X Regions
    BY DEF LifecycleInv, TypeOK
  <2>2. Known \subseteq Devices \X Nat \X Regions
    BY DEF Data
  <2>3. \A d \in Devices, c \in Nat, r \in Regions :
          <<d, c, r>> \in Known <=> devices_data[d] \in Data /\ devices_data[d].context = c
    OBVIOUS
  <2>4. \A d \in Devices, c \in Nat, r \in Regions :
          <<d, c, r>> \in Built <=> devices_data[d].programs[r] # Unset
    OBVIOUS
  <2> HIDE DEF Known, Built
  <2>a. AliveIsKnown
    BY DEF LifecycleInv
  <2>5. \A d \in Devices, c \in Nat, r \in Regions :
          <<d, c, r>> \in alive <=> <<d, c, r>> \in Known \cap Built
    BY <2>3, <2>4, <2>a DEF AliveIsKnown
  <2>6. alive = Known \cap Built
    BY <2>1, <2>2, <2>5
  <2> QED
    BY <2>6 DEF ProgramsAreOwned, Known, Built
<1> QED
  BY <1>1, LifecycleAlways, PTL

=============================================================================
