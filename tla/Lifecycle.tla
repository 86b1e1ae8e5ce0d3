----------------------------- MODULE Lifecycle ------------------------------
(***************************************************************************)
(* The life of the runtime and of its OpenCL objects: the first call sets  *)
(* everything up (private/init.c, internal/init.c, internal/opencl-init.c),*)
(* devices are initialised and shut down (public/runtime.c), regions are   *)
(* built and started (private/region.c, internal/region.c), and the calls  *)
(* of the memory API act on the current device (public/memory.c).          *)
(*                                                                         *)
(* A context is known by its device and its number among the contexts of   *)
(* that device.  OpenCL refuses to mix objects of two contexts.            *)
(*                                                                         *)
(* Nothing here keeps the program from shutting a device down that holds   *)
(* buffers or runs a region, from using a device that is not initialised,  *)
(* or from changing the options of a region that is built: the runtime     *)
(* does not either.                                                        *)
(***************************************************************************)
EXTENDS Integers, FiniteSets

CONSTANTS
  Types,            \* of devices
  acc_device_any,
  Table,            \* where the devices of each type are: [first, num]
  Regions,          \* regions of the program
  Versions,         \* versions of their kernels, enabled by build options
  Arrays,           \* host arrays, and what acc_malloc returns
  Unset,            \* a null pointer
  Freed,            \* a pointer to memory that was released
  Address,          \* a pointer taken for a number
  MaxContexts       \* bound on the contexts explored for each device

ASSUME TableAssumption ==
  /\ acc_device_any \in Types
  /\ Table \in [Types -> [first : Nat, num : Nat]]
  /\ Table[acc_device_any].first = 0
  /\ \A type \in Types :
       Table[type].first + Table[type].num <= Table[acc_device_any].num
ASSUME VersionsAssumption == Versions # {}

(* What is known of an initialised device, with the version of the program *)
(* of each region.                                                         *)
Data == [context : Nat, programs : [Regions -> Versions \cup {Unset}]]

ASSUME PointersAssumption ==
  /\ Unset # Freed /\ Unset \notin Data /\ Freed \notin Data
  /\ Address \notin Int /\ Unset \notin Nat \cup Versions
ASSUME RegionsAssumption == Unset \notin [id : Regions, devices : SUBSET Nat,
  listed : BOOLEAN, num_gang : Nat \cup {Address}, vector_length : Nat,
  started : BOOLEAN]

Devices == 0..(Table[acc_device_any].num - 1)

VARIABLES
  check_list,     \* the flags of what is initialised
  outcome,        \* how the program ended, if it did
  num_devices,    \* the array of numbers of devices, for its sum
  regions,        \* compiler_data.regions
  curr,           \* current type and number of device
  devices_data,   \* of each device: its context and the programs in it
  created,        \* number of contexts created on each device
  alive,          \* programs OpenCL keeps: device, context and region
  buffers,        \* of each device: the context of the buffer of an array
  options,        \* of each region: the version its options enable
  region,         \* the region that is open
  failed,         \* history: devices whose context could not be created
  left            \* history: what the program has left behind, see Leftovers

startVars == <<check_list, num_devices, regions>>
deviceVars == <<devices_data, created, alive>>
regionVars == <<options, region>>
history == <<failed, left>>
objects == <<startVars, curr, deviceVars, buffers, regionVars, history>>
vars == <<objects, outcome>>

(* OpenCL failed, an assertion did, OpenCL refused to mix contexts or does *)
(* not find a kernel, or memory was accessed that is not there.            *)
Outcomes == {"running", "exit", "assertion", "foreign", "undefined"}
Stop(o) == outcome' = o /\ UNCHANGED objects

Flags == {"alloc", "sqlite", "ocl_devices", "acc_devices", "ocl_sources",
          "acc_defaults", "mem_manager", "data_env", "profiling"}

-----------------------------------------------------------------------------
(* acc_init_once: every public call comes here first.  Each part runs once *)
(* and in this order, and the next asserts its flag.                       *)
Part(flag, before) ==
  /\ outcome = "running"
  /\ flag \notin check_list
  /\ before \subseteq check_list

set_flag(flag) ==
  /\ check_list' = check_list \cup {flag}
  /\ UNCHANGED <<outcome, deviceVars, buffers, regionVars, history>>

InitAlloc ==
  \/ /\ Part("alloc", {})
     /\ set_flag("alloc") /\ UNCHANGED <<num_devices, regions, curr>>
  \/ /\ Part("sqlite", {"alloc"})
     /\ set_flag("sqlite") /\ UNCHANGED <<num_devices, regions, curr>>

(* The platforms: a query that fails leaves the flag unset, and no         *)
(* platform at all leaves the arrays unset (DeviceTable has the rest).     *)
acc_collect_ocl_devices ==
  /\ Part("ocl_devices", {"sqlite"})
  /\ \/ set_flag("ocl_devices") /\ num_devices' = Table[acc_device_any].num
     \/ set_flag("ocl_devices") /\ UNCHANGED num_devices
     \/ Stop("assertion")
  /\ UNCHANGED <<regions, curr>>

acc_init_devices ==
  /\ Part("acc_devices", {"ocl_devices"})
  /\ \/ num_devices = Unset /\ Stop("undefined")
     \/ num_devices # Unset /\ set_flag("acc_devices")
  /\ UNCHANGED <<num_devices, regions, curr>>

(* The regions are compiled in, or come from the data base named by        *)
(* ACC_VERSIONS_DB, whose file must exist; or there are none.              *)
acc_load_ocl_sources ==
  /\ Part("ocl_sources", {"acc_devices"})
  /\ \/ set_flag("ocl_sources") /\ regions' = Regions
     \/ set_flag("ocl_sources") /\ UNCHANGED regions
     \/ Stop("assertion")
  /\ UNCHANGED <<num_devices, curr>>

(* ACC_DEVICE_TYPE and ACC_DEVICE_NUM, which nobody checks.                *)
acc_init_defaults ==
  /\ Part("acc_defaults", {"ocl_sources"})
  /\ set_flag("acc_defaults")
  /\ \E type \in Types, num \in -1..Cardinality(Devices) :
       curr' = [type |-> type, num |-> num]
  /\ UNCHANGED <<num_devices, regions>>

InitData ==
  /\ \/ /\ Part("mem_manager", {"acc_defaults"})
        /\ \/ num_devices = Unset /\ Stop("undefined")
           \/ num_devices # Unset /\ set_flag("mem_manager")
     \/ Part("data_env", {"mem_manager"}) /\ set_flag("data_env")
  /\ UNCHANGED <<num_devices, regions, curr>>

(* Profiling describes the devices, and there must be one.                 *)
acc_profiling_init ==
  /\ Part("profiling", {"data_env"})
  /\ \/ num_devices = 0 /\ Stop("assertion")
     \/ num_devices # 0 /\ set_flag("profiling")
  /\ UNCHANGED <<num_devices, regions, curr>>

acc_init_once ==
  \/ InitAlloc
  \/ acc_collect_ocl_devices
  \/ acc_init_devices
  \/ acc_load_ocl_sources
  \/ acc_init_defaults
  \/ InitData
  \/ acc_profiling_init

Ready == outcome = "running" /\ check_list = Flags

-----------------------------------------------------------------------------
(* acc_get_device_idx, with its assertion.                                 *)
Exists(type, num) == num >= 0 /\ num < Table[type].num
DeviceOf(type, num) == Table[type].first + num

(* acc_init and acc_shutdown do all devices of a type, acc_init_ and       *)
(* acc_shutdown_ one of them, acc_init_region_ those of a region.          *)
Selections ==
  {{DeviceOf(type, num) : num \in 0..(Table[type].num - 1)} : type \in Types}
    \cup {{d} : d \in Devices}

BadDevice == Ready /\ (\E type \in Types : Table[type].num = 0) /\ Stop("assertion")

NewData(d) ==
  [context |-> created[d] + 1, programs |-> [r \in Regions |-> Unset]]

(* Mutant: initialising a device again makes a new context.                *)
Uninitialised_all(D) == {d \in D : devices_data[d] # Freed}

(* A device that has data is left alone.                                   *)
Uninitialised(D) == {d \in D : devices_data[d] = Unset}

(* acc_init__: a context, room for the programs and a queue for each       *)
(* device.  Where the context fails, the data are freed and stay known.    *)
(* A queue that fails ends the program.                                    *)
acc_init ==
  /\ Ready
  /\ \/ Stop("exit")
     \/ \E D \in Selections \ {{}} :
          LET new == Uninitialised(D)
          IN  \E bad \in SUBSET new :
                /\ \A d \in new : created[d] < MaxContexts
                /\ devices_data' = [d \in Devices |->
                     IF d \in bad THEN Freed
                     ELSE IF d \in new THEN NewData(d) ELSE devices_data[d]]
                /\ created' = [d \in Devices |->
                     IF d \in new \ bad THEN created[d] + 1 ELSE created[d]]
                /\ failed' = failed \cup bad
                /\ UNCHANGED <<startVars, curr, alive, buffers, regionVars, left, outcome>>

Held(d) == {x \in Arrays : buffers[d][x] # Unset}
Running == IF region # Unset /\ region.started THEN region.devices ELSE {}

(* A buffer of a device, held when the device was shut down and not        *)
(* released since; a device of the region that is running, shut down while *)
(* it was; a program built with options that have changed since.           *)
Leftovers ==
  ({"buffer"} \X Devices \X Arrays) \cup ({"region", "options"} \X Devices \X Regions)

LeftByShutdown(D) ==
  {l \in left : l[1] = "options" => l[2] \notin D}
    \cup {l \in {"buffer"} \X D \X Arrays : buffers[l[2]][l[3]] # Unset}
    \cup (IF Running = {} THEN {}
          ELSE {<<"region", d, region.id>> : d \in D \cap Running})

(* Mutant: the programs are not released with their context.               *)
ReleasePrograms_none(D) == alive

ReleasePrograms(D) == {p \in alive : p[1] \notin D}

(* Mutant: the pointer to the data stays.                                  *)
WithoutData_kept(D) ==
  [d \in Devices |-> IF d \in D /\ devices_data[d] # Unset THEN Freed
                     ELSE devices_data[d]]

WithoutData(D) ==
  [d \in Devices |-> IF d \in D THEN Unset ELSE devices_data[d]]

(* acc_shutdown_: context and programs are released, the queue is not (and *)
(* the context lives as long), nor are the buffers, nor their place in the *)
(* memory manager.                                                         *)
acc_shutdown ==
  /\ Ready
  /\ \E D \in Selections \ {{}} :
       \/ (\E d \in D : devices_data[d] = Freed) /\ Stop("undefined")
       \/ /\ \A d \in D : devices_data[d] # Freed
          /\ alive' = ReleasePrograms(D)
          /\ devices_data' = WithoutData(D)
          /\ left' = LeftByShutdown(D)
          /\ UNCHANGED <<startVars, curr, created, buffers, regionVars, failed, outcome>>

-----------------------------------------------------------------------------
acc_set_device ==
  /\ Ready
  /\ \E type \in Types, num \in {curr.num} \cup Devices :
       curr' = [type |-> type, num |-> num]
  /\ UNCHANGED <<startVars, deviceVars, buffers, regionVars, history, outcome>>

(* The calls of public/memory.c find the current device and call their     *)
(* namesake of private/memory.c, which looks into the data of the device   *)
(* and does not ask whether there are any.                                 *)
CurrentDevice == DeviceOf(curr.type, curr.num)

WrongDevice == Ready /\ ~Exists(curr.type, curr.num) /\ Stop("assertion")

OnDevice(d) ==
  /\ Ready
  /\ Exists(curr.type, curr.num) /\ d = CurrentDevice

Broken(d) == devices_data[d] \notin Data

(* acc_malloc, acc_create, acc_copyin: a buffer in the context of the      *)
(* device.  An array that is present already is an assertion, but for the  *)
(* calls that allow it.                                                    *)
acc_create ==
  \E d \in Devices, x \in Arrays :
    /\ OnDevice(d)
    /\ \/ x \in Held(d) /\ Stop("assertion")
       \/ Broken(d) /\ Stop("undefined")
       \/ ~Broken(d) /\ Stop("exit")
       \/ /\ ~Broken(d) /\ x \notin Held(d)
          /\ buffers' = [buffers EXCEPT ![d][x] = devices_data[d].context]
          /\ UNCHANGED <<startVars, curr, deviceVars, regionVars, history, outcome>>

(* acc_update_device, acc_update_self, acc_memcpy_*, and acc_present_or_*  *)
(* of an array that is present: a transfer through the queue of the device;*)
(* acc_pop_data_environment waits for this queue.                          *)
acc_update ==
  \E d \in Devices :
    /\ OnDevice(d)
    /\ \/ Broken(d) /\ Stop("undefined")
       \/ ~Broken(d) /\ Stop("exit")
       \/ /\ ~Broken(d) /\ \E x \in Held(d) : buffers[d][x] # devices_data[d].context
          /\ Stop("foreign")

(* acc_free, acc_delete, acc_copyout (after its transfer): the buffer is   *)
(* all that is needed, and it must be there.                               *)
acc_delete ==
  \E d \in Devices, x \in Arrays :
    /\ OnDevice(d)
    /\ \/ x \notin Held(d) /\ Stop("assertion")
       \/ x \in Held(d) /\ Stop("exit")
       \/ /\ x \in Held(d)
          /\ buffers' = [buffers EXCEPT ![d][x] = Unset]
          /\ left' = left \ {<<"buffer", d, x>>}
          /\ UNCHANGED <<startVars, curr, deviceVars, regionVars, failed, outcome>>

-----------------------------------------------------------------------------
(* acc_build_region: on the devices listed for the region, or the current  *)
(* one if there is no list; sizes are not given.  An unknown identifier is *)
(* an assertion.                                                           *)
acc_build_region ==
  /\ Ready /\ region = Unset
  /\ \/ regions # Regions /\ Stop("assertion")
     \/ \E r \in regions, listed \in BOOLEAN, D \in SUBSET Devices \ {{}} :
          /\ listed \/ (Exists(curr.type, curr.num) /\ D = {CurrentDevice})
          /\ region' = [id |-> r, devices |-> D, listed |-> listed,
                        num_gang |-> 0, vector_length |-> 0, started |-> FALSE]
          /\ UNCHANGED <<startVars, curr, deviceVars, buffers, options, history, outcome>>

(* The program sets the sizes of the launch, or leaves some of them to the *)
(* defaults of the devices.  Workers are as gangs.                         *)
SetSizes ==
  /\ Ready /\ region # Unset
  /\ ~region.started /\ region.num_gang = 0 /\ region.vector_length = 0
  /\ \E gang, vector \in {0, 1} :
       region' = [region EXCEPT !.num_gang = gang, !.vector_length = vector]
  /\ UNCHANGED <<startVars, curr, deviceVars, buffers, options, history, outcome>>

(* ... and which version of its kernel is to run (the options of the       *)
(* region), whether it is built or not.                                    *)
SetVersion ==
  /\ Ready
  /\ \E r \in regions, v \in Versions :
       /\ v # options[r]
       /\ options' = [options EXCEPT ![r] = v]
       /\ left' = left \cup {<<"options", d, r>> :
            d \in {e \in Devices : devices_data[e] \in Data
                                   /\ devices_data[e].programs[r] # Unset}}
  /\ UNCHANGED <<startVars, curr, deviceVars, buffers, region, failed, outcome>>

(* acc_region_init: the program is built in the context of every device    *)
(* that has none yet, with the options of the moment.                      *)
Unbuilt(D) == {d \in D : devices_data[d].programs[region.id] = Unset}

(* acc_get_region_defaults: acc_device_defaults has arrays for gangs and   *)
(* workers, whose address is taken, and 0 for the length of vectors.  The  *)
(* type of device is in the list, which may not be there.                  *)
Default(size, default) == IF size = 0 THEN default ELSE size
NeedsList == region.num_gang = 0 \/ region.vector_length = 0

acc_region_start ==
  /\ Ready /\ region # Unset /\ ~region.started
  /\ LET D == region.devices
     IN  \/ (\E d \in D : devices_data[d] = Freed) /\ Stop("undefined")
         \/ (\E d \in D : devices_data[d] = Unset) /\ Stop("assertion")
         \/ Stop("exit")
         \/ /\ \A d \in D : ~Broken(d)
            /\ \/ NeedsList /\ ~region.listed /\ Stop("undefined")
               \/ NeedsList /\ region.vector_length = 0 /\ Stop("assertion")
               \/ /\ region.listed \/ ~NeedsList
                  /\ region.vector_length # 0
                  /\ devices_data' = [d \in Devices |->
                       IF d \in D /\ d \in Unbuilt(D)
                       THEN [devices_data[d] EXCEPT !.programs[region.id] = options[region.id]]
                       ELSE devices_data[d]]
                  /\ alive' = alive \cup
                       {<<d, devices_data[d].context, region.id>> : d \in Unbuilt(D)}
                  /\ region' = [region EXCEPT !.started = TRUE,
                                              !.num_gang = Default(@, Address)]
                  /\ UNCHANGED <<startVars, curr, created, buffers, options, history, outcome>>

(* acc_enqueue_kernel: the kernel of the version is looked for in the      *)
(* program; its arguments are the arrays held on the device.               *)
Launchable(d) ==
  /\ devices_data[d].programs[region.id] = options[region.id]
  /\ \A x \in Held(d) : buffers[d][x] = devices_data[d].context

acc_enqueue_kernel ==
  /\ Ready /\ region # Unset /\ region.started
  /\ \/ (\E d \in region.devices : Broken(d)) /\ Stop("undefined")
     \/ Stop("exit")
     \/ (\E d \in region.devices : ~Broken(d) /\ ~Launchable(d)) /\ Stop("foreign")

acc_region_stop ==
  /\ Ready /\ region # Unset /\ region.started
  /\ \/ (\E d \in region.devices : Broken(d)) /\ Stop("undefined")
     \/ /\ \A d \in region.devices : ~Broken(d)
        /\ region' = Unset
        /\ left' = {l \in left : l[1] # "region"}
        /\ UNCHANGED <<startVars, curr, deviceVars, buffers, options, failed, outcome>>

-----------------------------------------------------------------------------
Init ==
  /\ check_list = {} /\ outcome = "running"
  /\ num_devices = Unset /\ regions = {}
  /\ curr = [type |-> acc_device_any, num |-> 0]
  /\ devices_data = [d \in Devices |-> Unset]
  /\ created = [d \in Devices |-> 0]
  /\ alive = {}
  /\ buffers = [d \in Devices |-> [x \in Arrays |-> Unset]]
  /\ options \in [Regions -> Versions]
  /\ region = Unset
  /\ failed = {} /\ left = {}

Next ==
  \/ acc_init_once
  \/ BadDevice \/ WrongDevice
  \/ acc_init \/ acc_shutdown
  \/ acc_set_device
  \/ acc_create \/ acc_update \/ acc_delete
  \/ acc_build_region \/ SetSizes \/ SetVersion
  \/ acc_region_start \/ acc_enqueue_kernel \/ acc_region_stop

Spec == Init /\ [][Next]_vars

-----------------------------------------------------------------------------
TypeOK ==
  /\ check_list \subseteq Flags /\ outcome \in Outcomes
  /\ num_devices \in {Unset, Table[acc_device_any].num} /\ regions \in {{}, Regions}
  /\ curr \in [type : Types, num : Int]
  /\ devices_data \in [Devices -> Data \cup {Unset, Freed}]
  /\ created \in [Devices -> Nat]
  /\ alive \subseteq Devices \X Nat \X Regions
  /\ buffers \in [Devices -> [Arrays -> Nat \cup {Unset}]]
  /\ options \in [Regions -> Versions]
  /\ \/ region = Unset
     \/ region \in [id : Regions, devices : SUBSET Devices, listed : BOOLEAN,
                    num_gang : Nat \cup {Address}, vector_length : Nat,
                    started : BOOLEAN]
  /\ failed \subseteq Devices /\ left \subseteq Leftovers

(* The runtime touches memory that is not there in five cases only: there  *)
(* is no platform at all, the context of a device failed, a region that    *)
(* lists no devices leaves a size to their defaults, the current device is *)
(* not initialised, or a device of the running region was shut down.       *)
(* Initialising twice, shutting down twice and starting again are safe.    *)
NoWildAccess ==
  outcome = "undefined" =>
    \/ num_devices = Unset
    \/ failed # {}
    \/ region # Unset /\ NeedsList /\ ~region.listed
    \/ Exists(curr.type, curr.num) /\ devices_data[CurrentDevice] = Unset
    \/ \E l \in left : l[1] = "region"

(* OpenCL is given a buffer or a program of another context than the queue *)
(* it goes to, or asked for a kernel its program does not have, only if    *)
(* the program still holds a buffer over a shutdown of its device, has     *)
(* shut down a device of its running region, or changed the options of a   *)
(* program that is built; not because a device is initialised again, nor   *)
(* once such a buffer is released or such a program gone.                  *)
NoForeignObject == outcome = "foreign" => left # {}

(* OpenCL keeps exactly the programs the tables of the devices point to:   *)
(* building again and shutting down lose none and release none twice.      *)
ProgramsAreOwned ==
  alive = {<<d, devices_data[d].context, r>> :
             d \in {e \in Devices : devices_data[e] \in Data}, r \in Regions}
          \cap {p \in Devices \X Nat \X Regions :
                  devices_data[p[1]].programs[p[3]] # Unset}

=============================================================================
