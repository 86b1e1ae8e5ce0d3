------------------------------ MODULE Database ------------------------------
(***************************************************************************)
(* The data bases of an experiment and the connections to them             *)
(* (utils/sqlite.c).  A file is used directly, where every statement is    *)
(* atomic, or as a copy in memory that is loaded when it is opened and     *)
(* written over the whole file when it is saved or closed.  Nobody locks   *)
(* the file in between.                                                    *)
(*                                                                         *)
(* A table is a sequence of rows, a data base a function from the names of *)
(* its tables.                                                             *)
(***************************************************************************)
EXTENDS Integers, Sequences, FiniteSets, SequencesExt

CONSTANTS
  Programs,     \* processes that use the files
  Files,
  NumOpenCLDevices

NoTables == <<>>

ASSUME ProgramsAssumption == Programs = {"generate", "execute", "process"}
ASSUME FilesAssumption == Files = {"versions", "profile"}
ASSUME NumDevicesAssumption == NumOpenCLDevices \in Nat

VARIABLES
  disk,         \* the tables of each file that is there
  db,           \* acc_sqlite->db_files_map: of each program, its connections
  lost          \* files that were written over with a copy older than them

dbVars == <<disk, db, lost>>

(* A connection, with its copy and what the file had when it was copied.   *)
Closed == [open |-> FALSE, memory |-> FALSE, tables |-> NoTables, loaded |-> NoTables]

-----------------------------------------------------------------------------
IsTables(tables) ==
  /\ tables = [name \in DOMAIN tables |-> tables[name]]
  /\ \A name \in DOMAIN tables : tables[name] \in Seq(Range(tables[name]))

Rows(tables, name) == IF name \in DOMAIN tables THEN tables[name] ELSE <<>>

FileExists(f) == f \in DOMAIN disk

Content(f) == IF FileExists(f) THEN disk[f] ELSE NoTables

Write(f, tables) ==
  disk' = [g \in DOMAIN disk \cup {f} |-> IF g = f THEN tables ELSE disk[g]]

(* sqlite3_open makes a file that is missing (callers that need the file   *)
(* check FileExists before).                                               *)
acc_sqlite_open(p, f, use_in_memory_db) ==
  LET copy == IF use_in_memory_db THEN Content(f) ELSE NoTables
  IN /\ Write(f, Content(f))
     /\ db' = [db EXCEPT ![p][f] = [open |-> TRUE, memory |-> use_in_memory_db,
                                    tables |-> copy, loaded |-> copy]]
     /\ UNCHANGED lost

Tables(p, f) == IF db[p][f].memory THEN db[p][f].tables ELSE Content(f)

(* sqlite3_exec of statements that make tables of the connection new.      *)
Execute(p, f, new) ==
  /\ IF db[p][f].memory
     THEN db' = [db EXCEPT ![p][f].tables = new] /\ UNCHANGED disk
     ELSE Write(f, new) /\ UNCHANGED db
  /\ UNCHANGED lost

(* The copy replaces the file, whatever happened to it meanwhile.          *)
acc_sqlite_load_or_save_db(p, f) ==
  /\ Write(f, db[p][f].tables)
  /\ lost' = IF db[p][f].loaded # Content(f) THEN lost \cup {f} ELSE lost

(* A file that another process is using is not written, and nobody looks   *)
(* at the status.  A direct connection has no copy to save.                *)
acc_sqlite_save(p, f) ==
  \/ /\ db[p][f].memory
     /\ acc_sqlite_load_or_save_db(p, f)
     /\ db' = [db EXCEPT ![p][f].loaded = db[p][f].tables]
  \/ UNCHANGED dbVars

acc_sqlite_close(p, f) ==
  /\ \/ db[p][f].memory /\ acc_sqlite_load_or_save_db(p, f)
     \/ UNCHANGED <<disk, lost>>
  /\ db' = [db EXCEPT ![p][f] = Closed]

-----------------------------------------------------------------------------
acc_sqlite_table_exists(tables, name) == name \in DOMAIN tables

(* Mutant: a table that is there is dropped.                               *)
acc_sqlite_create_table_anew(tables, name) ==
  [n \in DOMAIN tables \cup {name} |-> IF n = name THEN <<>> ELSE tables[n]]

(* A table that is there is kept, with its rows.                           *)
acc_sqlite_create_table(tables, name) ==
  IF acc_sqlite_table_exists(tables, name) THEN tables
  ELSE [n \in DOMAIN tables \cup {name} |-> IF n = name THEN <<>> ELSE tables[n]]

Insert(tables, name, rows) == [tables EXCEPT ![name] = @ \o rows]

(* acc_profiling_init_db: the tables of the profiling, and what it finds   *)
(* of platforms and devices, once more at every start.                     *)
DeviceRows == [i \in 1..NumOpenCLDevices |-> [device_id |-> i - 1]]

acc_profiling_init_db(tables) ==
  Insert(acc_sqlite_create_table(acc_sqlite_create_table(tables, "Devices"), "Events"),
         "Devices", DeviceRows)

(* The elements of seq that are wanted, in their order.                    *)
Selected(seq, wanted) ==
  LET selected[n \in 0..Len(seq)] ==
        IF n = 0 THEN <<>>
        ELSE selected[n - 1] \o (IF seq[n] \in wanted THEN <<seq[n]>> ELSE <<>>)
  IN selected[Len(seq)]

(* The rows whose fields have the values conds gives.  This is the second  *)
(* of two queries; the first one, with the same conditions, counts the     *)
(* rows for the size of the buffer.                                        *)
acc_sqlite_read_table(tables, name, conds) ==
  Selected(tables[name],
    {row \in Range(tables[name]) : \A field \in DOMAIN conds : row[field] = conds[field]})

-----------------------------------------------------------------------------
(* A row of Runs in memory: the values of its fields in order ...          *)
RunValues(run) ==
  LET device(d) == <<d.version, d.type, d.gang, d.worker, d.vector>>
      many == [i \in DOMAIN run.devices |->
                 Append(device(run.devices[i]), run.devices[i].portion)]
  IN <<run.rowid>>
       \o (IF Len(run.devices) = 1 THEN device(run.devices[1]) ELSE FlattenSeq(many))
       \o run.params

(* ... and the place of each.  With several devices the count starts again *)
(* after the identifier of the run.                                        *)
DeviceTypes(run) == {6 * d - 3 : d \in DOMAIN run.devices}

FieldSize(run, i) == IF i \in DeviceTypes(run) THEN 40 ELSE 8

RunOffsets(run) ==
  LET offset[i \in DOMAIN RunValues(run)] ==
        IF i = 1 \/ (i = 2 /\ Len(run.devices) > 1) THEN 0
        ELSE offset[i - 1] + FieldSize(run, i - 1)
  IN offset

(* What acc_sqlite_read_run_table gives for field i (counted from 0): of   *)
(* the values written to its place, the last.                              *)
RunField(run, i) ==
  LET offset == RunOffsets(run)
      last == CHOOSE j \in DOMAIN offset :
                /\ offset[j] = offset[i + 1]
                /\ \A k \in DOMAIN offset : offset[k] = offset[j] => k <= j
  IN RunValues(run)[last]

-----------------------------------------------------------------------------
(* The program of the user as the code generator left it in the data base  *)
(* of versions: regions, their kernels, the versions of a kernel and the   *)
(* tiles of their loops.                                                   *)
KernelsOf(tables, region_id) ==
  acc_sqlite_read_table(tables, "Kernels", [region_id |-> region_id])

VersionsOf(tables, kernel) ==
  acc_sqlite_read_table(tables, "Versions",
    [region_id |-> kernel.region_id, kernel_id |-> kernel.kernel_id])

LoopsOf(tables, region_id, kernel_id, version_id) ==
  acc_sqlite_read_table(tables, "Loops",
    [region_id |-> region_id, kernel_id |-> kernel_id, version_id |-> version_id])

(* acc_sqlite_load_compiler_data: every region with all its kernels, and   *)
(* of each kernel the versions that are enabled, one at least.             *)
CanLoad(tables, enabled) ==
  /\ {"Regions", "Kernels", "Versions", "Loops"} \subseteq DOMAIN tables
  /\ \A r \in Range(tables["Regions"]) :
       /\ Len(KernelsOf(tables, r.region_id)) = r.num_kernels
       /\ \A k \in Range(KernelsOf(tables, r.region_id)) :
            LET versions == VersionsOf(tables, k)
                n == Len(Selected(versions, {v \in Range(versions) : v.version_id \in enabled}))
            IN 0 < n /\ n <= k.num_versions
=============================================================================
