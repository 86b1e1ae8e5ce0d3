---------------------------- MODULE Experiments -----------------------------
(***************************************************************************)
(* An experiment: the generator of the runs (Generation), the script that  *)
(* marks them and starts an executor for them (tuner/run-109.sh.in,        *)
(* acc-tuner-execute-103.c, -104.c, -109.c), and the analysis of what they *)
(* measured (Analysis).  They are programs of their own: the user starts   *)
(* them, each can fail at any point, and nothing keeps two of them from    *)
(* working on the same files.  Tuner models what the executor does with a  *)
(* run in more detail; this module is about what the programs do to each   *)
(* other's tables.                                                         *)
(***************************************************************************)
EXTENDS Generation, Analysis

CONSTANTS
  UserVersions,   \* the tables of the versions the code generator made
  Earlier,        \* a profile from before
  Durations,      \* of an event
  MaxStarts,      \* bound on the starts of generator, executor and analysis
  MaxRunning      \* bound on the programs that run at the same time

VARIABLES
  xpc,            \* what script and executor do next
  group,          \* version and parameters of the runs they are at
  todo,           \* run_entries of the executor: what it has not executed
  starts,
  overlapped      \* whether a program was started while another was running

executorVars == <<xpc, group, todo>>
userVars == <<starts, overlapped>>
vars == <<dbVars, generationVars, analysisVars, executorVars, userVars>>

NoGroup == [version |-> 0, params |-> <<>>]

InGroup(tables, g, status) ==
  {run \in Range(tables["Runs"]) :
     /\ run.devices[1].version = g.version
     /\ run.params = g.params
     /\ run.executed = status}

(* UPDATE Runs.                                                            *)
SetStatus(tables, runs, status) ==
  [tables EXCEPT !["Runs"] =
     [i \in DOMAIN @ |-> IF @[i] \in runs THEN [@[i] EXCEPT !.executed = status]
                        ELSE @[i]]]

-----------------------------------------------------------------------------
Profile == Content("profile")
HasRuns == "Runs" \in DOMAIN Profile

(* The script: a group with runs to be executed is marked ...              *)
Mark ==
  /\ xpc = "select" /\ xpc' = "open_versions"
  /\ starts < MaxStarts /\ starts' = starts + 1
  /\ HasRuns
  /\ \E run \in Range(Profile["Runs"]) :
       /\ run.executed = 0
       /\ group' = [version |-> run.devices[1].version, params |-> run.params]
  /\ Write("profile", SetStatus(Profile, InGroup(Profile, group', 0), 1))
  /\ UNCHANGED <<db, lost, todo, overlapped>>

(* ... and the marks the executor left are taken back.                     *)
Unmark ==
  /\ xpc = "unmark" /\ xpc' = "select"
  /\ IF HasRuns
     THEN Write("profile", SetStatus(Profile, InGroup(Profile, group, 1), 0))
     ELSE UNCHANGED disk
  /\ UNCHANGED <<db, lost, group, todo>>

(* No group is left.                                                       *)
ScriptEnds ==
  /\ xpc = "select" /\ xpc' = "off"
  /\ HasRuns => \A run \in Range(Profile["Runs"]) : run.executed # 0
  /\ UNCHANGED <<dbVars, group, todo>>

-----------------------------------------------------------------------------
ExecutorGoes(from, to) == xpc = from /\ xpc' = to /\ UNCHANGED <<group, todo>>

OpenExecutedVersions ==
  /\ ExecutorGoes("open_versions", "open_profile")
  /\ FileExists("versions")
  /\ acc_sqlite_open("execute", "versions", TRUE)

OpenExecutedProfile ==
  /\ ExecutorGoes("open_profile", "profiling_init")
  /\ acc_sqlite_open("execute", "profile", FALSE)

InitExecution ==
  /\ ExecutorGoes("profiling_init", "load")
  /\ Execute("execute", "profile", acc_profiling_init_db(Tables("execute", "profile")))

LoadVersion ==
  /\ ExecutorGoes("load", "read_runs")
  /\ CanLoad(Tables("execute", "versions"), {group.version})
  /\ UNCHANGED dbVars

(* acc_tuning_execute.  Reading the runs takes two statements; with no     *)
(* more of them than the first has counted the second one decides.         *)
ReadMarkedRuns ==
  /\ xpc = "read_runs" /\ xpc' = "claim"
  /\ HasRuns
  /\ todo' = Selected(Profile["Runs"], InGroup(Profile, group, 1))
  /\ UNCHANGED <<dbVars, group>>

Current == {run \in Range(Profile["Runs"]) : run.rowid = RunField(Head(todo), 0)}

SetCurrent(status) ==
  Execute("execute", "profile", SetStatus(Profile, Current, status))

Claim ==
  /\ todo # <<>>
  /\ ExecutorGoes("claim", "launch")
  /\ SetCurrent(2)

(* Mutant: the event is left for the end of the program.                   *)
Launch_unreleased ==
  /\ ExecutorGoes("launch", "complete")
  /\ UNCHANGED dbVars

(* acc_tuner_exec_kernel: the event of the launch is in the data base when *)
(* it returns.                                                             *)
Launch ==
  /\ ExecutorGoes("launch", "complete")
  /\ \E duration \in Durations :
       Execute("execute", "profile",
               Insert(Tables("execute", "profile"), "Events",
                 << [run_id |-> RunField(Head(todo), 0), device_id |-> 0,
                     duration |-> duration] >>))

Complete ==
  /\ xpc = "complete" /\ xpc' = "claim"
  /\ SetCurrent(3)
  /\ todo' = Tail(todo)
  /\ UNCHANGED group

(* The versions it has only read are written back all the same.            *)
ExitExecution ==
  /\ todo = <<>>
  /\ ExecutorGoes("claim", "unmark")
  /\ acc_sqlite_close("execute", "versions")

Script ==
  \/ Unmark \/ ScriptEnds
  \/ OpenExecutedVersions \/ OpenExecutedProfile \/ InitExecution
  \/ LoadVersion \/ ReadMarkedRuns
  \/ Claim \/ Launch \/ Complete
  \/ ExitExecution

-----------------------------------------------------------------------------
Running(p) ==
  CASE p = "generate" -> gpc # "off"
    [] p = "process"  -> apc # "off"
    [] p = "execute"  -> xpc # "off"

(* A process that has ended has no connections.                            *)
Disconnect(p) == db' = [db EXCEPT ![p] = [f \in Files |-> Closed]]

(* The user starts a program.                                              *)
Start(p) ==
  /\ ~Running(p)
  /\ Cardinality({q \in Programs : Running(q)}) < MaxRunning
  /\ overlapped' = (overlapped \/ \E q \in Programs : Running(q))
  /\ UNCHANGED <<dbVars, test>>

StartGeneration ==
  /\ Start("generate")
  /\ starts < MaxStarts /\ starts' = starts + 1
  /\ gpc' = "open_versions" /\ combos' = <<>>
  /\ UNCHANGED <<analysisVars, executorVars>>

StartScript ==
  /\ Start("execute")
  /\ xpc' = "select" /\ group' = NoGroup /\ todo' = <<>>
  /\ UNCHANGED <<generationVars, analysisVars, starts>>

StartAnalysis ==
  /\ Start("process")
  /\ starts < MaxStarts /\ starts' = starts + 1
  /\ apc' = "open_versions"
  /\ entries' = <<>> /\ pending' = {} /\ batch' = NoBatches
  /\ UNCHANGED <<generationVars, executorVars>>

(* A program ends: at its end, by a failed assertion or a crash anywhere.  *)
EndGeneration ==
  /\ gpc # "off" /\ gpc' = "off" /\ combos' = <<>>
  /\ Disconnect("generate")
  /\ UNCHANGED <<disk, lost, test, analysisVars, executorVars, userVars>>

EndAnalysis ==
  /\ apc # "off" /\ apc' = "off"
  /\ entries' = <<>> /\ pending' = {} /\ batch' = NoBatches
  /\ Disconnect("process")
  /\ UNCHANGED <<disk, lost, generationVars, executorVars, userVars>>

(* The script goes on after the executor, unless it is interrupted too.    *)
EndExecution ==
  /\ \/ xpc \notin {"off", "select", "unmark"} /\ xpc' = "unmark"
     \/ xpc # "off" /\ xpc' = "off"
  /\ todo' = <<>>
  /\ Disconnect("execute")
  /\ UNCHANGED <<disk, lost, group, generationVars, analysisVars, userVars>>

-----------------------------------------------------------------------------
(* A row of Runs as the generator makes it.                                *)
IsRun(run, rowid, devices) ==
  /\ run = [rowid |-> rowid, devices |-> run.devices, params |-> run.params,
            executed |-> run.executed]
  /\ run.devices \in Seq(Range(run.devices)) /\ Len(run.devices) = devices
  /\ run.params \in Seq(Range(run.params))
  /\ run.executed \in 0..3

PortionsAddUp(run) ==
  Sum([d \in DOMAIN run.devices |-> run.devices[d].portion]) = num_portions

HoldsRuns(tables, devices) ==
  LET runs == Rows(tables, "Runs")
  IN \A i \in DOMAIN runs : IsRun(runs[i], i, devices)

ExecutedHaveEvents(tables) ==
  LET runs == Rows(tables, "Runs")
  IN \A i \in DOMAIN runs :
       runs[i].executed = 3 =>
         "Events" \in DOMAIN tables /\ EventsOf(tables, runs[i].rowid) # <<>>

(* The code generator makes the tables of versions and loops, in which the *)
(* seven tiles of a loop are unsigned, and none of performances.           *)
ASSUME VersionsAssumption ==
  /\ IsTables(UserVersions)
  /\ {"Performances", "VersionPerf", "ParamPerf"} \cap DOMAIN UserVersions = {}
  /\ {"Versions", "Loops"} \subseteq DOMAIN UserVersions
  /\ \A loop \in Range(UserVersions["Loops"]) : loop.tiles \in [0..6 -> Nat]

(* The loops of a version are in the order of their numbers: the runtime   *)
(* (acc_sqlite_load_compiler_data) and the generators take a loop's row    *)
(* for its number.                                                         *)
ASSUME LoopOrderAssumption ==
  \A loop \in Range(UserVersions["Loops"]) :
    LET loops == LoopsOf(UserVersions, 0, 0, loop.version_id)
    IN \A i \in DOMAIN loops : loops[i].loop_id = i - 1

ASSUME EarlierAssumption ==
  /\ IsTables(Earlier) /\ HoldsRuns(Earlier, 1) /\ ExecutedHaveEvents(Earlier)
  /\ \A run \in Range(Rows(Earlier, "Runs")) : PortionsAddUp(run)

(* An event takes time, and no run does more in a unit of time than the    *)
(* analysis takes for impossible.                                          *)
ASSUME DurationsAssumption ==
  /\ Durations \subseteq Nat \ {0}
  /\ \A event \in Range(Rows(Earlier, "Events")) : event.duration \in Nat \ {0}
ASSUME TooFastAssumption ==
  /\ TooFast \in Nat /\ power_of_2[MaxAllocExp] < 4 * TooFast
  /\ \A run \in Range(Rows(Earlier, "Runs")) :
       /\ run.params \in Seq(Nat) /\ Len(run.params) = 3
       /\ 2 * run.params[1] * run.params[2] * run.params[3] < TooFast

(* A profile of the test 109 stems from before: its generator makes none.  *)
Init ==
  /\ \/ test = "103"
        /\ disk = [f \in {"versions"} |-> UserVersions]
     \/ test = "109"
        /\ disk = [f \in Files |-> IF f = "versions" THEN UserVersions ELSE Earlier]
  /\ db = [p \in Programs |-> [f \in Files |-> Closed]]
  /\ lost = {}
  /\ gpc = "off" /\ combos = <<>>
  /\ apc = "off" /\ entries = <<>> /\ pending = {} /\ batch = NoBatches
  /\ xpc = "off" /\ group = NoGroup /\ todo = <<>>
  /\ starts = IF test = "109" THEN 1 ELSE 0
  /\ overlapped = FALSE

Next ==
  \/ Generate /\ UNCHANGED <<analysisVars, executorVars, userVars>>
  \/ Analyse /\ UNCHANGED <<generationVars, executorVars, userVars>>
  \/ Script /\ UNCHANGED <<generationVars, analysisVars, userVars>>
  \/ Mark /\ UNCHANGED <<generationVars, analysisVars>>
  \/ StartGeneration \/ StartAnalysis \/ StartScript
  \/ EndGeneration \/ EndAnalysis \/ EndExecution

Spec == Init /\ [][Next]_vars

-----------------------------------------------------------------------------
(* A row stays; of a run only the mark may change, and not once it is      *)
(* claimed.                                                                *)
SameRow(old, new) ==
  \/ old = new
  \/ /\ "executed" \in DOMAIN old /\ "executed" \in DOMAIN new
     /\ old.executed < 2 \/ old.executed <= new.executed
     /\ [old EXCEPT !.executed = 0] = [new EXCEPT !.executed = 0]

Keeps(old, new) ==
  \A name \in DOMAIN old :
    /\ Len(old[name]) <= Len(Rows(new, name))
    /\ \A i \in DOMAIN old[name] : SameRow(old[name][i], Rows(new, name)[i])

(* Nothing that is in a file gets lost, unless some program has written    *)
(* back a copy that was older than the file: else programs only add rows   *)
(* and marks.                                                              *)
OnlyStaleCopiesLose ==
  [][\A f \in Files : f \notin lost' => Keeps(Content(f), Content(f)')]_vars

(* A program that has the files to itself never writes over what is newer: *)
(* none has two ways to the same file.                                     *)
AloneNothingIsLost == overlapped \/ lost = {}

(* The launches of a version that fit a problem size, from their           *)
(* definition: a static loop is tiled without a rest.                      *)
Fits(loop, gwv, length) ==
  LET size(t) == IF loop.tiles[t] = 0
                 THEN CASE t = 1 -> gwv[1] [] t = 3 -> gwv[2] [] t = 5 -> gwv[3]
                        [] OTHER -> 1
                 ELSE IF t \in {1, 3, 5} THEN 1 ELSE loop.tiles[t]
      tile == size(0) * size(1) * size(2) * size(3) * size(4) * size(5) * size(6)
      static == \A t \in {0, 2, 4, 6} : loop.tiles[t] # 0
      shared == \E t \in {1, 3, 5} : loop.tiles[t] # 1
  IN shared => tile <= length /\ (static => tile = length)

ValidRuns ==
  {[version |-> v, gwv |-> gwv, params |-> params] :
     v \in Range(VersionIds(UserVersions)), gwv \in Range(Launches),
     params \in Range(ParamsValues)}

FittingRuns ==
  {r \in ValidRuns :
     \A loop \in Range(LoopsOf(UserVersions, 0, 0, r.version)) :
       Fits(loop, r.gwv, r.params[loop.loop_id + 1])}

AsValid(run) ==
  [version |-> run.devices[1].version, params |-> run.params,
   gwv |-> <<run.devices[1].gang, run.devices[1].worker, run.devices[1].vector>>]

(* The runs of an experiment are all the launches that fit and no other,   *)
(* each as often as every other, whatever crashed and wrote over the file. *)
RunsAreTheFittingLaunches ==
  LET runs == Rows(Profile, "Runs")
      often(r) == Cardinality({i \in DOMAIN runs : AsValid(runs[i]) = r})
  IN /\ \A i \in DOMAIN runs : runs[i].rowid = i /\ PortionsAddUp(runs[i])
     /\ test = "103" =>
          /\ \A i \in DOMAIN runs : AsValid(runs[i]) \in FittingRuns
          /\ \A r, s \in FittingRuns : often(r) = often(s)

(* What the analysis asserts of an executed run holds, as long as nothing  *)
(* is written over.                                                        *)
ExecutedRunsHaveEvents ==
  "profile" \in lost \/
    \A tables \in {Profile} \cup {db[p]["profile"].tables : p \in Programs} :
      ExecutedHaveEvents(tables)

(* The row of Performances a run should get, with the best of its events.  *)
(* For test 109 it is their average, of which nothing is claimed but when  *)
(* there is one: the code sums in single precision.                        *)
IsPerformanceOf(row, run, events) ==
  LET values == {IF test = "109" THEN eval_matmul_performance(run.params, e.duration)
                 ELSE eval_vectadd_performance(run.params, e.duration) : e \in Range(events)}
  IN /\ row.run_id = run.rowid
     /\ row.version_id = run.devices[1].version
     /\ row.gang = run.devices[1].gang
     /\ row.worker = run.devices[1].worker
     /\ row.params = run.params
     /\ test # "109" \/ Len(events) = 1 => row.gflops \in values
     /\ test # "109" => \A value \in values : value <= row.gflops

(* The threads of the analysis insert a right row for each executed run,   *)
(* and one only, whichever took it.                                        *)
EveryExecutedRunOnce ==
  (apc = "evaluate" /\ pending = {} /\ batch = NoBatches) =>
    LET before == Rows(db["process"]["versions"].loaded, "Performances")
        rows == AnalysisVersions["Performances"]
        new == SubSeq(rows, Len(before) + 1, Len(rows))
    IN /\ Len(new) = Len(entries)
       /\ \A i \in DOMAIN entries : \E j \in DOMAIN new :
            IsPerformanceOf(new[j], entries[i],
                            EventsOf(AnalysisProfile, entries[i].rowid))

(* A summary names runs that have the performance it tells.  What is too   *)
(* slow to be written as more than 0 is no best run.                       *)
ReferToPerformances(tables) ==
  LET performances == Range(Rows(tables, "Performances"))
      is(run_id, version_id, gflops) ==
        \E row \in performances : /\ row.run_id = run_id
                                  /\ row.version_id = version_id
                                  /\ row.gflops = gflops
      best(run_id, version_id, gflops) ==
        is(run_id, version_id, gflops) \/ (run_id = -1 /\ gflops = 0)
  IN /\ \A s \in Range(Rows(tables, "VersionPerf")) :
          /\ is(s.min_run_id, s.version_id, s.min_gflops)
          /\ best(s.max_run_id, s.version_id, s.max_gflops)
     /\ \A s \in Range(Rows(tables, "ParamPerf")) :
          /\ is(s.min_run_id, s.min_version_id, s.min_gflops)
          /\ best(s.max_run_id, s.max_version_id, s.max_gflops)

(* So it is of the summaries in the file, even if a program failed between *)
(* the tables or wrote over them.                                          *)
SummariesReferToPerformances == ReferToPerformances(Content("versions"))
=============================================================================
