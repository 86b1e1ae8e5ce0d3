------------------------------ MODULE Analysis ------------------------------
(***************************************************************************)
(* The analysis of the profiles (tuner/acc-tuner-process-103.c, -104.c and *)
(* -109.c): from the executed runs and their events it fills the tables    *)
(* Performances, VersionPerf and ParamPerf of the data base of versions.   *)
(* It works on copies in memory of both data bases; its threads share the  *)
(* runs.                                                                   *)
(*                                                                         *)
(* Performances are whole multiples of the last digit that is written.  An *)
(* average is exact here and of single precision in the code: averages of  *)
(* a table of summaries, which nothing reads, are left out.                *)
(***************************************************************************)
EXTENDS Database

CONSTANTS
  Threads,
  NumVersionIds,      \* 2090
  AnalysedParams,     \* the sequence of parameters that are looked at
  TooFast             \* more than any performance: 1000000000

ASSUME AnalysisAssumption == NumVersionIds \in Nat /\ AnalysedParams \in Seq(Seq(Nat))

VARIABLES
  apc,        \* what the analysis does next
  entries,    \* run_entries
  pending,    \* the entries no thread has taken
  batch       \* query of each thread: the rows to be inserted

analysisVars == <<apc, entries, pending, batch>>

AnalysisVersions == Tables("process", "versions")
AnalysisProfile == Tables("process", "profile")

NoBatches == [t \in Threads |-> <<>>]

AnalysisGoes(from, to) ==
  apc = from /\ apc' = to /\ UNCHANGED <<entries, pending, batch>>

-----------------------------------------------------------------------------
(* main: both files have to be there.                                      *)
OpenAnalysedVersions ==
  /\ AnalysisGoes("open_versions", "open_profile")
  /\ FileExists("versions")
  /\ acc_sqlite_open("process", "versions", TRUE)

OpenAnalysedProfile ==
  /\ AnalysisGoes("open_profile", "profiling_init")
  /\ FileExists("profile")
  /\ acc_sqlite_open("process", "profile", TRUE)

(* Mutant: the profiling opens the file a second time.                     *)
InitAnalysis_reopened ==
  /\ AnalysisGoes("profiling_init", "read_runs")
  /\ Write("profile", acc_profiling_init_db(disk["profile"]))
  /\ UNCHANGED <<db, lost>>

(* The profiling finds the connection and uses it.                         *)
InitAnalysis ==
  /\ AnalysisGoes("profiling_init", "read_runs")
  /\ Execute("process", "profile", acc_profiling_init_db(AnalysisProfile))

-----------------------------------------------------------------------------
(* acc_tuner_generate_performance_table: the executed runs ...             *)
ReadExecutedRuns ==
  /\ apc = "read_runs" /\ apc' = "evaluate"
  /\ {"Runs", "Events"} \subseteq DOMAIN AnalysisProfile
  /\ Execute("process", "versions",
             acc_sqlite_create_table(AnalysisVersions, "Performances"))
  /\ entries' = acc_sqlite_read_table(AnalysisProfile, "Runs", [executed |-> 3])
  /\ pending' = DOMAIN entries'
  /\ UNCHANGED batch

EventsOf(tables, run_id) ==
  acc_sqlite_read_table(tables, "Events", [run_id |-> run_id])

(* eval_vectadd_performance and eval_matmul_performance; the one takes the *)
(* best event of a run, the other the average.                             *)
eval_vectadd_performance(params, duration) == params[1] \div duration
eval_matmul_performance(params, duration) ==
  (2 * params[1] * params[2] * params[3]) \div duration

Highest(values) ==
  LET highest[n \in 0..Len(values)] ==
        IF n = 0 THEN 0
        ELSE IF values[n] > highest[n - 1] THEN values[n] ELSE highest[n - 1]
  IN highest[Len(values)]

Total(values) ==
  LET total[n \in 0..Len(values)] == IF n = 0 THEN 0 ELSE total[n - 1] + values[n]
  IN total[Len(values)]

Gflops(params, durations) ==
  IF Len(params) = 1
  THEN Highest([i \in DOMAIN durations |-> eval_vectadd_performance(params, durations[i])])
  ELSE Total([i \in DOMAIN durations |-> eval_matmul_performance(params, durations[i])])
         \div Len(durations)

ParamsOf(run) == [j \in DOMAIN run.params |-> RunField(run, 5 + j)]

PerformanceOf(tables, run) ==
  LET run_id == RunField(run, 0)
      events == EventsOf(tables, run_id)
  IN [run_id |-> run_id, device_id |-> events[1].device_id,
      version_id |-> RunField(run, 1), gang |-> RunField(run, 3),
      worker |-> RunField(run, 4), params |-> ParamsOf(run),
      gflops |-> Gflops(ParamsOf(run), [i \in DOMAIN events |-> events[i].duration])]

(* ... a row for each, which a thread keeps to itself ...                  *)
EvaluateRun(t) ==
  /\ apc = "evaluate"
  /\ \E i \in pending :
       /\ EventsOf(AnalysisProfile, RunField(entries[i], 0)) # <<>>
       /\ batch' = [batch EXCEPT ![t] = Append(@, PerformanceOf(AnalysisProfile, entries[i]))]
       /\ pending' = pending \ {i}
  /\ UNCHANGED <<apc, entries, dbVars>>

(* Mutant: the query is one for all threads.                               *)
InsertBatch_first(t) ==
  /\ apc = "evaluate" /\ pending = {}
  /\ batch[t] # <<>>
  /\ Execute("process", "versions", Insert(AnalysisVersions, "Performances", batch[t]))
  /\ batch' = NoBatches
  /\ UNCHANGED <<apc, entries, pending>>

(* ... and inserts behind the barrier.                                     *)
InsertBatch(t) ==
  /\ apc = "evaluate" /\ pending = {}
  /\ batch[t] # <<>>
  /\ Execute("process", "versions", Insert(AnalysisVersions, "Performances", batch[t]))
  /\ batch' = [batch EXCEPT ![t] = <<>>]
  /\ UNCHANGED <<apc, entries, pending>>

(* The end of the parallel region.                                         *)
SavePerformances ==
  /\ apc = "evaluate" /\ pending = {} /\ batch = NoBatches
  /\ apc' = "summarise"
  /\ acc_sqlite_save("process", "versions")
  /\ UNCHANGED <<entries, pending, batch>>

-----------------------------------------------------------------------------
NoPerf == [min_run_id |-> -1, min_version_id |-> -1, min_gflops |-> TooFast,
           max_run_id |-> -1, max_version_id |-> -1, max_gflops |-> 0,
           cnt |-> 0]

(* acc_tuner_version_perf_callback and acc_tuner_param_perf_callback.      *)
perf_callback(perf, row) ==
  LET counted == [perf EXCEPT !.cnt = @ + 1]
      lowest == IF row.gflops < perf.min_gflops
                THEN [counted EXCEPT !.min_run_id = row.run_id,
                        !.min_version_id = row.version_id, !.min_gflops = row.gflops]
                ELSE counted
  IN IF row.gflops > perf.max_gflops
     THEN [lowest EXCEPT !.max_run_id = row.run_id,
             !.max_version_id = row.version_id, !.max_gflops = row.gflops]
     ELSE lowest

Perf(tables, conds) ==
  LET rows == acc_sqlite_read_table(tables, "Performances", conds)
      perf[n \in 0..Len(rows)] ==
        IF n = 0 THEN NoPerf ELSE perf_callback(perf[n - 1], rows[n])
  IN perf[Len(rows)]

(* Mutant: what was found for one version is kept for the next.            *)
VersionPerfRow_kept(tables, version_id) ==
  LET perf == FoldLeft(perf_callback, NoPerf,
                SelectSeq(tables["Performances"], LAMBDA row : row.version_id <= version_id))
  IN IF perf.cnt = 0 THEN <<>>
     ELSE << [version_id |-> version_id, min_run_id |-> perf.min_run_id,
              min_gflops |-> perf.min_gflops, max_run_id |-> perf.max_run_id,
              max_gflops |-> perf.max_gflops] >>

VersionPerfRow(tables, version_id) ==
  LET perf == Perf(tables, [version_id |-> version_id])
  IN IF perf.cnt = 0 THEN <<>>
     ELSE << [version_id |-> version_id, min_run_id |-> perf.min_run_id,
              min_gflops |-> perf.min_gflops, max_run_id |-> perf.max_run_id,
              max_gflops |-> perf.max_gflops] >>

ParamPerfRow(tables, params) ==
  LET perf == Perf(tables, [params |-> params])
  IN IF perf.cnt = 0 THEN <<>>
     ELSE << [params |-> params, min_run_id |-> perf.min_run_id,
              min_version_id |-> perf.min_version_id, min_gflops |-> perf.min_gflops,
              max_run_id |-> perf.max_run_id, max_version_id |-> perf.max_version_id,
              max_gflops |-> perf.max_gflops] >>

VersionPerf(tables) ==
  LET new == acc_sqlite_create_table(tables, "VersionPerf")
  IN Insert(new, "VersionPerf",
            FlattenSeq([v \in 1..NumVersionIds |-> VersionPerfRow(new, v - 1)]))

ParamPerf(tables) ==
  LET new == acc_sqlite_create_table(tables, "ParamPerf")
  IN Insert(new, "ParamPerf",
            FlattenSeq([i \in DOMAIN AnalysedParams |->
                          ParamPerfRow(new, AnalysedParams[i])]))

(* acc_tuner_generate_performance_per_version_table, ..._per_param_table.  *)
Summarise ==
  /\ AnalysisGoes("summarise", "save")
  /\ Execute("process", "versions", ParamPerf(VersionPerf(AnalysisVersions)))

SaveSummaries ==
  /\ AnalysisGoes("save", "exit")
  /\ acc_sqlite_save("process", "versions")

(* acc_profiling_exit.  Nothing closes the data base of versions.          *)
ExitAnalysis ==
  /\ AnalysisGoes("exit", "end")
  /\ acc_sqlite_close("process", "profile")

Analyse ==
  \/ OpenAnalysedVersions \/ OpenAnalysedProfile
  \/ InitAnalysis
  \/ ReadExecutedRuns
  \/ \E t \in Threads : EvaluateRun(t) \/ InsertBatch(t)
  \/ SavePerformances
  \/ Summarise \/ SaveSummaries
  \/ ExitAnalysis
=============================================================================
