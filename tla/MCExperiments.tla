--------------------------- MODULE MCExperiments ----------------------------
(* A kernel in two versions: a loop shared by the gangs, which fill it in  *)
(* the one version; in the other it has a tile of two and a dynamic one.   *)
EXTENDS Experiments

MCPrograms == {"generate", "execute", "process"}
MCFiles == {"versions", "profile"}

Loop(version_id, tiles) ==
  [region_id |-> 0, kernel_id |-> 0, version_id |-> version_id, loop_id |-> 0,
   tiles |-> [t \in 0..6 |-> tiles[t + 1]]]

Version(version_id) == [region_id |-> 0, kernel_id |-> 0, version_id |-> version_id]

MCVersions ==
  [Regions  |-> << [region_id |-> 0, num_kernels |-> 1] >>,
   Kernels  |-> << [region_id |-> 0, kernel_id |-> 0, num_versions |-> 2] >>,
   Versions |-> << Version(0), Version(1) >>,
   Loops    |-> << Loop(0, <<1, 0, 1, 1, 1, 1, 1>>), Loop(1, <<2, 0, 0, 1, 1, 1, 1>>) >>]

Run(rowid, version, executed) ==
  [rowid |-> rowid, params |-> <<2, 2, 2>>, executed |-> executed,
   devices |-> << [version |-> version, type |-> "device", gang |-> rowid,
                   worker |-> 1, vector |-> 1, portion |-> 1] >>]

Event(run_id, duration) ==
  [run_id |-> run_id, device_id |-> 0, duration |-> duration]

(* One run was executed, one failed, one is left; one has two events.      *)
MCEarlier ==
  [Devices |-> <<>>,
   Runs    |-> << Run(1, 1, 3), Run(2, 0, 2), Run(3, 1, 0) >>,
   Events  |-> << Event(1, 4), Event(2, 1), Event(1, 1) >>]

Symmetric == Permutations(Threads)

MCGangExps == <<0, 1>>
MCNoExps == <<0>>
MCParamExps == <<1, 2>>
MCAnalysedParams == << <<2>>, <<2, 2, 2>> >>
=============================================================================
