----------------------------- MODULE Generation -----------------------------
(***************************************************************************)
(* The generator of experiments (tuner/acc-tuner-generate-103.c, -104.c    *)
(* and -109.c, acc_tuning_generate of utils/tuning.c): it fills the table  *)
(* Runs with every launch of every version of a kernel that fits its       *)
(* loops, for every problem size.  It works on copies in memory of both    *)
(* data bases and writes them back at its end.                             *)
(***************************************************************************)
EXTENDS Database

CONSTANTS
  GangExps, WorkerExps, VectorExps,   \* exponents of 2: sequences
  ParamExps,
  MaxAllocExp,                        \* of the largest allocation
  num_devices                         \* acc_tuner->num_devices

(* The generator counts each exponent up, over the powers it has made.     *)
MaxExp == 35

ASSUME ExpsAssumption ==
  \A exps \in {GangExps, WorkerExps, VectorExps, ParamExps} :
    exps \in Seq(0..MaxExp) /\ IsInjective(exps)
ASSUME MaxAllocAssumption == MaxAllocExp \in 0..MaxExp

(* All programs are for one device: acc_tuning_init(1, ...), and the       *)
(* generators find versions for the first device only.                     *)
ASSUME DevicesAssumption == num_devices = 1

VARIABLES
  test,         \* whose generator it is
  gpc,          \* what the generator does next
  combos        \* version, parameter and portion combinations to come

generationVars == <<test, gpc, combos>>

-----------------------------------------------------------------------------
acc_tuning_create_experiment(tables) == acc_sqlite_create_table(tables, "Runs")

(* All combinations of one element of each list, in order.                 *)
Product(lists) ==
  LET product[n \in 0..Len(lists)] ==
        IF n = 0 THEN << <<>> >>
        ELSE LET shorter == product[n - 1]
             IN FlattenSeq([i \in DOMAIN shorter |->
                  [j \in DOMAIN lists[n] |-> Append(shorter[i], lists[n][j])]])
  IN product[Len(lists)]

power_of_2[exp \in 0..MaxExp] == IF exp = 0 THEN 1 ELSE 2 * power_of_2[exp - 1]

Powers(exps) == [i \in DOMAIN exps |-> power_of_2[exps[i]]]
Sum(s) == FoldLeft(+, 0, s)

(* acc_tuner_load_gen_data.  The versions are numbered as their rows are.  *)
VersionIds(tables) ==
  LET n == Len(VersionsOf(tables, [region_id |-> 0, kernel_id |-> 0]))
  IN [i \in 1..n |-> i - 1]

(* Vectors of params[1] numbers; matrices of three sizes.                  *)
Allocated(params) ==
  4 * (IF test = "109"
       THEN params[1] * params[2] + params[1] * params[3] + params[2] * params[3]
       ELSE params[1])

ParamsValues ==
  LET all == Product([i \in 1..(IF test = "109" THEN 3 ELSE 1) |-> Powers(ParamExps)])
  IN Selected(all, {params \in Range(all) : Allocated(params) <= power_of_2[MaxAllocExp]})

(* acc_tuning_gen_all_version_combinaisons and, for one portion,           *)
(* acc_tuning_gen_all_portion_combinaisons.                                *)
num_portions == 1

VersionCombinaisons(tables) == Product([d \in 1..num_devices |-> VersionIds(tables)])

PortionCombinaisons ==
  LET all == Product([d \in 1..num_devices |-> [i \in 1..(num_portions + 1) |-> i - 1]])
  IN Selected(all, {portions \in Range(all) : Sum(portions) = num_portions})

(* acc_tuning_count_portion_combinaisons: what is asserted of it.          *)
CountPortions ==
  LET count[n \in 1..num_devices, p \in 0..num_portions] ==
        IF p = 0 \/ n = 1 THEN 1 ELSE Sum([i \in 1..(p + 1) |-> count[n - 1, i - 1]])
  IN count[num_devices, num_portions]

-----------------------------------------------------------------------------
(* acc_tuner_is_valid_gwv_combinaison, of one loop: its tiles and the      *)
(* launch are not more than its length, and all of it when no tile is      *)
(* dynamic.  A loop that is not shared fits.  tiles are counted from 0.    *)
LevelTiles == {1, 3, 5}
FillingTiles == {0, 2, 4, 6}

TiledLength(tiles, gwv) ==
  LET filled(t) == IF tiles[t] = 0 THEN 1 ELSE tiles[t]
      level(t, n) == IF tiles[t] = 0 THEN n ELSE 1
  IN filled(0) * filled(2) * filled(4) * filled(6)
       * level(1, gwv[1]) * level(3, gwv[2]) * level(5, gwv[3])

FitsLoop(loop, gwv, length) ==
  \/ \A t \in LevelTiles : loop.tiles[t] = 1
  \/ /\ TiledLength(loop.tiles, gwv) <= length
     /\ \/ \E t \in FillingTiles : loop.tiles[t] = 0
        \/ TiledLength(loop.tiles, gwv) = length

(* loop_length_func gets the number of the row, not the loop_id in it.     *)
LaunchFits(loops, gwv, params) ==
  \A i \in DOMAIN loops : FitsLoop(loops[i], gwv, params[i])

(* acc_tuning_gen_valid_gwv_combinaisons: for each device the launches     *)
(* that fit the loops of its version.                                      *)
Launches == Product(<<Powers(GangExps), Powers(WorkerExps), Powers(VectorExps)>>)

ValidCombinaisons(tables, combo) ==
  Product([d \in 1..num_devices |->
    Selected(Launches, {gwv \in Range(Launches) :
      LaunchFits(LoopsOf(tables, 0, 0, combo.versions[d]), gwv, combo.params)})])

(* The list of combinations is an array of launches, of which the i-th is  *)
(* taken for every device.                                                 *)
RunsOf(tables, combo) ==
  LET valid == ValidCombinaisons(tables, combo)
      gwv == FlattenSeq(valid)
  IN [i \in DOMAIN valid |->
       [devices |-> [d \in 1..num_devices |->
          [version |-> combo.versions[d], type |-> "device", gang |-> gwv[i][1],
           worker |-> gwv[i][2], vector |-> gwv[i][3], portion |-> combo.portions[d]]],
        params |-> combo.params, executed |-> 0]]

(* acc_tuning_add_run, acc_profiling_new_run: the next row identifiers.    *)
WithRowids(rows, table) ==
  [i \in DOMAIN rows |->
     [rowid |-> Len(table) + i, devices |-> rows[i].devices, params |-> rows[i].params,
      executed |-> rows[i].executed]]

-----------------------------------------------------------------------------
(* main                                                                    *)
GenerationGoes(from, to) == gpc = from /\ gpc' = to /\ UNCHANGED test

OpenVersions ==
  /\ GenerationGoes("open_versions", "open_profile")
  /\ FileExists("versions")
  /\ acc_sqlite_open("generate", "versions", TRUE)
  /\ UNCHANGED combos

OpenProfile ==
  /\ GenerationGoes("open_profile", "load")
  /\ acc_sqlite_open("generate", "profile", TRUE)
  /\ UNCHANGED combos

(* The generator of 109 ends here.                                         *)
LoadGenData ==
  LET versions == Tables("generate", "versions")
      list == Product(<<VersionCombinaisons(versions), ParamsValues, PortionCombinaisons>>)
  IN /\ GenerationGoes("load", "generate")
     /\ acc_sqlite_table_exists(versions, "Versions")
     /\ VersionIds(versions) # <<>>
     /\ Len(PortionCombinaisons) = CountPortions
     /\ Execute("generate", "profile",
          acc_tuning_create_experiment(acc_profiling_init_db(Tables("generate", "profile"))))
     /\ combos' = IF test = "109" THEN <<>>
                  ELSE [i \in DOMAIN list |-> [versions |-> list[i][1],
                          params |-> list[i][2], portions |-> list[i][3]]]

(* Mutant: the runs of a combination are added to the file at once.        *)
acc_tuning_generate_saved ==
  /\ gpc = "generate" /\ combos # <<>>
  /\ LET profile == Tables("generate", "profile")
         new == Insert(profile, "Runs",
                  WithRowids(RunsOf(Tables("generate", "versions"), Head(combos)),
                             profile["Runs"]))
     IN /\ Write("profile", new)
        /\ db' = [db EXCEPT !["generate"]["profile"].tables = new]
        /\ UNCHANGED lost
  /\ combos' = Tail(combos)
  /\ UNCHANGED <<test, gpc>>

acc_tuning_generate ==
  /\ gpc = "generate" /\ combos # <<>>
  /\ LET profile == Tables("generate", "profile")
         new == RunsOf(Tables("generate", "versions"), Head(combos))
     IN Execute("generate", "profile",
                Insert(profile, "Runs", WithRowids(new, profile["Runs"])))
  /\ combos' = Tail(combos)
  /\ UNCHANGED <<test, gpc>>

CloseVersions ==
  /\ combos = <<>>
  /\ GenerationGoes("generate", "exit")
  /\ acc_sqlite_close("generate", "versions")
  /\ UNCHANGED combos

acc_profiling_exit ==
  /\ GenerationGoes("exit", "off")
  /\ acc_sqlite_close("generate", "profile")
  /\ UNCHANGED combos

Generate ==
  \/ OpenVersions \/ OpenProfile
  \/ LoadGenData
  \/ acc_tuning_generate
  \/ CloseVersions \/ acc_profiling_exit
=============================================================================
