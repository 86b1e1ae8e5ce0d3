------------------------------- MODULE Tuner --------------------------------
(***************************************************************************)
(* The tuner: the script that goes through the runs of an experiment       *)
(* (tuner/run-109.sh.in), the process it starts for every group of runs    *)
(* (tuner/acc-tuner-execute-109.c, acc_tuning_execute of utils/tuning.c)   *)
(* and the profiling of the commands of a run (utils/profiling.c).         *)
(*                                                                         *)
(* Script and executor share the table Runs of the data base, whose field  *)
(* "executed" says where a run is:                                         *)
(*   0 to be executed       1 marked by the script for the executor        *)
(*   2 claimed by the executor, or failed      3 executed                  *)
(* A failure of OpenCL, of the data base or of an assertion ends the       *)
(* executor at any point; what it had in memory is lost, the tables stay.  *)
(***************************************************************************)
EXTENDS Integers, FiniteSets

CONSTANTS
  Runs,           \* rows of the table Runs
  Groups,         \* sets of runs of one version and one problem size
  NoRun,          \* run_id before the first run: -1
  NumInputs,      \* arrays copied in before the first run
  MaxInterrupts   \* bound on the interruptions of the script explored

ASSUME GroupsAssumption == Groups \subseteq SUBSET Runs
ASSUME GroupsCoverRuns == UNION Groups = Runs
ASSUME NoRunAssumption == NoRun \notin Runs
ASSUME NumInputsAssumption == NumInputs \in Nat

VARIABLES
  executed,     \* table Runs: the field of each run
  events,       \* table Events: the number of rows of each run
  pc,           \* the script
  group,        \* the group the script is at
  phase,        \* the executor: what it does next, or "off"
  todo,         \* the runs of num_candidates it has not come to
  run_id,       \* acc_profiler->run_id
  registered,   \* acc_profiler->events: those of each run
  interrupts

dbVars == <<executed, events>>
scriptVars == <<pc, group>>
execVars == <<phase, todo, run_id, registered>>
vars == <<dbVars, scriptVars, execVars, interrupts>>

RunIds == Runs \cup {NoRun}
None == [r \in RunIds |-> 0]

InGroup(status) == {r \in group : executed[r] = status}

SetStatus(R, status) ==
  executed' = [r \in Runs |-> IF r \in R THEN status ELSE executed[r]]

-----------------------------------------------------------------------------
(* The script: the loop over the groups that have runs to execute ...      *)
SelectGroup ==
  /\ pc = "select"
  /\ \E g \in Groups :
       /\ \E r \in g : executed[r] = 0
       /\ group' = g
  /\ pc' = "test"
  /\ UNCHANGED <<dbVars, execVars, interrupts>>

(* ... and, within a group, the loop until none is left: mark, execute,    *)
(* take back the marks the executor has not come to.                       *)
TestGroup ==
  /\ pc = "test"
  /\ pc' = IF InGroup(0) # {} THEN "mark" ELSE "select"
  /\ UNCHANGED <<dbVars, group, execVars, interrupts>>

(* Mutant: failed runs are marked again.                                   *)
Mark_failed ==
  /\ pc = "mark"
  /\ SetStatus(InGroup(0) \cup InGroup(2), 1)
  /\ pc' = "execute"
  /\ phase' = "setup"
  /\ run_id' = NoRun
  /\ registered' = None
  /\ UNCHANGED <<events, group, todo, interrupts>>

Mark ==
  /\ pc = "mark"
  /\ SetStatus(InGroup(0), 1)
  /\ pc' = "execute"
  /\ phase' = "setup"
  /\ run_id' = NoRun
  /\ registered' = None
  /\ UNCHANGED <<events, group, todo, interrupts>>

(* Mutant: failed runs get another chance.                                 *)
Unmark_failed ==
  /\ pc = "unmark"
  /\ SetStatus(InGroup(1) \cup InGroup(2), 0)
  /\ pc' = "test"
  /\ UNCHANGED <<events, group, execVars, interrupts>>

Unmark ==
  /\ pc = "unmark"
  /\ SetStatus(InGroup(1), 0)
  /\ pc' = "test"
  /\ UNCHANGED <<events, group, execVars, interrupts>>

-----------------------------------------------------------------------------
(* The executor reads the marked runs and copies the arrays in; the events *)
(* of the copies carry the run_id of that moment.                          *)
SetUp ==
  /\ phase = "setup"
  /\ todo' = InGroup(1)
  /\ registered' = [registered EXCEPT ![run_id] = @ + NumInputs]
  /\ phase' = "claim"
  /\ UNCHANGED <<dbVars, scriptVars, run_id, interrupts>>

(* Mutant: the run is claimed in memory only.                              *)
Claim_unsaved ==
  /\ phase = "claim"
  /\ \E r \in todo : run_id' = r /\ todo' = todo \ {r}
  /\ phase' = "launch"
  /\ UNCHANGED <<dbVars, scriptVars, registered, interrupts>>

(* One of them, which is out of the script's reach from now on.            *)
Claim ==
  /\ phase = "claim"
  /\ \E r \in todo :
       /\ run_id' = r
       /\ SetStatus({r}, 2)
       /\ todo' = todo \ {r}
  /\ phase' = "launch"
  /\ UNCHANGED <<events, scriptVars, registered, interrupts>>

(* acc_region_start, acc_enqueue_kernel, acc_region_stop.                  *)
Launch ==
  /\ phase = "launch"
  /\ registered' = [registered EXCEPT ![run_id] = @ + 1]
  /\ phase' = "release"
  /\ UNCHANGED <<dbVars, scriptVars, todo, run_id, interrupts>>

(* acc_profiling_release_all_events: one insertion for each event ...      *)
ReleaseEvent ==
  /\ phase = "release"
  /\ \E r \in RunIds :
       /\ registered[r] > 0
       /\ events' = [events EXCEPT ![r] = @ + 1]
       /\ registered' = [registered EXCEPT ![r] = @ - 1]
  /\ UNCHANGED <<executed, scriptVars, phase, todo, run_id, interrupts>>

(* Mutant: the run is done before its events are in the table.             *)
Complete_early ==
  /\ phase = "release"
  /\ SetStatus({run_id}, 3)
  /\ phase' = "claim"
  /\ UNCHANGED <<events, scriptVars, todo, run_id, registered, interrupts>>

(* ... and the run is done when all are in the table.                      *)
Complete ==
  /\ phase = "release"
  /\ registered = None
  /\ SetStatus({run_id}, 3)
  /\ phase' = "claim"
  /\ UNCHANGED <<events, scriptVars, todo, run_id, registered, interrupts>>

(* Mutant: the script does not take back the marks.                        *)
ExecutorEnds_marked ==
  /\ pc' = "test"
  /\ phase' = "off"
  /\ UNCHANGED <<dbVars, group, todo, run_id, registered, interrupts>>

ExecutorEnds ==
  /\ pc' = "unmark"
  /\ phase' = "off"
  /\ UNCHANGED <<dbVars, group, todo, run_id, registered, interrupts>>

(* The arrays are copied out; nothing records the events of that.          *)
Exit == phase = "claim" /\ todo = {} /\ ExecutorEnds

Fail == phase # "off" /\ ExecutorEnds

(* The user stops the script, and the executor with it, and starts the     *)
(* script again.                                                           *)
Interrupt ==
  /\ interrupts < MaxInterrupts
  /\ interrupts' = interrupts + 1
  /\ pc' = "select"
  /\ phase' = "off"
  /\ UNCHANGED <<dbVars, group, todo, run_id, registered>>

-----------------------------------------------------------------------------
Init ==
  /\ executed = [r \in Runs |-> 0]
  /\ events = None
  /\ pc = "select"
  /\ group = {}
  /\ phase = "off"
  /\ todo = {}
  /\ run_id = NoRun
  /\ registered = None
  /\ interrupts = 0

Script == SelectGroup \/ TestGroup \/ Mark \/ Unmark
Executor == SetUp \/ Claim \/ Launch \/ ReleaseEvent \/ Complete \/ Exit

Next == Script \/ Executor \/ Fail \/ Interrupt

Spec == Init /\ [][Next]_vars

(* Neither the script nor the executor stops by itself.                    *)
Progress == WF_vars(Script) /\ WF_vars(Executor)

FairSpec == Spec /\ Progress

-----------------------------------------------------------------------------
TypeOK ==
  /\ executed \in [Runs -> 0..3]
  /\ events \in [RunIds -> Nat]
  /\ pc \in {"select", "test", "mark", "execute", "unmark"}
  /\ group \in SUBSET Runs
  /\ phase \in {"off", "setup", "claim", "launch", "release"}
  /\ todo \in SUBSET Runs
  /\ run_id \in RunIds
  /\ registered \in [RunIds -> Nat]
  /\ interrupts \in Nat

(* The analysis of the profiles (tuner/acc-tuner-process-109.c) asserts    *)
(* that an executed run has events and takes each for a launch of its      *)
(* kernel: there is one, and none of a copy.                               *)
ExecutedRunsAreProfiled == \A r \in Runs : executed[r] = 3 => events[r] = 1

(* No run is executed twice, whatever failed or was interrupted: a run     *)
(* that is still to be executed left no event, a failed one at most one.   *)
NoRunIsProfiledTwice ==
  \A r \in Runs :
    /\ events[r] <= 1
    /\ executed[r] \in {0, 1} => events[r] = 0

(* A claimed run is not given back, an executed one stays so.              *)
DecisionsAreFinal ==
  [][\A r \in Runs : executed[r] >= 2 => executed'[r] >= executed[r]]_vars

(* While a script nobody interrupted is between two groups no run stays    *)
(* marked, where no later pass would see it.                               *)
NoMarkIsLeft ==
  (interrupts = 0 /\ pc \in {"select", "test"}) => \A r \in Runs : executed[r] # 1

(* A run the script has still to see to: one to be executed, or one that   *)
(* an interruption left marked, while its group has a run to be executed   *)
(* and is therefore visited again.                                         *)
Pending(r) ==
  \/ executed[r] = 0
  \/ executed[r] = 1 /\ \E g \in Groups : r \in g /\ \E q \in g : executed[q] = 0

(* The executor ends before it has claimed any run: the script then takes  *)
(* back every mark and starts another one.                                 *)
FailsBeforeItsFirstRun == run_id = NoRun /\ Fail

(* The script gets through: a pending run, one an interruption left marked *)
(* included, is executed or found to fail, even if any executor fails at   *)
(* any of its runs, unless the script is interrupted again before that or  *)
(* its executors fail for ever before their first run.                     *)
RunsToExecuteAreDecided ==
  \/ []<><<FailsBeforeItsFirstRun>>_vars
  \/ \A r \in Runs, n \in 0..MaxInterrupts :
       (Pending(r) /\ interrupts = n)
         ~> (executed[r] \in {2, 3} \/ interrupts > n)
=============================================================================
