---------------------------- MODULE Tuner_proofs ----------------------------
(***************************************************************************)
(* For any table of runs, and however often executors fail and the script  *)
(* is interrupted, the profiles say of every run what happened to it.      *)
(***************************************************************************)
EXTENDS Tuner, TLAPS

(* The script waits while an executor is there.                            *)
OneAtATime == phase # "off" => pc = "execute"

(* The runs the executor has not come to are still marked.                 *)
TodoIsMarked ==
  phase \in {"claim", "launch", "release"} => \A r \in todo : executed[r] = 1

(* The events in the memory of the executor are those of the run it is at  *)
(* and those of the copies, which are of no run.                           *)
OnlyCopiesRegistered ==
  /\ phase = "setup" => run_id = NoRun
  /\ phase \in {"setup", "claim", "launch"} => \A r \in Runs : registered[r] = 0

ClaimedRun ==
  /\ phase = "launch" =>
       run_id \in Runs /\ executed[run_id] = 2 /\ events[run_id] = 0
  /\ phase = "release" =>
       /\ run_id \in Runs
       /\ executed[run_id] = 2
       /\ events[run_id] + registered[run_id] = 1
       /\ \A r \in Runs \ {run_id} : registered[r] = 0

TunerInv ==
  /\ TypeOK
  /\ OneAtATime
  /\ TodoIsMarked
  /\ OnlyCopiesRegistered
  /\ ClaimedRun
  /\ ExecutedRunsAreProfiled
  /\ NoRunIsProfiledTwice

-----------------------------------------------------------------------------
LEMMA InitTunerInv == Init => TunerInv
BY NoRunAssumption
   DEF Init, TunerInv, TypeOK, OneAtATime, TodoIsMarked, OnlyCopiesRegistered,
       ClaimedRun, ExecutedRunsAreProfiled, NoRunIsProfiledTwice, None, RunIds

(* Setting a status leaves the other runs alone.                           *)
LEMMA StatusSet ==
  ASSUME TypeOK, NEW R, NEW s \in 0..3, SetStatus(R, s)
  PROVE  /\ executed' \in [Runs -> 0..3]
         /\ \A r \in Runs : executed'[r] = IF r \in R THEN s ELSE executed[r]
BY DEF TypeOK, SetStatus

LEMMA GroupType == \A g \in Groups : g \subseteq Runs
BY GroupsAssumption

LEMMA NextTypeOK == TunerInv /\ [Next]_vars => TypeOK'
<1> SUFFICES ASSUME TunerInv, [Next]_vars PROVE TypeOK'
  OBVIOUS
<1> TypeOK BY DEF TunerInv
<1> USE DEF dbVars, scriptVars, execVars
<1>1. CASE UNCHANGED vars
  BY <1>1 DEF vars, TypeOK
<1>2. CASE SelectGroup
  BY <1>2, GroupType DEF SelectGroup, TypeOK
<1>3. CASE TestGroup
  BY <1>3 DEF TestGroup, TypeOK
<1>4. CASE Mark
  <2>1. executed' \in [Runs -> 0..3] BY <1>4, StatusSet DEF Mark
  <2> QED BY <1>4, <2>1 DEF Mark, TypeOK, RunIds, None
<1>5. CASE Unmark
  <2>1. executed' \in [Runs -> 0..3] BY <1>5, StatusSet DEF Unmark
  <2> QED BY <1>5, <2>1 DEF Unmark, TypeOK
<1>6. CASE SetUp
  <2>1. registered' \in [RunIds -> Nat]
    BY <1>6, NumInputsAssumption DEF SetUp, TypeOK
  <2>2. todo' \in SUBSET Runs
    BY <1>6 DEF SetUp, TypeOK, InGroup
  <2> QED BY <1>6, <2>1, <2>2 DEF SetUp, TypeOK
<1>7. CASE Claim
  <2>1. executed' \in [Runs -> 0..3] BY <1>7, StatusSet DEF Claim
  <2> QED BY <1>7, <2>1 DEF Claim, TypeOK, RunIds
<1>8. CASE Launch
  BY <1>8 DEF Launch, TypeOK
<1>9. CASE ReleaseEvent
  <2>1. PICK r \in RunIds :
          /\ registered[r] > 0
          /\ events' = [events EXCEPT ![r] = @ + 1]
          /\ registered' = [registered EXCEPT ![r] = @ - 1]
    BY <1>9 DEF ReleaseEvent
  <2>2. events' \in [RunIds -> Nat] /\ registered' \in [RunIds -> Nat]
    BY <2>1 DEF TypeOK
  <2> QED BY <1>9, <2>2 DEF ReleaseEvent, TypeOK
<1>10. CASE Complete
  <2>1. executed' \in [Runs -> 0..3] BY <1>10, StatusSet DEF Complete
  <2> QED BY <1>10, <2>1 DEF Complete, TypeOK
<1>11. CASE ExecutorEnds
  BY <1>11 DEF ExecutorEnds, TypeOK
<1>12. CASE Interrupt
  BY <1>12 DEF Interrupt, TypeOK
<1> QED
  BY <1>1, <1>2, <1>3, <1>4, <1>5, <1>6, <1>7, <1>8, <1>9, <1>10, <1>11, <1>12
  DEF Next, Script, Executor, Exit, Fail

(* The conjuncts about runs, with the executor off or untouched.           *)
LEMMA NextTunerInv == TunerInv /\ [Next]_vars => TunerInv'
<1> SUFFICES ASSUME TunerInv, [Next]_vars PROVE TunerInv'
  OBVIOUS
<1> USE DEF dbVars, scriptVars, execVars
<1>0. TypeOK' BY NextTypeOK
<1>a. TypeOK BY DEF TunerInv
<1>b. \A r \in Runs : events[r] \in Nat /\ registered[r] \in Nat /\ executed[r] \in 0..3
  BY <1>a DEF TypeOK, RunIds
<1> DEFINE Rest == /\ OneAtATime /\ TodoIsMarked /\ OnlyCopiesRegistered
                   /\ ClaimedRun /\ ExecutedRunsAreProfiled /\ NoRunIsProfiledTwice
<1> USE DEF OneAtATime, TodoIsMarked, OnlyCopiesRegistered, ClaimedRun,
            ExecutedRunsAreProfiled, NoRunIsProfiledTwice
<1>c. Rest BY DEF TunerInv
<1> SUFFICES Rest' BY <1>0 DEF TunerInv
<1>1. CASE UNCHANGED vars
  BY <1>1, <1>c DEF vars
<1>2. CASE SelectGroup
  BY <1>2, <1>c DEF SelectGroup
<1>3. CASE TestGroup
  BY <1>3, <1>c DEF TestGroup
<1>4. CASE Mark
  <2>1. \A r \in Runs : executed'[r] = IF r \in InGroup(0) THEN 1 ELSE executed[r]
    BY <1>4, <1>a, StatusSet DEF Mark
  <2>2. \A r \in Runs : registered'[r] = 0
    BY <1>4 DEF Mark, None, RunIds
  <2>3. \A r \in InGroup(0) : executed[r] = 0
    BY DEF InGroup
  <2>4. phase' = "setup" /\ pc' = "execute" /\ run_id' = NoRun /\ events' = events
    BY <1>4 DEF Mark
  <2>5. ExecutedRunsAreProfiled' /\ NoRunIsProfiledTwice'
    BY <1>b, <1>c, <2>1, <2>3, <2>4
  <2> QED BY <2>2, <2>4, <2>5
<1>5. CASE Unmark
  <2>1. \A r \in Runs : executed'[r] = IF r \in InGroup(1) THEN 0 ELSE executed[r]
    BY <1>5, <1>a, StatusSet DEF Unmark
  <2>2. \A r \in InGroup(1) : executed[r] = 1
    BY DEF InGroup
  <2>3. phase' = "off" /\ events' = events
    BY <1>5, <1>c DEF Unmark
  <2>4. ExecutedRunsAreProfiled' /\ NoRunIsProfiledTwice'
    BY <1>b, <1>c, <2>1, <2>2, <2>3
  <2> QED BY <2>3, <2>4
<1>6. CASE SetUp
  <2>1. \A r \in todo' : executed'[r] = 1
    BY <1>6 DEF SetUp, InGroup
  <2>2. \A r \in Runs : registered'[r] = registered[r]
    BY <1>6, <1>a, <1>c, NoRunAssumption DEF SetUp, TypeOK, RunIds
  <2> QED BY <1>6, <1>c, <2>1, <2>2 DEF SetUp
<1>7. CASE Claim
  <2>1. PICK r \in todo :
          run_id' = r /\ SetStatus({r}, 2) /\ todo' = todo \ {r}
    BY <1>7 DEF Claim
  <2>2. r \in Runs /\ executed[r] = 1
    BY <1>7, <1>a, <1>c, <2>1 DEF Claim, TypeOK
  <2>3. \A s \in Runs : executed'[s] = IF s = r THEN 2 ELSE executed[s]
    BY <1>a, <2>1, StatusSet
  <2>4. phase' = "launch" /\ events' = events /\ registered' = registered
        /\ pc' = pc /\ phase = "claim"
    BY <1>7 DEF Claim
  <2>5. OneAtATime' BY <1>c, <2>4
  <2>6. TodoIsMarked'
    <3> SUFFICES ASSUME NEW s \in todo' PROVE executed'[s] = 1
      OBVIOUS
    <3>1. s \in todo /\ s # r /\ s \in Runs
      BY <1>a, <2>1 DEF TypeOK
    <3> QED BY <1>c, <2>3, <2>4, <3>1
  <2>7. OnlyCopiesRegistered' BY <1>c, <2>4
  <2>8. ClaimedRun' BY <1>c, <2>1, <2>2, <2>3, <2>4
  <2>9. ExecutedRunsAreProfiled' BY <1>c, <2>3, <2>4
  <2>10. NoRunIsProfiledTwice' BY <1>c, <2>3, <2>4
  <2> QED BY <2>5, <2>6, <2>7, <2>8, <2>9, <2>10
<1>8. CASE Launch
  <2>1. run_id \in Runs /\ executed[run_id] = 2 /\ events[run_id] = 0
    BY <1>8, <1>c DEF Launch
  <2>2. \A r \in Runs : registered'[r] = IF r = run_id THEN 1 ELSE 0
    BY <1>8, <1>a, <1>c DEF Launch, TypeOK, RunIds
  <2> QED BY <1>8, <1>c, <2>1, <2>2 DEF Launch
<1>9. CASE ReleaseEvent
  <2>1. PICK r \in RunIds :
          /\ registered[r] > 0
          /\ events' = [events EXCEPT ![r] = @ + 1]
          /\ registered' = [registered EXCEPT ![r] = @ - 1]
    BY <1>9 DEF ReleaseEvent
  <2>2. \A s \in Runs :
          /\ events'[s] = IF s = r THEN events[s] + 1 ELSE events[s]
          /\ registered'[s] = IF s = r THEN registered[s] - 1 ELSE registered[s]
    BY <1>a, <2>1 DEF TypeOK, RunIds
  <2>3. /\ run_id \in Runs /\ executed[run_id] = 2
        /\ events[run_id] + registered[run_id] = 1
        /\ \A s \in Runs \ {run_id} : registered[s] = 0
    BY <1>9, <1>c DEF ReleaseEvent
  <2>4. r \in Runs => r = run_id /\ events[r] = 0 /\ registered[r] = 1
    BY <1>b, <2>1, <2>3
  <2>5. phase' = phase /\ phase = "release" /\ pc' = pc /\ executed' = executed
        /\ todo' = todo /\ run_id' = run_id
    BY <1>9 DEF ReleaseEvent
  <2>6. ClaimedRun'
    BY <1>b, <2>2, <2>3, <2>4, <2>5
  <2>7. ExecutedRunsAreProfiled' /\ NoRunIsProfiledTwice'
    BY <1>b, <1>c, <2>2, <2>3, <2>4, <2>5
  <2> QED BY <1>c, <2>5, <2>6, <2>7
<1>10. CASE Complete
  <2>1. run_id \in Runs /\ executed[run_id] = 2
        /\ events[run_id] + registered[run_id] = 1
    BY <1>10, <1>c DEF Complete
  <2>2. \A r \in Runs : registered[r] = 0
    BY <1>10 DEF Complete, None, RunIds
  <2>3. events[run_id] = 1
    BY <1>b, <2>1, <2>2
  <2>4. \A s \in Runs : executed'[s] = IF s = run_id THEN 3 ELSE executed[s]
    BY <1>10, <1>a, StatusSet DEF Complete
  <2>5. phase' = "claim" /\ phase = "release" /\ pc' = pc /\ events' = events
        /\ todo' = todo /\ registered' = registered
    BY <1>10 DEF Complete
  <2>6. TodoIsMarked'
    <3> SUFFICES ASSUME NEW s \in todo PROVE executed'[s] = 1
      BY <2>5
    <3>1. s \in Runs /\ executed[s] = 1
      BY <1>a, <1>c, <2>5 DEF TypeOK
    <3> QED BY <2>1, <2>4, <3>1
  <2>7. ExecutedRunsAreProfiled' /\ NoRunIsProfiledTwice'
    BY <1>c, <2>3, <2>4, <2>5
  <2> QED BY <1>c, <2>2, <2>5, <2>6, <2>7
<1>11. CASE ExecutorEnds
  BY <1>11, <1>c DEF ExecutorEnds
<1>12. CASE Interrupt
  BY <1>12, <1>c DEF Interrupt
<1> QED
  BY <1>1, <1>2, <1>3, <1>4, <1>5, <1>6, <1>7, <1>8, <1>9, <1>10, <1>11, <1>12
  DEF Next, Script, Executor, Exit, Fail

LEMMA TunerInvHolds == Spec => []TunerInv
BY InitTunerInv, NextTunerInv, PTL DEF Spec

(* The type of the tables and of the state of the processes.               *)
THEOREM TunerTypeOK == Spec => []TypeOK
<1>1. TunerInv => TypeOK BY DEF TunerInv
<1> QED BY <1>1, TunerInvHolds, PTL

(* acc-tuner-process-109.c never meets an executed run without an event,   *)
(* nor counts a copy as a launch.                                          *)
THEOREM ExecutedRunsAreAlwaysProfiled == Spec => []ExecutedRunsAreProfiled
<1>1. TunerInv => ExecutedRunsAreProfiled BY DEF TunerInv
<1> QED BY <1>1, TunerInvHolds, PTL

(* Retries never profile a run a second time.                              *)
THEOREM RunsAreNeverProfiledTwice == Spec => []NoRunIsProfiledTwice
<1>1. TunerInv => NoRunIsProfiledTwice BY DEF TunerInv
<1> QED BY <1>1, TunerInvHolds, PTL

(* A claim is never given back and an execution never undone: every        *)
(* UPDATE of Runs is about runs of one status (run-109.sh.in, tuning.c).   *)
THEOREM DecisionsAreAlwaysFinal == Spec => DecisionsAreFinal
<1>1. TunerInv /\ [Next]_vars =>
        [\A r \in Runs : executed[r] >= 2 => executed'[r] >= executed[r]]_vars
  <2> SUFFICES ASSUME TunerInv, [Next]_vars, NEW r \in Runs, executed[r] >= 2,
                      executed' # executed
               PROVE  executed'[r] >= executed[r]
    BY DEF TunerInv, TypeOK
  <2> TypeOK BY DEF TunerInv
  <2>a. executed[r] \in 0..3
    BY DEF TypeOK
  <2>1. CASE Mark
    BY <2>1, <2>a, StatusSet DEF Mark, InGroup
  <2>2. CASE Unmark
    BY <2>2, <2>a, StatusSet DEF Unmark, InGroup
  <2>3. CASE Claim
    <3>1. PICK s \in todo : SetStatus({s}, 2)
      BY <2>3 DEF Claim
    <3>2. executed[s] = 1 /\ s \in Runs
      BY <2>3 DEF Claim, TunerInv, TodoIsMarked, TypeOK
    <3> QED
      BY <2>a, <3>1, <3>2, StatusSet
  <2>4. CASE Complete
    BY <2>4, <2>a, StatusSet DEF Complete
  <2>5. Mark \/ Unmark \/ Claim \/ Complete
    BY DEF Next, Script, Executor, SelectGroup, TestGroup, SetUp, Launch,
           ReleaseEvent, Exit, Fail, ExecutorEnds, Interrupt, vars, dbVars
  <2> QED
    BY <2>1, <2>2, <2>3, <2>4, <2>5
<1> QED
  BY <1>1, TunerInvHolds, PTL DEF Spec, DecisionsAreFinal

(* What is marked is of the group the script is at, and the script comes   *)
(* back to it after the executor.                                          *)
MarksInv ==
  interrupts = 0 =>
    \A r \in Runs : executed[r] = 1 => pc \in {"execute", "unmark"} /\ r \in group

LEMMA NextMarksInv == TunerInv /\ MarksInv /\ [Next]_vars => MarksInv'
<1> SUFFICES ASSUME TunerInv, MarksInv, [Next]_vars, interrupts' = 0,
                    NEW r \in Runs, executed'[r] = 1
             PROVE  pc' \in {"execute", "unmark"} /\ r \in group'
  BY DEF MarksInv
<1>t. TypeOK /\ OneAtATime
  BY DEF TunerInv
<1>i. ~Interrupt /\ interrupts = 0
  BY <1>t DEF Interrupt, TypeOK, Next, Script, Executor, SelectGroup, TestGroup, Mark,
         Unmark, SetUp, Claim, Launch, ReleaseEvent, Complete, Exit, Fail,
         ExecutorEnds, vars, dbVars, scriptVars, execVars
<1>m. \A s \in Runs : executed[s] = 1 => pc \in {"execute", "unmark"} /\ s \in group
  BY <1>i DEF MarksInv
<1>1. CASE Mark
  BY <1>1, <1>m, <1>t, StatusSet DEF Mark, InGroup
<1>2. CASE Unmark
  BY <1>2, <1>m, <1>t, StatusSet DEF Unmark, InGroup
<1>3. CASE Claim
  <2>1. PICK s \in todo : SetStatus({s}, 2)
    BY <1>3 DEF Claim
  <2>2. executed[r] = 1
    BY <2>1, <1>t, StatusSet
  <2> QED
    BY <1>3, <2>2, <1>m DEF Claim, scriptVars
<1>4. CASE Complete
  <2>1. executed[r] = 1
    BY <1>4, <1>t, StatusSet DEF Complete
  <2> QED
    BY <1>4, <2>1, <1>m DEF Complete, scriptVars
<1>5. CASE ExecutorEnds /\ phase # "off"
  BY <1>5, <1>m, <1>t DEF ExecutorEnds, OneAtATime, dbVars
<1>6. CASE SelectGroup \/ TestGroup
  BY <1>6, <1>m DEF SelectGroup, TestGroup, dbVars
<1>7. CASE SetUp \/ Launch \/ ReleaseEvent \/ UNCHANGED vars
  BY <1>7, <1>m DEF SetUp, Launch, ReleaseEvent, vars, dbVars, scriptVars
<1> QED
  BY <1>1, <1>2, <1>3, <1>4, <1>5, <1>6, <1>7, <1>i
     DEF Next, Script, Executor, Exit, Fail

(* A script nobody interrupts leaves no mark behind when it goes on to     *)
(* another group, whatever its executors do (run-109.sh.in).               *)
THEOREM NoMarkIsEverLeft == Spec => []NoMarkIsLeft
<1>1. Init => MarksInv
  BY DEF Init, MarksInv
<1>2. MarksInv => NoMarkIsLeft
  BY DEF MarksInv, NoMarkIsLeft
<1> QED
  BY <1>1, <1>2, TunerInvHolds, NextMarksInv, PTL DEF Spec
=============================================================================
