---------------------------- MODULE ProcessProofs ---------------------------
(***************************************************************************)
(* What holds of Process for any set of workers.  NoHalfDeadProcess is     *)
(* inductive together with the types: a worker ends only after the signal  *)
(* was cancelled, or cancels it with the same step.                        *)
(***************************************************************************)
EXTENDS Process, TLAPS

LifeInv == TypeOK /\ NoHalfDeadProcess

LEMMA FaultType ==
    ASSUME FaultsTypeOK, Fault
    PROVE  FaultsTypeOK'
BY FaultsAssumption DEF FaultsTypeOK, Fault

\* However the process exits, nothing is left of it.
LEMMA ExitLife ==
    ASSUME LifeInv, NEW c \in {"0", "1"}, Exit(c), FaultsTypeOK'
    PROVE  LifeInv'
BY DEF LifeInv, TypeOK, Exit, NoHalfDeadProcess, Ended

LEMMA MainStepLife == LifeInv /\ MainStep => LifeInv'
<1> SUFFICES ASSUME LifeInv, MainStep PROVE LifeInv'
  OBVIOUS
<1>1. CASE SpawnWorkers
  BY <1>1
  DEF SpawnWorkers, MainGoes, LifeInv, TypeOK, FaultsTypeOK, NoHalfDeadProcess,
      Ended
<1>2. CASE SetupCancelled \/ SetupOnly
  BY <1>2, ExitLife
  DEF SetupCancelled, SetupOnly, NoFault, LifeInv, TypeOK, FaultsTypeOK
<1>3. CASE TasksEnd
  BY <1>3
  DEF TasksEnd, NoFault, LifeInv, TypeOK, FaultsTypeOK, NoHalfDeadProcess, Ended
<1>4. CASE ShutdownSeen
  BY <1>4
  DEF ShutdownSeen, MainGoes, LifeInv, TypeOK, FaultsTypeOK, NoHalfDeadProcess
<1>5. CASE Drained
  BY <1>5, ExitLife DEF Drained, NoFault, LifeInv, TypeOK, FaultsTypeOK
<1>6. CASE ForceExit
  BY <1>6, ExitLife DEF ForceExit, NoFault, LifeInv, TypeOK, FaultsTypeOK
<1>7. CASE Restart
  BY <1>7
  DEF Restart, MainGoes, LifeInv, TypeOK, FaultsTypeOK, NoHalfDeadProcess
<1> QED
  BY <1>1, <1>2, <1>3, <1>4, <1>5, <1>6, <1>7 DEF MainStep

LEMMA WorkerStepLife ==
    ASSUME LifeInv, NEW w \in Workers, WorkerStep(w)
    PROVE  LifeInv'
<1>1. CASE Blocks(w) \/ Returns(w)
  BY <1>1
  DEF Blocks, Returns, WorkerGoes, LifeInv, TypeOK, FaultsTypeOK,
      NoHalfDeadProcess, Ended
<1>2. CASE EndsWell(w)
  BY <1>2
  DEF EndsWell, WorkerGoes, LifeInv, TypeOK, FaultsTypeOK, NoHalfDeadProcess,
      Ended
<1>3. CASE EndsInBackoff(w)
  BY <1>3
  DEF EndsInBackoff, StopsTheOthers, WorkerGoes, LifeInv, TypeOK, FaultsTypeOK,
      NoHalfDeadProcess, Ended
<1>4. CASE Fails(w)
  BY <1>4, FaultType
  DEF Fails, StopsTheOthers, LifeInv, TypeOK, NoHalfDeadProcess, Ended
<1> QED BY <1>1, <1>2, <1>3, <1>4 DEF WorkerStep

LEMMA NextLife == LifeInv /\ [Next]_vars => LifeInv'
<1> SUFFICES ASSUME LifeInv, [Next]_vars PROVE LifeInv'
  OBVIOUS
<1>1. CASE MainStep
  BY <1>1, MainStepLife
<1>2. CASE SetupFails \/ Killed
  BY <1>2, ExitLife, FaultType DEF SetupFails, Killed, LifeInv, TypeOK
<1>3. CASE Signal
  BY <1>3, FaultType DEF Signal, LifeInv, TypeOK, NoHalfDeadProcess
<1>4. CASE \E w \in Workers : WorkerStep(w)
  BY <1>4, WorkerStepLife
<1>5. CASE UNCHANGED vars
  BY <1>5 DEF vars, LifeInv, TypeOK, FaultsTypeOK, NoHalfDeadProcess
<1> QED BY <1>1, <1>2, <1>3, <1>4, <1>5 DEF Next

LEMMA InitLife == Init => LifeInv
<1> SUFFICES ASSUME Init PROVE LifeInv
  OBVIOUS
<1>1. FaultsTypeOK
  BY FaultsAssumption DEF Init, FaultsTypeOK
<1>2. worker \in [Workers -> {"none", "runs", "waits"} \cup Ended]
  BY DEF Init
<1>3. mpc = "setup" /\ code = "none" /\ cancelled \in BOOLEAN
  BY DEF Init
<1>4. \A w \in Workers : worker[w] = "none"
  BY DEF Init
<1> QED BY <1>1, <1>2, <1>3, <1>4 DEF LifeInv, TypeOK, NoHalfDeadProcess

\* Whatever happens to the workers, an exited process has none, and main and
\* its threads are where bin/main.rs lets them be.
THEOREM LifeTypeCorrect == Spec => []TypeOK
<1>1. LifeInv => TypeOK
  BY DEF LifeInv
<1> QED BY <1>1, InitLife, NextLife, PTL DEF Spec

\* With any number of workers, none of them ends and leaves the others to
\* run on without being told.
THEOREM NobodyRunsAlone == Spec => []NoHalfDeadProcess
<1>1. LifeInv => NoHalfDeadProcess
  BY DEF LifeInv
<1> QED BY <1>1, InitLife, NextLife, PTL DEF Spec

\* Exit code 0 after the workers were started means that all have ended.
THEOREM CleanExitCorrect == Spec => CleanExitLeavesNobody
<1>1. LifeInv /\ [Next]_vars
        => [(code = "none" /\ mpc # "setup" /\ code' = "0") => AllEnded]_vars
  <2> SUFFICES ASSUME Next, mpc # "setup", code = "none", code' = "0"
               PROVE  AllEnded
    OBVIOUS
  <2>1. CASE MainStep
    BY <2>1
    DEF MainStep, SpawnWorkers, SetupCancelled, SetupOnly, TasksEnd, ShutdownSeen,
        Drained, ForceExit, Restart, MainGoes, Exit
  <2>2. CASE SetupFails \/ Killed \/ Signal
    BY <2>2 DEF SetupFails, Killed, Signal, Exit
  <2>3. CASE \E w \in Workers : WorkerStep(w)
    BY <2>3 DEF WorkerStep, Blocks, Returns, EndsWell, EndsInBackoff, Fails
  <2> QED BY <2>1, <2>2, <2>3 DEF Next
<1> QED BY <1>1, InitLife, NextLife, PTL DEF Spec, CleanExitLeavesNobody
=============================================================================
