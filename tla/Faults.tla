------------------------------- MODULE Faults -------------------------------
(***************************************************************************)
(* The budget of failures.  Every system call that fails, every connection *)
(* that is reset, every process that stops or crashes costs one unit, so   *)
(* that a finite instance shows the program between, during and after      *)
(* failures.  An attempt that fails and is repeated with nothing changed   *)
(* (backoff::retry) is a stuttering step and costs nothing.                *)
(***************************************************************************)
EXTENDS Naturals

CONSTANT MaxFaults      \* bound of the instance, not a limit of the program

ASSUME FaultsAssumption == MaxFaults \in Nat

VARIABLE faults         \* how many failures have happened

FaultsTypeOK == faults \in 0..MaxFaults

Fault == faults < MaxFaults /\ faults' = faults + 1

NoFault == faults' = faults
=============================================================================
