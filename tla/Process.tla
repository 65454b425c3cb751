------------------------------- MODULE Process ------------------------------
(***************************************************************************)
(* The life of one process, host or enclave (bin/main.rs, proxy/host.rs,   *)
(* proxy/enclave.rs): it is set up, runs each of its workers on a thread,  *)
(* and ends them all when a signal arrives or when one of them fails.      *)
(* What a worker does is in the modules of the workers; here it only       *)
(* matters whether it waits in a system call, where it does not see that   *)
(* the process is shutting down, and how it ends.                          *)
(***************************************************************************)
EXTENDS Faults

CONSTANT Workers        \* the host has three, the enclave two

VARIABLES
    mpc,        \* where main is
    code,       \* the exit code of the last run, "none" while it lasts
    cancelled,  \* shutdown_signal
    worker      \* worker[w]: what w's thread does

vars == <<faults, mpc, code, cancelled, worker>>

Ended == {"ok", "failed"}

TypeOK ==
    /\ FaultsTypeOK
    /\ mpc \in {"setup", "select", "draining", "exited"}
    /\ code \in {"none", "0", "1"}
    /\ cancelled \in BOOLEAN
    /\ worker \in [Workers -> {"none", "runs", "waits"} \cup Ended]
    /\ mpc \in {"setup", "exited"} => \A w \in Workers : worker[w] = "none"

Init ==
    /\ faults = 0
    /\ mpc = "setup"
    /\ code = "none"
    /\ cancelled = FALSE
    /\ worker = [w \in Workers |-> "none"]

MainGoes(from, to) == mpc = from /\ mpc' = to

AllEnded == \A w \in Workers : worker[w] \in Ended

-----------------------------------------------------------------------------
(* Main.                                                                   *)

\* Mutant: main is left and the blocking threads run on.
ExitOfMain(c) ==
    /\ mpc' = "exited"
    /\ code' = c
    /\ UNCHANGED <<cancelled, worker>>

\* The process is gone, and its threads with it.
Exit(c) ==
    /\ mpc' = "exited"
    /\ code' = c
    /\ worker' = [w \in Workers |-> "none"]
    /\ UNCHANGED cancelled

\* run of proxy::host or proxy::enclave returns the handles of its workers.
SpawnWorkers ==
    /\ MainGoes("setup", "select")
    /\ worker' = [w \in Workers |-> "runs"]
    /\ UNCHANGED <<faults, code, cancelled>>

\* It returns an error.
SetupFails == mpc = "setup" /\ Fault /\ Exit("1")

\* Error::GlycerineShutdown: the enclave saw the signal as it waited for
\* its record.
SetupCancelled == mpc = "setup" /\ cancelled /\ Exit("0") /\ NoFault

\* --setup-only ends with the same error once setup is done.  Each run may be
\* one with the option or without.
SetupOnly == mpc = "setup" /\ Exit("0") /\ NoFault

\* The tasks' branch of select: it cancels as well.
TasksEnd ==
    /\ mpc = "select" /\ AllEnded
    /\ mpc' = "exited" /\ code' = "0"
    /\ cancelled' = TRUE
    /\ worker' = [w \in Workers |-> "none"]
    /\ NoFault

ShutdownSeen ==
    /\ MainGoes("select", "draining")
    /\ cancelled
    /\ UNCHANGED <<faults, code, cancelled, worker>>

\* Mutant: the timeout is taken for the end of the workers.
DrainedOrNot == mpc = "draining" /\ Exit("0") /\ NoFault

\* The workers that were waited for have all ended.
Drained == mpc = "draining" /\ AllEnded /\ Exit("0") /\ NoFault

\* Mutant: the workers are waited for as long as it takes.
WaitsForEver == FALSE

\* "Graceful shutdown timed out, force-terminating..."
ForceExit == mpc = "draining" /\ ~AllEnded /\ Exit("1") /\ NoFault

-----------------------------------------------------------------------------
(* The workers' threads.                                                   *)

WorkerGoes(w, from, to) ==
    worker[w] = from /\ worker' = [worker EXCEPT ![w] = to]

\* w enters a call that does not watch the signal: recv, accept, read, send.
Blocks(w) ==
    WorkerGoes(w, "runs", "waits") /\ UNCHANGED <<faults, mpc, code, cancelled>>

\* The call returns; nothing obliges it to.
Returns(w) ==
    WorkerGoes(w, "waits", "runs") /\ UNCHANGED <<faults, mpc, code, cancelled>>

\* A worker ends well only because it was told to.
EndsWell(w) ==
    /\ WorkerGoes(w, "runs", "ok")
    /\ cancelled
    /\ UNCHANGED <<faults, mpc, code, cancelled>>

\* Mutant: the error is logged and nothing else.
OnlyLogged == UNCHANGED cancelled

\* inspect_err around run: the signal is cancelled.
StopsTheOthers == cancelled' = TRUE

\* Told to stop between two attempts of a backoff, it ends with an error.
EndsInBackoff(w) ==
    /\ WorkerGoes(w, "runs", "failed")
    /\ cancelled
    /\ StopsTheOthers
    /\ UNCHANGED <<faults, mpc, code>>

\* An error that run does not catch.
Fails(w) ==
    /\ worker[w] \in {"runs", "waits"}
    /\ worker' = [worker EXCEPT ![w] = "failed"]
    /\ Fault
    /\ StopsTheOthers
    /\ UNCHANGED <<mpc, code>>

-----------------------------------------------------------------------------
(* Its surroundings.                                                       *)

\* SIGINT or SIGTERM, at any time.
Signal ==
    /\ mpc # "exited" /\ ~cancelled
    /\ Fault
    /\ cancelled' = TRUE
    /\ UNCHANGED <<mpc, code, worker>>

Killed == mpc # "exited" /\ Fault /\ Exit("1")

\* The supervisor starts the process again, whatever its exit code.
Restart ==
    /\ MainGoes("exited", "setup")
    /\ code' = "none"
    /\ cancelled' = FALSE
    /\ UNCHANGED <<faults, worker>>

MainStep ==
    \/ SpawnWorkers \/ SetupCancelled \/ SetupOnly \/ TasksEnd
    \/ ShutdownSeen \/ Drained \/ ForceExit \/ Restart

WorkerStep(w) ==
    Blocks(w) \/ Returns(w) \/ EndsWell(w) \/ EndsInBackoff(w) \/ Fails(w)

Next ==
    \/ MainStep \/ SetupFails \/ Signal \/ Killed
    \/ \E w \in Workers : WorkerStep(w)

Spec == Init /\ [][Next]_vars

\* main is scheduled, and its timer fires.  Nothing is assumed of the
\* workers: one that waits for a packet may wait for ever.
FairSpec == Spec /\ WF_vars(MainStep)

-----------------------------------------------------------------------------

\* A process that is not on its way out has all of its workers: a direction
\* of the tunnel never stays without the worker that serves it.
NoHalfDeadProcess ==
    mpc = "select" /\ ~cancelled
        => \A w \in Workers : worker[w] \in {"runs", "waits"}

\* A process told to stop has stopped in the end, whatever its workers wait
\* for; one that failed in a worker has been told.
FailureStopsProcess == \A w \in Workers : worker[w] = "failed" ~> mpc = "exited"

SignalStopsProcess == cancelled ~> mpc = "exited"

\* A run is left with exit code 0 only after every worker it started ended.
CleanExitLeavesNobody ==
    [][(code = "none" /\ mpc # "setup" /\ code' = "0") => AllEnded]_vars
=============================================================================
