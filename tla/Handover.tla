------------------------------ MODULE Handover ------------------------------
(***************************************************************************)
(* What the bootstrap protocol promises: the enclave takes what the host   *)
(* offers at one moment, at which the host serves, and takes the whole of  *)
(* it.  What it has then stays what it was, whatever becomes of the host,  *)
(* until the enclave's process ends.  Bootstrap implements this unit by    *)
(* unit, and Deployment builds on it with one step.                        *)
(***************************************************************************)

VARIABLES
    serving,    \* the host's service listens
    offer,      \* the record of the host's present run
    taken       \* what the enclave's process was handed: {}, or one record

vars == <<serving, offer, taken>>

Init == ~serving /\ taken = {}

Starts == ~serving /\ serving' = TRUE /\ UNCHANGED <<offer, taken>>

Ends == serving /\ serving' = FALSE /\ UNCHANGED <<offer, taken>>

\* A host that is not serving yet is started over, as it was or otherwise.
Reoffers == ~serving /\ UNCHANGED <<serving, taken>>

Take ==
    /\ serving
    /\ taken = {} /\ taken' = {offer}
    /\ UNCHANGED <<serving, offer>>

\* The enclave's process ends, or fails to make out what it was handed.
Lose == taken # {} /\ taken' = {} /\ UNCHANGED <<serving, offer>>

Next == Starts \/ Ends \/ Reoffers \/ Take \/ Lose

Spec == Init /\ [][Next]_vars
=============================================================================
