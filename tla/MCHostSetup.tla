---------------------------- MODULE MCHostSetup -----------------------------
(***************************************************************************)
(* Instances of HostSetup for TLC.  Three ports are enough for two ranges  *)
(* to be apart, to touch, to overlap at one end and to lie strictly within *)
(* each other.                                                             *)
(***************************************************************************)
EXTENDS HostSetup

MCKernelPorts == <<0, MaxPort>>

\* Every choice of the options with at most one range of service ports for
\* one queue, and with none for another.
MCConfigs ==
    LET service == {{}} \cup {{r} : r \in Range} IN
    { [hostEphemeral |-> h, enclaveEphemeral |-> e,
       enclavePorts |-> s, queue |-> q] :
          h \in Range, e \in Range,
          <<s, q>> \in (service \X {0}) \cup {<<{}, 1>>} }
=============================================================================
