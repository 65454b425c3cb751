---------------------------- MODULE MCDeployment ----------------------------
(***************************************************************************)
(* Instances of Deployment for TLC: options that differ in every port, and *)
(* some that the host refuses.                                             *)
(***************************************************************************)
EXTENDS Deployment

MCKernelPorts == <<0, MaxPort>>

MCKernelRoutes == {[src |-> "unset", metric |-> 0]}

MCConfigs ==
    { [hostEphemeral |-> <<0, 0>>, enclaveEphemeral |-> <<1, 2>>,
       enclavePorts |-> {}, queue |-> 0],
      [hostEphemeral |-> <<0, 0>>, enclaveEphemeral |-> <<2, 2>>,
       enclavePorts |-> {<<1, 1>>}, queue |-> 1],
      [hostEphemeral |-> <<1, 1>>, enclaveEphemeral |-> <<1, 2>>,
       enclavePorts |-> {}, queue |-> 0] }
=============================================================================
