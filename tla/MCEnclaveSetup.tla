--------------------------- MODULE MCEnclaveSetup ---------------------------
(***************************************************************************)
(* Instances of EnclaveSetup for TLC: two records that differ everywhere   *)
(* and one that keeps the address; an enclave that booted with a default   *)
(* route of metric 0 and one of another metric.                            *)
(***************************************************************************)
EXTENDS EnclaveSetup

MCKernelPorts == <<0, MaxPort>>

MCKernelRoutes ==
    {[src |-> "unset", metric |-> 0], [src |-> "unset", metric |-> 1]}

MCRecords ==
    { [address |-> "a", mtu |-> 1, ephemeral |-> <<1, 2>>,
       service |-> {<<0, 0>>}],
      [address |-> "a", mtu |-> 2, ephemeral |-> <<1, 2>>, service |-> {}],
      [address |-> "b", mtu |-> 1, ephemeral |-> <<0, 0>>,
       service |-> {<<1, 2>>}] }
=============================================================================
