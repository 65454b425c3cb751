----------------------------- MODULE MCProcess ------------------------------
(* The host's process and its three workers. *)
EXTENDS Process

CONSTANTS bootstrap, ingress, egress

HostWorkers == {bootstrap, ingress, egress}
=============================================================================
