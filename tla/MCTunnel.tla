------------------------------ MODULE MCTunnel ------------------------------
(***************************************************************************)
(* Instances of Tunnel for TLC.  Packets differ in length so that one that *)
(* is cut, merged or misread shows, and one protocol is not forwarded.     *)
(***************************************************************************)
EXTENDS TunnelInvariant

MCSize == <<3, 2, 3>>
MCProto == <<"tcp", "udp", "tcp">>
MCMixedProto == <<"tcp", "other", "udp">>

\* With CopyRange 3 the second packet is cut.
MCCutSize == <<3, 4, 2>>
=============================================================================
