---------------------------- MODULE MCBootstrap -----------------------------
(***************************************************************************)
(* Instances of Bootstrap for TLC: a buffer of one unit that may grow to   *)
(* four, or to five, which doubling oversteps, and records on both sides   *)
(* of each of its lengths.                                                 *)
(***************************************************************************)
EXTENDS Bootstrap

MCRecords == <<4, 6, 3>>
MCRecordAtLimit == <<4, 4>>
=============================================================================
