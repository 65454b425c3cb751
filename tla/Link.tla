-------------------------------- MODULE Link --------------------------------
(***************************************************************************)
(* What one direction's connection is to the processes at its ends.  There *)
(* is one at most that its sender uses, it waits to be accepted or is read *)
(* by the receiver unless it is broken, and it ends with either process.   *)
(* Tunnel implements this and Deployment builds on it.                     *)
(***************************************************************************)

VARIABLES
    sender,     \* the sending worker runs
    receiver,   \* the receiving worker runs
    link        \* the connection, as its sender and the kernel have it

vars == <<sender, receiver, link>>

\* "none": the sender is not connected; "pending": in the listener's backlog;
\* "open": accepted, and read from; "dead": broken, or left by the receiver,
\* and the sender does not know before it sends.
LinkState == {"none", "pending", "open", "dead"}

Init ==
    /\ sender \in BOOLEAN
    /\ receiver \in BOOLEAN
    /\ link = "none"

SenderStarts == ~sender /\ sender' = TRUE /\ UNCHANGED <<receiver, link>>

SenderEnds ==
    /\ sender /\ sender' = FALSE
    /\ link' = "none"
    /\ UNCHANGED receiver

ReceiverStarts == ~receiver /\ receiver' = TRUE /\ UNCHANGED <<sender, link>>

\* What it had accepted is closed, and what waits is reset.
LeftByReceiver == IF link = "none" THEN "none" ELSE "dead"

ReceiverEnds ==
    /\ receiver /\ receiver' = FALSE
    /\ link' = LeftByReceiver
    /\ UNCHANGED sender

Becomes(to) == link' = to /\ UNCHANGED <<sender, receiver>>

Connect == sender /\ receiver /\ link = "none" /\ Becomes("pending")

Accept == receiver /\ link = "pending" /\ Becomes("open")

\* The transport, a read or a write fails.
Fails == link \in {"pending", "open"} /\ (Becomes("dead") \/ Becomes("none"))

\* The sender notices.
IsGivenUp == link = "dead" /\ Becomes("none")

Next ==
    \/ SenderStarts \/ SenderEnds \/ ReceiverStarts \/ ReceiverEnds
    \/ Connect \/ Accept \/ Fails \/ IsGivenUp

Spec == Init /\ [][Next]_vars
=============================================================================
