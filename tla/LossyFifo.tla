------------------------------ MODULE LossyFifo -----------------------------
(***************************************************************************)
(* What one direction of the tunnel promises: packets are offered in order *)
(* and each is either lost or delivered whole, unchanged, at most once and *)
(* never before a packet that was offered earlier.                         *)
(***************************************************************************)
EXTENDS Packets

VARIABLES arrived,   \* packets 1..arrived have been offered
          out        \* what has been delivered, oldest first

Init == arrived = 0 /\ out = <<>>

Offer == arrived < MaxPackets /\ arrived' = arrived + 1 /\ out' = out

\* Packet p overtakes nothing that was delivered, and skips what is lost.
Deliver(p) ==
    /\ p <= arrived
    /\ \A i \in 1..Len(out) : out[i][1][1] < p
    /\ out' = Append(out, Wire(p))
    /\ arrived' = arrived

Next == Offer \/ \E p \in Packet : Deliver(p)

Spec == Init /\ [][Next]_<<arrived, out>>
=============================================================================
