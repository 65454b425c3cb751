----------------------------- MODULE NfqToVsock -----------------------------
(***************************************************************************)
(* The sending worker, NfqToVsock in proxy/worker/nfq.rs: it takes packets *)
(* from a netfilter queue, tells the kernel to drop them, and writes them  *)
(* one after another to a vsock connection, which it replaces when a write *)
(* fails, as it replaces the queue's handle when the queue fails.          *)
(***************************************************************************)
EXTENDS NetfilterQueue, Vsock

VARIABLES
    spc,        \* where the worker is
    msg,        \* the packet it received last
    sent,       \* units of it written
    dst,        \* dst_vsock_socket, 0 before the first connection
    scancel     \* its process's shutdown_signal is cancelled

senderVars == <<spc, msg, sent, dst, scancel>>

NfqToVsockTypeOK ==
    /\ spc \in {"queue", "connect", "half_close", "loop", "recv", "send",
                "verdict", "exited"}
    /\ msg \in 0..MaxPackets
    /\ sent \in 0..MaxPacketSize
    /\ dst \in 0..Len(stream)
    /\ scancel \in BOOLEAN

NfqToVsockInit ==
    /\ spc = "queue"
    /\ msg = 0
    /\ sent = 0
    /\ dst = 0
    /\ scancel = FALSE

SenderGoes(from, to) == spc = from /\ spc' = to

\* new_queue_with_backoff
OpenQueue ==
    /\ SenderGoes("queue", IF dst = 0 THEN "connect" ELSE "loop")
    /\ ~scancel
    /\ BindQueue
    /\ UNCHANGED <<vsockVars, msg, sent, dst, scancel, faults>>

\* new_client_socket_with_backoff; the old socket is still open.
Connect ==
    /\ SenderGoes("connect", "half_close")
    /\ ~scancel
    /\ OpenConnection
    /\ UNCHANGED <<nfqVars, msg, sent, dst, scancel, faults>>

\* Mutant: the new socket takes over in the middle of the message.
HalfCloseResumes ==
    /\ SenderGoes("half_close", IF sent > 0 THEN "send" ELSE "loop")
    /\ dst' = Len(stream)
    /\ CloseTx({dst})
    /\ UNCHANGED <<nfqVars, msg, sent, scancel, faults>>

\* Mutant: the old socket is kept open.
HalfCloseKeepsOld ==
    /\ SenderGoes("half_close", "loop")
    /\ dst' = Len(stream)
    /\ UNCHANGED <<nfqVars, vsockVars, msg, sent, scancel, faults>>

\* shutdown(Read) and the assignment that drops the old socket.
HalfClose ==
    /\ SenderGoes("half_close", "loop")
    /\ dst' = Len(stream)
    /\ CloseTx({dst})
    /\ UNCHANGED <<nfqVars, msg, sent, scancel, faults>>

\* The two loops' conditions: both test the same signal.
SenderContinues ==
    /\ SenderGoes("loop", "recv")
    /\ ~scancel
    /\ UNCHANGED <<nfqVars, vsockVars, msg, sent, dst, scancel, faults>>

Recv ==
    /\ SenderGoes("recv", "send")
    /\ TakePacket
    /\ msg' = Head(queue)
    /\ sent' = 0
    /\ UNCHANGED <<vsockVars, dst, scancel, faults>>

RecvOverflow ==
    /\ SenderGoes("recv", "loop")
    /\ TakeOverflow
    /\ UNCHANGED <<vsockVars, msg, sent, dst, scancel, faults>>

\* Mutant: the old handle is still open when the queue is opened again.
QueueKept == UNCHANGED nfqVars

\* drop(src_netfilter_queue), before the queue is opened again.
ReleaseQueue == CloseQueue

RecvFails ==
    /\ SenderGoes("recv", "queue")
    /\ Fault
    /\ ReleaseQueue
    /\ UNCHANGED <<vsockVars, msg, sent, dst, scancel>>

\* Mutants: the loop runs once too often, or once too few.
SendsTooMuch(n) == n <= PayloadLen(msg)
SendsTooLittle(n) == n + 1 < PayloadLen(msg)

\* while sent < payload_size
MoreToSend(n) == n < PayloadLen(msg)

SendUnit ==
    /\ SenderGoes("send", IF MoreToSend(sent + 1) THEN "send" ELSE "verdict")
    /\ dst \in tx /\ HasRoom(dst)
    /\ Write(dst, <<msg, sent + 1>>)
    /\ sent' = sent + 1
    /\ UNCHANGED <<nfqVars, msg, dst, scancel, faults>>

\* Mutant: a write error is taken for the end of the message.
KeepsConnection == "loop"

\* Where the worker goes with Err(IoVsock): the message is forgotten, with
\* no verdict on it, and another connection is made.
AfterSendError == "connect"

SendError ==
    /\ SenderGoes("send", AfterSendError)
    /\ UNCHANGED <<nfqVars, vsockVars, msg, sent, dst, scancel>>

\* The peer has closed or reset the connection.
SendRefused == dst \notin tx \cap rx /\ SendError /\ NoFault

\* Any other failure of send, with the connection still open.
SendFails == Fault /\ SendError

\* Mutant: the verdict is set on the message and never sent.
VerdictForgotten ==
    /\ SenderGoes("verdict", "loop")
    /\ UNCHANGED <<nfqVars, vsockVars, msg, sent, dst, scancel, faults>>

IssueVerdict ==
    /\ SenderGoes("verdict", "loop")
    /\ Verdict(msg)
    /\ UNCHANGED <<vsockVars, msg, sent, dst, scancel, faults>>

\* Mutant: the message is sent again when its verdict fails.
SendsAgain ==
    /\ SenderGoes("verdict", "send")
    /\ Fault
    /\ sent' = 0
    /\ UNCHANGED <<nfqVars, vsockVars, msg, dst, scancel>>

VerdictFails ==
    /\ SenderGoes("verdict", "queue")
    /\ Fault
    /\ ReleaseQueue
    /\ UNCHANGED <<vsockVars, msg, sent, dst, scancel>>

\* The worker returns, or its process ends: every descriptor is closed.
SenderExits ==
    /\ spc # "exited"
    /\ spc' = "exited"
    /\ CloseQueue
    /\ CloseTx(tx)
    /\ msg' = 0 /\ sent' = 0 /\ dst' = 0
    /\ UNCHANGED scancel

\* A cancelled worker returns where it looks at the signal, and where it
\* does not look its process exits five seconds later (main.rs).
SenderStops == scancel /\ SenderExits /\ NoFault

\* The error of the half-close, and of a backoff that gave up after 60
\* seconds, is not caught by run's match: it ends the worker.
SenderDies ==
    /\ spc \in {"queue", "connect", "half_close"}
    /\ Fault
    /\ SenderExits

\* The process is killed or crashes, wherever the worker is.
SenderCrashes == Fault /\ SenderExits

CancelSender ==
    /\ ~scancel /\ spc # "exited"
    /\ Fault
    /\ scancel' = TRUE
    /\ UNCHANGED <<nfqVars, vsockVars, spc, msg, sent, dst>>

\* The supervisor starts the process again.
SenderRestarts ==
    /\ SenderGoes("exited", "queue")
    /\ scancel' = FALSE
    /\ UNCHANGED <<nfqVars, vsockVars, msg, sent, dst, faults>>

\* What the worker and its supervisor do unless something fails.
SenderStep ==
    \/ OpenQueue \/ Connect \/ HalfClose \/ SenderContinues
    \/ Recv \/ RecvOverflow \/ SendUnit \/ SendRefused \/ IssueVerdict
    \/ SenderStops \/ SenderRestarts

SenderFailure ==
    \/ RecvFails \/ SendFails \/ VerdictFails
    \/ SenderDies \/ SenderCrashes \/ CancelSender
=============================================================================
