# Glycerine in TLA+

Glycerine connects an AWS Nitro enclave, which has no network of its own, to
the network of its parent VM. Two processes of the same binary, `glycerine host`
and `glycerine enclave`, take IP packets from netfilter queues, carry them over
vsock streams and put them back on the wire with raw sockets. This directory
models that program: what each of its parts promises, what it does when
connections, queues, processes and system calls fail, and why the promises hold.

Line numbers refer to files under `src/crates/glycerine/src/`.

## The system

| component | state it keeps | operations | interacts with |
|---|---|---|---|
| sending worker `NfqToVsock` (`proxy/worker/nfq.rs`) | queue handle, vsock socket, the message under way | `run`, `pump` | kernel queue, receiving worker of the peer |
| receiving worker `VsockToIpv4` (`proxy/worker/ipv4.rs`) | listener, accepted socket, payload buffer, two raw sockets | `run`, `pump`, `ipv4_total_len` | sending worker of the peer, kernel |
| vsock helpers (`system/vsock.rs`) | none | listen, connect, accept, shutdown, each with backoff | both workers, bootstrap |
| bootstrap (`bootstrap/mod.rs`) | host: record, client, position; enclave: growing buffer | `Bootstrap::run`, `serve`, `get` | host process, enclave process |
| host setup (`proxy/host.rs`) | kernel: ephemeral ports, nftables | `setup`, `ensure_no_port_overlaps` | `system/ipv4.rs`, `system/netfilter.rs` |
| enclave setup (`proxy/enclave.rs`) | kernel: link, address, routes, MTU, ports, nftables | `setup` | `system/interface.rs` and the above |
| process (`bin/main.rs`) | shutdown signal, worker threads | `main`, signal handling, forced exit | all workers, the supervisor |
| command line (`cli/`) | options | parsing | host and enclave setup |
| packet log (`proxy/worker/debug.rs`) | none | formatting | both workers, on debug level |

Ingress has its sending worker on the host and egress in the enclave. The host
also serves bootstrap, so it has three workers and the enclave two. A process
has one `CancellationToken`; every worker is a blocking thread that looks at it
between system calls.

What is hard here is not concurrency inside a process, of which there is little,
but that everything is connected by things that fail on their own: a write fails
after part of a packet is out, a queue handle is lost with messages under way, a
peer comes back and the connections made to its former self linger, setup is
interrupted between two changes to a kernel that outlives it, and two processes
that configure one route between them are started over one without the other.

What makes each part correct, and where it is stated:

| component | must hold |
|---|---|
| both workers | packets are lost at most: never changed, repeated or reordered (`LossyFifo`, `Verbatim`, `BytesInOrder`); the connection in use is the one that is read, or will be, or is broken (`KeepsToLink`), so they never wait for each other (`NeverWaitForEachOther`), and after a failure they find each other again (`SenderResumes`, `NoStrandedConnection`, `DeliveredOnceConnected`) |
| kernel queue | slots are given back (`LeaksOnlyByFailure`, `SlotBelowMaxLen`) |
| bootstrap | one whole record of the right run, or none (`ConfiguredByItsHost`, `MalformedOnlyWhenCut`), handed over at one moment (`HandsOverAtOnce`); one client does not hold up the others (`ServiceIsFreed`) |
| process | all workers live or none (`NoHalfDeadProcess`, `FailureStopsProcess`, `SignalStopsProcess`) |
| setups | the workers start in a kernel of their own run (`WorkersFindTheirRules`, `WorkersFindTheirKernel`), and setup gets there (`SetupConverges`) |
| host and enclave together | both kernels route the same ports (`AnswersComeBack`); connections and record are used as the tunnel and the bootstrap provide them (`KeepsToInterfaces`); and both directions come up in any order of starts (`TunnelComesUp`) |
| packet log | it never takes the worker down that logs (`NeverPanics`, `LogEnds`), and says what the packet is (`AgreesWithReceiver`, `EveryOptionShown`) |

## Modules

Specifications, from the bottom up:

| module | models |
|---|---|
| `Faults` | the budget of failures (see Bounds) |
| `Packets` | packets as sequences of units, payloads netlink may cut short, what `ipv4_total_len` answers |
| `LossyFifo` | the abstract specification of one direction: a queue that may lose packets and does nothing else to them |
| `Link` | the abstract specification of one direction's connection, between two processes that come and go: absent, pending, read from or broken |
| `Handover` | the abstract specification of the bootstrap: the enclave takes what the host offers, whole and in one step |
| `NetfilterQueue` | the kernel's queue: slots, verdicts, ENOBUFS, one handle at a time (`system/netfilter.rs:224-308`) |
| `Vsock` | stream connections: backlog, credit, half-close, reset, a listener that goes away (`system/vsock.rs`) |
| `NfqToVsock` | the sending worker, one action per step of `run` and `pump` |
| `VsockToIpv4` | the receiving worker, likewise |
| `Tunnel` | one direction: both workers, the kernel and the transport, and its properties |
| `TunnelInvariant` | the inductive invariant of `Tunnel` |
| `Bootstrap` | host's service and enclave's `get`, over crashes and restarts of both |
| `Process` | `main`, the signal, the workers' threads, the supervisor |
| `Ports` | port ranges and the host's check of them |
| `NetConfig` | what both setups change in their kernel, surviving the process |
| `HostSetup`, `EnclaveSetup` | the two `setup` functions over failures and restarts |
| `Deployment` | host and enclave composed: instances of both setups, the record between them and one connection per direction, over ends and restarts of either process, failures of connections and changed options |
| `Ipv4Header` | the bytes of a packet the program looks at, and which headers `ipv4_total_len` accepts |
| `PacketLog` | `DumpPayload` of `proxy/worker/debug.rs`, byte by byte, with its walk over the TCP options |

`MCTunnel`, `MCBootstrap`, `MCProcess`, `MCHostSetup`, `MCEnclaveSetup`,
`MCDeployment` and `MCPacketLog` give the constants their values for TLC.
`TunnelTypeProofs`, `TunnelProofs`, `BootstrapProofs`, `ProcessProofs`,
`HostSetupProofs`, `EnclaveSetupProofs`, `DeploymentProofs` and
`PacketLogProofs` hold the theorems.

`Tunnel` composes `NetfilterQueue`, `Vsock` and the two workers by EXTENDS and
shared variables; `Deployment` composes the two setups with INSTANCE, each with
variables of its own. It carries no bytes: a direction is one connection there,
and the record changes hands in one step. `Link` and `Handover` say what that
stands for, and are refined from both sides. `Tunnel` implements `Link` with its
streams (`KeepsToLink`) and `Bootstrap` implements `Handover` unit by unit
(`HandsOverAtOnce`); `Deployment` implements two `Link`s and one `Handover`
(`KeepsToInterfaces`), although the end of one of its processes ends two
connections at once.

How state corresponds to the code:

- `spc`, `rpc`, `bpc`, `epc`, `mpc`, `hpc` are program counters whose values
  name the next call that blocks or fails. Between two of them a thread runs
  alone and touches only its own state, so the code in between is one action.
- In `Tunnel`, `queue`, `undecided` and `bound` are the kernel's queue, the
  messages without a verdict, and the open handle; `stream[c]` is what was
  written to connection `c`, `tx` and `rx` who still has it open; `msg`, `sent`
  and `dst` are `message`, `sent` and `dst_vsock_socket` of `NfqToVsock`; `got`,
  `size` and `sinks` are the filled part of the payload buffer, the total length
  and the raw sockets of `VsockToIpv4`.
- In `Bootstrap`, `run` is the host's run, since `Bootstrap::new` makes the
  record once per run (`mod.rs:45-48`); `buf`, `cap` and `pos` are `buf[..read]`,
  `buf.len()` and `pos`.
- In `Deployment`, `cfg` and `hpc`, `rec` and `epc` are those of `HostSetup` and
  `EnclaveSetup`; `link[d]` is the connection of direction `d` as its sender and
  the kernel have it; `outlived` says that the host changed its options after
  the enclave got its record.
- In `PacketLog`, `at` and `end` are the slice a function of `debug.rs` was
  given, as places in `payload`; a slice or an index beyond it is the panic it
  is in Rust. `payload` is either what `get_payload` returned or the receiving
  worker's whole buffer, with what earlier packets left in it.
- In `NetConfig`, `table[p][q]` is the nftables table `glycerine-<p>-<q>`, as
  the set of port ranges it queues.
- A definition that begins with "Mutant" in its comment is a plausible bug, not
  part of the specification: each property is shown to fail with one of them.

## What TLC checks

| run | question | states |
|---|---|---|
| `tunnel_safety` | With any two failures, is what reaches the raw sockets an unchanged, in-order, loss-only copy of what was queued (`DeliversLossyFifo`)? Do frames stay aligned over reconnects (`FramesAligned`)? Do queue slots leak only by failures (`LeaksOnlyByFailure`)? Is the sender's connection always pending, read or broken (`KeepsToLink`), and do the workers, whose calls have no timeout, never wait for each other (`NeverWaitForEachOther`)? | 215,424 |
| `tunnel_liveness` | Do the workers find each other again after failures, with no connection left that nobody will accept, and then deliver what waits? And what is left of safety when netlink cuts a payload short and another protocol is among the packets: no byte repeated or reordered (`BytesInOrder`), connections still start with a packet (`FreshConnections`, `SenderInv`). | 171,387 |
| `bootstrap` | Is the enclave configured only by the whole record of the host's run it talked to; is a whole record never called malformed; does the handover look like one step (`HandsOverAtOnce`); does a stalled client not hold the service; is the enclave configured in the end? | 47,948 |
| `process` | Does one failed worker end the process, and a signal, although workers may wait in a system call for ever? Does exit code 0 after the workers were started mean that all of them ended? | 436 |
| `host_setup` | Whatever earlier runs left, do the workers start in a kernel configured by their own run? What overlaps does the port check let through? | 46,074 |
| `enclave_setup` | The same for the enclave; does the kernel ever refuse the default route; does setup that is started over always get through? | 6,086 |
| `deployment` | Do the two kernels route the same ports whenever both sides are at work, over restarts of either with the same or other options? Do connections and record keep to what the parts deliver (`KeepsToInterfaces`)? Do both directions come up in the end, whichever side was started over? | 54,188 |
| `packet_log` | Does the log survive every header, length and option, end, agree with `ipv4_total_len` about what a packet is, and show each TCP option once? | 3,831 |

Four runs show disagreements between the code and what the repository says:

| run | property | what happens |
|---|---|---|
| `tunnel_slots` | `SlotBelowMaxLen` | `nfq.rs:144` leaves `pump` before the verdict, so a packet whose write failed keeps its slot of the queue, whose maximum length shrinks with each such failure until the handle is reopened |
| `tunnel_verbatim_truncated` | `Verbatim` | a payload shorter than its header says makes the receiver take the next packet's header for the rest of this one, where `system/ipv4.rs:74` speaks of packets pushed verbatim |
| `bootstrap_limit` | `RejectsOnlyOversize` | a record of exactly `MAX_RECORD_SIZE` is refused as exceeding it |
| `host_setup_nested` | `HostPortsNotCaptured` | host ephemeral ports strictly within the enclave's pass the check, against `cli/host.rs:64` |

### Bounds, and why they are enough

Every bound is a CONSTANT. `MaxFaults` bounds failures: two let a failure happen
during the recovery from another (three for a process with three workers, four
for a setup with nine steps). An attempt that fails, changes nothing and is
repeated by a backoff is a stuttering step and needs no budget.

- *Tunnel.* Three packets of different lengths: one to be cut, one under way and
  one behind it. A unit is a run of bytes; a header of two units can be split, a
  body of one follows it. `QueueMax = 2` fills the queue while a message is under
  way; `Backlog = 1` and `BufCap = 3` make connecting and writing block.
- *Bootstrap.* A buffer of one unit that may grow to five, which doubling
  oversteps; records of four, six and three units: full to the last unit of a
  buffer, too large, and one short of a buffer. `SockCap = 2` makes every record
  outgrow the connection, so the writer blocks. An enclave that was refused a
  record as too large would be refused again in the same run of the host;
  `RefusedInThisRun` leaves the repetition out, and `EnclaveConfigured` excepts a
  host that is left with such a record.
- *HostSetup.* Three ports are enough for two ranges to be apart, to touch, to
  overlap at one end, and to lie strictly within each other. All options over
  them, any other options at a restart, two queues.
- *EnclaveSetup.* Records that differ in everything, and two that share the
  address; an enclave that booted with default routes of its own.
- *Deployment.* Three configurations over three ports: two that differ in every
  port and in the queue, one that the host refuses. Three failures on each
  side: an end of one process, an end of the other during the recovery, and one
  more after the options changed. `MaxLinkFaults = 2` breaks a connection of each
  direction, or one again while it is being replaced.
- *PacketLog.* Headers with every field at, below and above each bound either
  parser has (length 4, 5 and 6 words; total 19 to 65 bytes against a
  `MaxPacketSize` of 64); payloads cut at every boundary of a header; option
  bytes with kinds with and without a length and lengths from 0 to beyond the
  end. A byte no bound speaks of is 0 or 1.

`CHECK_DEADLOCK FALSE` is set where a system whose failures and packets are used
up rightly has nothing left to do; `process` has none and checks deadlock.

### Fairness

- Workers: weak fairness of each worker's own steps. They run on threads of the
  blocking pool, and nothing they hold is waited for by their own side.
- Restarts: weak fairness, since supervisord has `autorestart=true`
  (`enclave/dev/resources/etc/supervisord.conf:8`). The host is assumed to be
  supervised as well.
- `Process`: `main` only. Workers get no fairness: one may wait for ever.
- `Deployment`: each setup's steps, each supervisor, connecting and accepting.
  Not `SendFails`: a dead connection is noticed when a packet is sent on it, and
  none need be, so `TunnelComesUp` counts it as up. That connecting and accepting
  get their turn is what `SenderResumes` and `NoStrandedConnection` show of
  `Tunnel`: `Link` has no fairness, and this step is in words.
- `PacketLog`: its steps, since nothing in them waits.
- Nothing obliges a packet to arrive or anything to fail; and as failures are
  bounded, liveness is about what follows the last of them.

## What is proved

Every theorem holds for all values of the constants under the `ASSUME`s of the
modules, which only type them and exclude zero-sized queues, buffers and headers.

**Tunnel.** `TypeCorrect` gives the types with bounds of both workers'
positions. On it rests `SenderInv`: the queue is in order, what is on the
connections was queued, is older than what the queue holds and is in order
within and across connections; the message under way is the newest of all and
`sent` is what is on the connection of it; the worker writes to the connection
it made last. It is needed in full because `FreshConnections` alone says nothing
about the queue or the message, from which the next unit comes.
`SenderCorrect` and `FreshConnectionsCorrect` need no assumption on payloads.

With `Untruncated` (every packet fits what netlink copies), `ReceiverInv` adds
that on every connection packets follow one another whole, except for the last,
that the payload buffer holds the beginning of one packet, and that what was
delivered is older than all that may still be. `ReceiverCorrect` proves it, and
`VerbatimCorrect` and `ImplementsPromise` (`Spec => DeliversLossyFifo`: every
step of `Tunnel` is an `Offer`, a `Deliver` or a stutter of `LossyFifo`) follow.
`tunnel_verbatim_truncated` shows that the assumption cannot be dropped.
`FramesAlignedCorrect` is read off `ReceiverInv`: a packet starts where whole
packets end.

Neither does anything about connections need complete payloads. `LinkInv` says
which ends of which connections the workers hold: the receiver has none but the
one it reads and those in the backlog, and the sender none but the one it uses
and, until the half-close of a new one returned, the one before. The latter is
why it is needed: between connecting and dropping the old socket (`nfq.rs:79`)
two connections have a writer, and were the older one the one that is read, both
workers could wait. `ImplementsLink` then maps every step of `Tunnel` to one of
`Link` or a stutter, and shows on the way that the case called "stranded" of the
mapping, a connection that is neither pending nor read nor broken, is never
reached. `NeverWaitCorrect` follows from the same invariant, for any backlog and
buffers: a sender that waits for the backlog has connections in it for the
receiver to accept, and holds at most the last of them, so the one that is read
comes to its end; and one that waits for room has written what the receiver has
not read.

`BytesInOrderCorrect` needs no assumption on payloads, so the receiver may be
anywhere in a packet. `BytesInv` therefore says nothing of frames: every byte
delivered comes before every byte that may still be, wherever that is (in the
payload buffer, unread on a connection, in the message under way, in the queue).

`LeaksCorrect` is a matter of accounting. A write fails because the connection
is broken, and the failure was counted when it broke, so `LeaksOnlyByFailure`
is not inductive alone: `SlotsInv` adds to the leaked slots a broken connection
not noticed yet, and a receiver told to stop that has not yet broken one. It is
about complete payloads, since a receiver that misread a header breaks
connections that did not fail. `SlotsCorrect` says what that leaves of
`SlotBelowMaxLen`, which the code breaks: the maximum length shrinks by at most
one for each failure.

**Bootstrap.** `BootstrapInv` follows the bytes. On the host's side (`HostInv`):
a connection carries the beginning of the record of the run it was made in; one
that waits is empty and of this run; the one that is served has `pos` units of
it. On the enclave's (`EnclaveInv`): the buffer is the beginning of what is on
its connection; a read always has room, so a read of nothing is the end of the
stream; and what is missing at the end stays missing, as the host has let go of
the connection. With them `ConfiguredCorrect` (the first unit of a parsed record
tells whose it is, the parse that it is whole), `MalformedCorrect` and
`BootstrapTypeCorrect` hold for records and buffers of any lengths and any
number of failures. `RunsArePaid` bounds the runs by the failures.

`HandoverCorrect` (`Spec => HandsOverAtOnce`) finds the step at which the record
changes hands: the write of its last unit, when the enclave does not have it yet
but nothing can take it back, so that a host that ends later has handed it over
and one that ends before has not. The mapping (`Handed`) reads it off the
connection before `get` returns and off `record` afterwards, and the invariant is
needed for the step between: what `get` parses is the record that was there.
`RefusedCorrect` is what is left of `RejectsOnlyOversize`: no record smaller than
the maximum is refused as too large.

**Process.** `LifeTypeCorrect`, `NobodyRunsAlone` and `CleanExitCorrect`, for any
set of workers: `NoHalfDeadProcess` is inductive with the types, as a worker ends
only after the cancellation or cancels with the same step.

**Setup.** `SetupInv` of either side says, for each step, what the steps before
have established in the kernel and that nothing undid it. `HostTypeCorrect`,
`EnclaveTypeCorrect`, `RulesCorrect`, `KernelCorrect` and `RouteCorrect` follow;
`CaptureCorrect` adds the arithmetic of ranges (`AcceptedRanges`), so it holds
for all 65536 ports. `NotCapturedCorrect` is what is left of
`HostPortsNotCaptured`: it holds of every run whose ranges are not nested.

**Deployment.** Its two sides are setups: `HostImplementsSetup` and
`EnclaveImplementsSetup` are refinements, and as the modules of the setups' proofs
are instances over the variables of the composition, every theorem about a setup
is one about the deployment (`HostRulesCorrect`, `EnclaveKernelCorrect`), and
nothing is proved twice. The assumptions of the setups follow from that of
`Deployment`, the one on the enclave's records from what `RecordOf` makes of the
host's options. What joins the sides is small. `AnswersCorrect`: each kernel is
configured by what its own process holds, and what the processes hold agrees while
the record is of the host's present options (`RecordIsOurs`).
`DeploymentTypeCorrect`: only running workers are connected, and a connection
neither dead nor absent has a running worker at both ends (`LinksOfWorkers`).
`InterfacesCorrect` (`Spec => KeepsToInterfaces`) has a lemma for each interface,
with a case for each action: `LinksOfWorkers` makes the end of a process that ran
no workers a stutter of its connections.

**PacketLog.** `LogInv` says which slice each part works on and, in the loop over
the options, that what was shown and what comes next are what the reference
definition has (`BehindAny`). `LogTypeCorrect`, `LogNeverPanics`,
`LogAgreesWithReceiver` and `LogShowsEveryOption` hold for payloads of any bytes
and any length, not only for those of the run.

Only model-checked: everything about liveness, as neither fairness nor ENABLED is
within the prover's reach (`SenderResumes`, `NoStrandedConnection`,
`DeliveredOnceConnected`, `ServiceIsFreed`, `EnclaveConfigured`,
`FailureStopsProcess`, `SignalStopsProcess`, `SetupConverges`, `TunnelComesUp`,
`LogEnds`). Every invariant and every refinement that a passing run checks is a
theorem, and so is `Verbatim`, a conjunct of `ReceiverInv` that has a run of its
own only to show it violated by cut payloads.

## What is not modelled, and why

- The two directions share only their processes, so `Tunnel` is one direction,
  and an end of its process, for whatever reason, is an action of it.
  `Deployment` has both, as connections.
- A worker's panic is no action of `Process`: the one place that walks over bytes
  of the network is `PacketLog`, which has none, and the `expect` calls elsewhere
  are on values whose kind the command line fixes.
- Time. A timeout is an action that may happen when its condition holds, and a
  backoff may give up at any attempt. The intervals and the elapsed time are the
  library's; that accept's counts the time it was blocked (`system/vsock.rs:74`)
  only makes one outcome, giving up, possible earlier, and the models allow it
  at every failed attempt.
- The bytes of netlink, nftables and IPv4 messages; `Record`'s fields in
  `Bootstrap` (they matter in `EnclaveSetup`).
- Wording of the log, set-up of the logger, the error type, builds of image and
  kernel; addresses, interfaces and log levels, which the command line passes to
  libraries (`cli/parsers.rs`).
- A changed queue number leaves the old table behind and a changed address the
  old address. Both are in the models, but nothing says what should happen.

## Plan

What could follow, the most valuable first:

1. Several enclaves behind one host: `accept` refuses a peer of another CID
   (`system/vsock.rs:33-55`), which is a failure of an attempt so far.
2. Fairness of `Link`: its connecting and accepting as leads-to properties of
   `Link` that `Tunnel` implements, in place of the words under Fairness. TLC only.
3. Elapsed time of the backoff as a counter, should the program come to promise
   how long it keeps trying.
