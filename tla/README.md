# A TLA+ model of netbench_orchestrator

netbench_orchestrator measures transport protocols. One program, the
*orchestrator*, launches server and client hosts on EC2, prepares them with
scripts sent through SSM, runs s2n-netbench on all of them at once, collects the
results and removes the hosts again. The hosts of a side are driven through a
netbench run by *Russula*, a coordinator/worker protocol over TCP. This directory
holds TLA+ modules of that system, the TLC configurations that check them, and
TLAPS proofs.

    tlc -workers 2 -config server.cfg MCRussula     (any run listed below)
    tlapm RussulaProofs.tla                         (and NetbenchProofs, FailureProofs,
                                                     BacklogProofs, OrchestrationProofs,
                                                     SsmProofs, FramingProofs, InfraProofs;
                                                     some minutes at most each)

## 1. The system

| part | source | state it keeps | what happens to it |
|---|---|---|---|
| Russula core | `russula/mod.rs`, `protocol.rs`, `states.rs` | per connection a protocol instance: state, peer stream | `build` (bind/accept, connect with retries), `run_till_ready / worker_running / done`, which poll every instance in turn |
| server protocol | `russula/netbench/server_{coord,worker}.rs` | coordinator and worker state, pid of netbench in the worker state | start netbench, wait for KillWorker, kill it |
| client protocol | `russula/netbench/client_{coord,worker}.rs` | the same | start netbench, watch it until it is gone or a zombie |
| framing | `russula/network_utils.rs` | none (the socket's readiness) | `recv_msg`, `send_msg`, which error is `NetworkBlocked` |
| worker program | `russula_cli.rs` | none | build, run till Ready, run till Done, exit |
| SSM commands | `ssm_utils.rs`, `ssm_utils/{common,server,client}.rs` | marker files `start_<step>___`, `fin_<step>___` on each host; invocations at SSM | `send_command` with retries, `poll_ssm_results`, `wait_complete` |
| coordination | `ssm_utils/coordination_utils.rs`, `orchestrator.rs` | the two coordinators of a driver pair | servers Ready, clients Ready, servers WorkersRunning, clients Done, servers Done, upload |
| infrastructure | `ec2_utils.rs`, `ec2_utils/*.rs` | `InfraDetail`: servers, clients, placement map, security group | `launch`, `cleanup` |
| command line and configuration | `orchestrator/cli.rs`, part of `ec2_utils/networking.rs` | none: a scenario, the overlays and the region are checked once | `check_requirements`, `get_subnet_vpc_ids`, the launch plan |
| driver build commands, dashboard, report, S3, errors and counters | the rest of `src/src` | none that changes during a run | not modelled: lists of shell text, uploads, logging |

How they interact: the orchestrator is one sequential task. It calls EC2 and SSM
and polls them; SSM runs a script on each host in its own time; one of these
scripts is `russula_cli`, which the coordinator inside the orchestrator connects
to. Coordinator and workers share nothing but the TCP connections.

What is hard about it, and what would make it correct:

* **Russula.** N workers and one coordinator run concurrently. Every poll repeats
  the current state to the peer, so messages are duplicated and read long after
  they were true. Reads depend on a cached readiness. Any process can die. Correct
  means: no side runs ahead of the other; all instances pass each target together;
  when the caller is told Ready, WorkersRunning or Done it is true of netbench on
  every host; nobody waits for ever; which failures can happen at all; and two ends that
  answer each other's late messages do not fill the socket buffers.
* **SSM.** Scripts of a host start in any order and in parallel; markers are shared
  between the tasks of a step and never removed; only one invocation of a command
  is looked at. Correct means: steps happen in order on every host, results are
  copied when netbench has ended, and the orchestrator ends.
* **Infrastructure.** Any call may fail half way through a launch. Correct means:
  the run begins with all hosts running, `Ok` means everything is released, and it
  is known what may be left behind.
* **A driver pair.** The server Russula and the client Russula know nothing of each
  other; only the order of the orchestrator's calls, and its panics, tie them together.
  Correct means: a client runs only while every server does, the results are copied when
  everything has ended, and the failure of one side reaches the other.
* **Framing.** A message is read in two calls from a stream that need not keep it whole.
  Correct means: nothing is received that was not sent, and nothing is lost or refused as
  long as the stream keeps messages whole.
* **Configuration.** A launch unwraps its lookups half way through and relies on what was
  checked before. Correct means: a request that passes the checks has a launch plan.

`PROJECT.json` lists every hazard at its line with the properties that cover it.

## 2. Modules

| module | what it is |
|---|---|
| `Protocol` | what a Russula protocol is: processes, connections, the tables `Run`, `Step`, `NextState` of each side as constants, and the assumptions on them |
| `ServerNetbench`, `ClientNetbench` | these tables for the two netbench protocols, a field per state |
| `Russula` | the coordinator, the workers, the connections, the netbench processes |
| `Rendezvous` | what Russula promises: endpoints move in lockstep, a process's instances pass each target together. No messages, no polling |
| `Orchestration` | one driver pair: two instances of Russula driven by one orchestrator, with the deaths of the orchestrator and of workers, and lost hosts |
| `Channel` | one direction of a connection as `Russula` uses it: in order, none twice, and none lost if it is reliable |
| `Framing` | the length prefix and the two reads of `network_utils.rs` over a byte stream |
| `Ssm`, `MCSsm` | the scripts on the hosts and the orchestrator's program of sends and waits |
| `Infra` | the AWS resources of a run |
| `Config`, `MCInfra` | which requests reach a launch, and the constants `Infra` gets from one |
| `RussulaProofs` | theorems about `Russula` for any pair of tables |
| `NetbenchProofs` | theorems about `Russula` with the server and the client tables |
| `FailureProofs` | theorems about the failures of `Russula` with either pair of tables |
| `BacklogProofs` | theorems about what is unread on the connections of `Russula` with either pair of tables |
| `OrchestrationProofs` | theorems about `Orchestration` |
| `SsmProofs` | theorems about `Ssm` |
| `FramingProofs` | theorems about `Framing`, with the refinement of `Channel` |
| `InfraProofs` | theorems about `Infra`, and about the `Config` its constants come from |

How they compose: `Protocol` <- `Russula` <- `RussulaProofs` <- `NetbenchProofs` <-
`FailureProofs` <- `BacklogProofs`, which `Orchestration` instantiates twice. `Russula`
implements `Rendezvous`; `Framing` implements `Channel`. `Config` extends `Infra`.

Operators whose comment begins with "Faulty:" are the code with one plausible bug.
No specification uses them; putting one in the place of the definition that follows
it makes a property fail, and `PROJECT.json` says which.

### Russula

A process is 0 (the coordinator) or a worker `1..N`; an endpoint `<<side, w>>` is one
`ProtocolInstance`. `state[e]` is its protocol state, `inbox[e]` the messages on the
way to it, `conn[e]` its view of the connection and `ready[e]` tokio's cached
readiness. `pc`, `turn`, `count` and `goal` say where a process is: in `build`, polling
instance `turn`, inside `await_next_msg` ("recv"), in the final notifications
("finish"), or back at its caller ("idle") after `goal - 1` targets. `proc[w]` is the
netbench process of worker `w`, and `pid[w]` what the pid carried by the worker's
state refers to (the pid is `serde(skip)`, so it is not part of a message).

Steps are cut at the `.await`s at which another process can matter: each message
read, each final notification, each poll of an instance. `RunNotifyAwait`,
`RunAdvance`, `RunSpawn`, `RunKill`, `RunJoinBusy`/`RunJoined` are the arms of
`run()`; `RecvMatch`, `RecvOther`, `RecvBlocked`, `RecvEof`, `RecvReset` the outcomes of
one turn of `await_next_msg`; `PollAtTarget`, `EndRun`, `NextInstance`, `NotifyFinished`
what `poll_state` and `poll_<state>` do around it. A failed write or read panics
(`err.is_fatal()`), except for a notification of Done, whose network failures are
ignored.

The network is TCP as the code sees it: in order, nothing lost while both ends live.
A process that is gone has its sockets closed by the kernel: its peer reads the rest
and then 0 bytes, or gets a reset if data was left unread or is written afterwards.
`ResetInTime` assumes that a reset which a write has provoked arrives before the next
poll some seconds later. `SpawnFails` is the `expect` around the start of the collector.

`connect()` of a worker binds and accepts, and its two errors end differently. `BindFails` is
the `unwrap` of `TcpListener::bind`: the worker panics and never listens (`NeverListened`).
`AcceptFails` is the error `build` answers with another attempt: the listener is dropped, its
kernel resets the connection (`"dropped"`, `NotAccepted`), and the worker binds again, but the
coordinator has its connection and does not make a second one. `BuildGivesUp` is
`NetworkConnectionRefused` after the last attempt, of either side.

A host may also be lost without closing anything (`Vanish`): its coordinator reads what had
arrived and then finds nothing, until its kernel gives up retransmitting (`TimesOut`), which
need not happen.

### Orchestration

`S` and `C` are `Russula` with the server and the client tables (through `BacklogProofs`, which
only adds theorems, so that `OrchestrationProofs` can cite them as `S!...` and `C!...`). The
orchestrator has no variable of its own: `Ip`, its place in `Program`, is the sum of the goals
its two coordinators have passed. A coordinator whose call returns an error is unwrapped, and
the panic of one is a crash of the other, because both live in the same process
(`ServerCoordinator`, `ClientCoordinator`). `Drop` is the end of the block that owns them.
Client workers start when their command has been sent (`ClientsSent`). `OrchestratorDies` is
the panic from an SSM poll, which every wait unwraps between two rounds of polling its
coordinator; `ServerDies` and `ClientDies` are a worker killed or a host lost. In `Program` and
`ClientCoordinator` the order of the calls is the code's; the properties are about what this
order, and nothing else, guarantees.

### Framing

One direction of a connection. `Write` is one `try_write`, whose count nobody looks at:
what it did not take is lost. `ReadLength` and `ReadData` are the two `try_read`s of
`read_msg`, separate steps because bytes may arrive between them; `LoseLength` is the
second one finding nothing, after which the length is forgotten. `cut` says what the
stream does in a behaviour: keep every message whole, deliver in arbitrary pieces, or also take
only a part of a write. Bytes are `<<message, index>>`; their values matter only where data is
taken for a length (`Value`). `Channel` is the abstract message channel, and what `Russula` assumes
of its inboxes is `Channel` with `reliable`: that holds when `cut = "none"`. `Received` maps what
`read_msg` has returned to message numbers, and what is no message (`NoForgery` says when
there can be such a thing) to 0, which only an unreliable channel can yield (`Garble`).

### Ssm

`Program` is the Full branch of `orchestrator::run` as lists of instructions (send, wait,
connect, running, done): list 0 configures the hosts and builds (`Configure`), list `d` is
the body of the loop for driver pair `d` (`RunDriverPair`). `driver` and `ip` are the list
and the instruction being executed. `invocation[h][c]` is the
state of command `c` on host `h`, `files[h]` the marker files, `coordDone` the Russula
runs whose coordinator has reached Done. `Begin` waits for the markers and touches
`start_`; `End` moves it to `fin_`. `Polls` is `poll_ssm_results`: the status of *some*
host of the command, as the code takes the first listed. A Russula run appears as a
worker that is up until its coordinator is Done or gone; that it gets there is the
subject of `Russula`. `broken` are the hosts where the build of russula failed without
the script's status showing it. `results[h][d]` is what `aws s3 cp` made of the results of
driver `d`: when the upload script ends (`CopyOutcomes`), they are copied or the copy has
failed, and the status of the script is success in both cases. `PollError` is a poll that finds
a failed invocation, or fails itself, and is unwrapped.

### Infra

`pc` walks through `LaunchPlan::launch`, the run and `InfraDetail::cleanup`; `tracked` is
`infra.servers` and `infra.clients`, `sg`, `group` and `inst` are what EC2 has. Every call
has a disjunct or an action for its failure, with the early return, panic or
retry of the code. `armed` are the hosts on which the configure step has scheduled a
shutdown; the instances terminate when they shut down. EC2 refuses to delete a group in
use and to terminate an empty list of instances.

### Config

Functions of the inputs: `MeetsRequirements` (the assertions of `check_requirements`),
`HostConfigs`, `SubnetsFound` and `LaunchPlan`, which yields the constants of `Infra`. `Accepted` is
every request of a bounded size that reaches a launch, together with the subnets AWS has.
`MCInfra` makes the constants of its runs from two such requests; TLC evaluates that they are
accepted (`RequestsAccepted`).

## 3. What is checked

| run | instance | properties | shows |
|---|---|---|---|
| `server` | server protocol, N = 2; worker 1 may be unable to listen, to accept or to start netbench | `TypeOK`, `Barrier`, `ServersUp`, `DoneMeansEnded`, `OnlyLateFailures`, `RendezvousSpec` | the protocol does what its callers rely on in every interleaving, and what it reported stays true when a worker fails |
| `client` | client protocol, N = 2; worker 1 may be unable to listen or to accept | `StartTogether`, `DoneMeansEnded`, `OnlyLateFailures`, `RendezvousSpec` | no client starts before all are Ready; Done means every netbench has ended by itself |
| `client_inflight` | client protocol, N = 1, three notifications, two attempts to connect, netbench seen running twice, up to five messages late; anybody may be killed, the host lost, the bind, an accept or the start of netbench fail | `Lockstep`, `Backlog`, `DoneMeansEnded`, `CoordinatorCompletes`, `EveryoneHalts` | late and repeated messages are harmless and do not pile up, an undisturbed coordinator gets through, and everyone halts unless a loss is never noticed |
| `pair` | one server, one client; either host may be lost, the client be unable to listen or to accept, or the orchestrator panic | `ServersUpForClients`, `EndedBeforeCopy`, `BacklogStaysSmall`, `FailsForAReason` | the two protocols together keep clients and servers in step; the backlog of a peer that is away is bounded; the orchestrator panics only for a cause |
| `pair_halts` | the same; nobody is killed, on either host the bind, an accept or the start of netbench may fail | `EveryoneHalts` | the failure of one side reaches the workers of the other |
| `framing` | three messages of three bytes; whole, in pieces, or torn | `NoForgery`, `BadMsgMeansCut`, `ImplementsChannel`, `EveryMessageArrives` | a stream that cuts messages can make `read_msg` lose or refuse them, never invent one unless a write was torn; one that does not loses nothing |
| `worker_fails` | N = 1, three notifications | `NoFailureAfterDone` **violated** | a worker still in Stopped can be reset by a coordinator that is Done, and panics |
| `hosts` | one server, one client, two driver pairs; sends and polls fail, workers start late, builds and workers time out, a build of russula or a copy to S3 fails unnoticed | `TypeOK`, `StepsInOrder`, `BuiltBeforeRun`, `UploadAfterNetbench`, `NoResultsFromBrokenBuild`, `NoUploadCutOff`, `RunEnds` | markers and polling order the steps, a host that could not take part stops the run before results are taken, a run that returns has cut no copy of results off, and the orchestrator ends |
| `run_before_build` | two servers, no failure | `BuiltBeforeRun` **violated** | the comment at ssm_utils.rs:78-82 does not hold with several hosts |
| `stale_marker` | one server, one client | `UploadAfterWorker` **violated** | a marker of the first driver is taken for the second's (README.md:79-82) |
| `infra` | two servers, two clients, two zones, every fault | `TypeOK`, `ReadyToRun`, `LeavesOnlyFailedBatch`, `OkMeansReleased`, `HostsReleased`, `ReturnsUnlessBootFails` | what is tracked, released and left behind; once a run has begun its hosts end, cleanup or not, unless it panics before they are configured |
| `infra_leak` | one client launch fails | `FailedLaunchCleansUp` **violated** | hosts of the failing batch are not cleaned up (launch_plan.rs:111, 154) |

The four violated properties state what a comment or document of the repository says;
`PROJECT.json` quotes them under `findings`. None of them breaks the measurement by
itself: the worker's panic comes after its netbench has ended, the upload comes after
both coordinators are Done (`UploadAfterNetbench`), and leaked hosts that were
configured shut themselves down.

### Bounds, and why they are enough

* `N = 2`: the coordinator's instances interact only by being polled in turn and by the
  barrier; two show a worker that is early and one that is late, in both orders. The
  proofs are for every N.
* `RetryAttempts = 1` or `2` (10 in the code), of the coordinator for each worker and of a worker
  that accepts: an attempt that fails changes nothing but the counter, and the first failed accept
  the connection; giving up and, with 2, going on after a failure both occur.
* `NotifyDone = 1` where the state space needs it and `3`, as in the code, in
  `client_inflight` and `worker_fails`: more notifications only add messages nobody waits for.
* `pair`: one host on each side. What the second host of a side adds, the barrier, is
  checked by `server` and `client` and proved; the composition adds the order of the
  two sides, for which one host of each is enough. At most one process is killed in a
  run: what two deaths do at once is left to the proofs, which allow any number within a side.
* `K = 3`, `Messages = 3`: a data byte taken for a length makes one of at least 32 * 256,
  longer than everything that is ever sent, and a length that was lost makes the next read
  begin at every offset of the following message; the third message is the one behind it.
* `MaxHosts = 2`, three zones of which two are in the region: a zone without a subnet, one
  outside of the region and two hosts of one zone all occur.
* `MaxBusyPolls <= 2`: polls that find netbench running; each only repeats a message.
* `Mortal`, `MayVanish`, `CannotListen`, `CannotSpawn`: who may be killed, lost, unable to
  listen or accept, or unable to start netbench. A peer
  that was killed and one that panicked look alike to everyone else, since the kernel closes
  the sockets of both, so `pair_halts`, `server` and `client` have failures to listen or start, `pair` the losses, which
  say least to the survivor, and `client_inflight` all of them. The proofs have all of them
  everywhere.
* `InFlight`: how much of what was sent may still be on its way when a read finds nothing;
  with 0 a message is readable as soon as it was written. Each such read provokes one
  more message, so the state space grows with it; `client_inflight` has 5. `Backlog`
  is proved for any delay; with one worker, no faults and one poll that finds netbench running
  TLC gets through with no limit too (`InFlight = 1000`, where `Backlog` allows 342 messages at
  most), in 800 thousand states.
* `D = 2` drivers: the first leaves markers, the second finds them. With three or more, a
  worker can overlap the next one's script on the same marker; `End` has that case.
* `MayTimeOut` and "one running command at most" bound what SSM gives up; commands that
  wait for a marker in vain are then given up as well.
* `MaxRetries = 2` (25 in the code): a failed attempt to delete changes only the counter.

Not bounded are the inboxes: writes never block. `Backlog` and `BacklogStaysSmall` are what
justifies it. The bound is `Unread` at the number of moves the two ends have made, at most
335 messages, and 5 for every poll that found netbench running, and the repetitions of the final
state. It allows for any delay of any message. A message has at most 29 bytes, so this is
10 KB and 150 bytes for each of those polls, which are 5 s apart, where the usual socket buffers hold
more than 100 KB. A coordinator of several workers repeats its notifications of Done each time it
polls an instance that is Done while others are not, so there the bound holds up to these
repetitions.

### Fairness

Every process of Russula keeps running (`WF` of its steps): the runtime polls a ready
task, and its callers poll again after a delay. A reset arrives. A client netbench ends.
Neither crashes nor the end of a server netbench are fair. In `Ssm` the orchestrator
keeps polling, a script that need not wait makes progress, and one that waits when
another has failed is given up (SSM's execution timeout). In `Infra` EC2 boots and
terminates what it was asked to; whether calls succeed is left open, which is why the
retries must be counted. `Orchestration` has a weaker assumption than `Russula`: somebody who can go on
does (`WF` of the disjunction `Step`) and a reset arrives. With one host a side every process
either waits for a message, which nobody but its peer can send, or can go on, so this
is enough for `EveryoneHalts`, and makes it a stronger statement. In `Framing` bytes
arrive and the reader is polled again; nothing obliges the peer to write.
`CoordinatorCompletes` starts from established
connections. That a lost host is noticed is not assumed, as `recv_msg` has no time limit:
`Russula.EveryoneHalts` allows for a loss that is never noticed, and `pair_halts` has no losses.
`Ssm.RunEnds` and `Infra.ReturnsUnlessBootFails` take it from there: in `Ssm` a coordinator reaches
what it is waited for, in `Infra` the run ends, so neither holds of a run in which a host is lost
and nobody notices. `HostsReleased` does hold there of the hosts that were configured, which shut
down by themselves; it needs of the run only that it gets every host configured or panics.

## 4. What is proved

`RussulaProofs` proves for every N, every bound and every pair of tables that meets the
assumptions of `Protocol`, with crashes, lost hosts, resets and late messages included:

| theorem | statement |
|---|---|
| `Invariant` | `Spec => []IInv` |
| `TypeCorrect` | `Spec => []TypeOK` |
| `LockstepHolds` | `Spec => []Lockstep` |
| `BarrierHolds` | `Spec => []Barrier` |
| `ImplementsRendezvous` | `Spec => RendezvousSpec` |

The assumptions are `NAssumption`, `TableAssumption` (the tables are total; `run()` reads
messages exactly in the states that await one), `PathAssumption` (a side walks one path,
its targets in order) and `BoundsAssumption`. TLC evaluates them for both protocols.

`Lockstep` and `Barrier` are not inductive by themselves. `IInv` adds that a process
inside `run` has a goal and reads only in a state that awaits a message and is not its target
(`ControlInv`), and that goals stay in range (`GoalInv`). The argument: `Truthful` says no
message is ahead of its sender, which a step keeps because it sends only the state it
leaves its endpoint in or came from, and ranks never decrease; so a message that matches
shows that the peer has reached what was awaited, which is `InStep`; an instance at its
target is not run, so it cannot be ahead of the goal, and the goal moves only when all
are there, which is `Barrier`. Each action is shown once to satisfy `Summary(p)` (its
effect on states, goals, messages and control), and the invariant and the refinement are
both proved from the summaries.

`InfraProofs` proves for any number of hosts and zones, any placement, any number of
retries and any faults, from `InfraAssumption` alone:

| theorem | statement |
|---|---|
| `Inductive` | `Spec => []IInv` |
| `TypeCorrect` | `Spec => []TypeOK` |
| `RunHasItsHosts` | `Spec => []ReadyToRun` |
| `CleanupForgetsOnlyFailedBatch` | `Spec => []LeavesOnlyFailedBatch` |
| `OkReleasesEverything` | `Spec => []OkMeansReleased` |

What a cleanup leaves depends on what was tracked when the launch failed, so `IInv` says
for every label of the launch which hosts `infra` lists (`TrackedHere`: the earlier batch,
and of the current one what has been polled), which of them run (`InstancesHere`) and which groups
exist (`GroupsHere`). A listed host was running once, so `Ok`, which the orchestrator returns
only after EC2 let go of the security group, finds each of them terminated.

`NetbenchProofs` proves what the callers rely on, for any number of hosts, with crashes,
lost hosts, failed spawns, resets and late messages included:

| theorem | statement |
|---|---|
| `NetbenchInvariant` | `SpawnFirst` and `Spec` imply `[]NInv` |
| `ServersUpHolds` | `ServerTables` and `Spec` imply `[]ServersUp` |
| `ServerDoneMeansEnded` | `ServerTables` and `Spec` imply `[]DoneMeansEnded` |
| `ClientStartTogether` | `ClientTables` and `Spec` imply `[]StartTogether` |
| `ClientDoneMeansEnded` | `ClientTables` and `Spec` imply `[]DoneMeansEnded` |

`NInv` adds two parts to `IInv`. `ProcessInv`: a worker past its "spawn" state has started
netbench and its state carries the pid, one past "kill" or "join" has seen it end. It is
inductive because each state is left once (ranks grow by one) and, by `SpawnFirst`, the pid is
set before it is used. `CallerInv`: while the caller has control, all instances are at the
target they reached last. `ServerTables` and `ClientTables` say that the constants are those of
the two protocols; `SpawnFirst` follows from either. The properties then come from following
`InStep` back: Done means the coordinator's endpoint has passed the state that awaits
Stopped, so its worker has reached Stopped, so it is past "kill".

`FailureProofs` proves which failures there can be, for any number of hosts:

| theorem | statement |
|---|---|
| `FailureInvariant` | `SpawnFirst`, `FinishLast` and `Spec` imply `[]FInv` |
| `ServerOnlyLateFailures` | `ServerTables` and `Spec` imply `[]OnlyLateFailures` |
| `ClientOnlyLateFailures` | `ClientTables` and `Spec` imply `[]OnlyLateFailures` |

The argument follows the connections. One breaks only when a process at one of its ends halts;
without a reason (`Sound`: nobody crashed, no accept failed, every netbench started, every worker
connected to) a process halts by closing at its last target, by panicking on a connection that was
broken before, or, a worker, by a bind that fails (`NeverListened`); the last has no connection that
could break. A worker gets to its last target only after its coordinator endpoint is Done (by
`InStep`), so whoever closes first, that endpoint is Done (`ClosedIsOver`). `LateInv`: whatever
is broken or halted has a coordinator endpoint that is Done, and such an endpoint ignores what
happens to its connection, so the coordinator never panics. `LinkInv` is needed for the
reasons themselves: a coordinator that gives up on a worker has made no connection to it
(`ConnectInv`), a worker that binds has none, or has lost the one it had, and so panics either as
`NeverListened` or after `NotAccepted` (`BindInv`), and both ends of a connection are made at once
(`MadeTogether`).
`FinishLast` is the condition on the tables (the callers drive both sides to the end of their
paths) and follows from either pair. `Fate(p)` says once for each action what it does to the
connections and why it halts its process, if it does.

`BacklogProofs` proves how many messages may be unread, for any number of hosts, any delay of
messages and any faults:

| theorem | statement |
|---|---|
| `BacklogInvariant` | `SpawnFirst`, `FinishLast`, `LastOnly`, `BudgetTable`, `BudgetStart` and `Spec` imply `[](BInv /\ Backlog)` |
| `ServerBacklog` | `ServerTables` and `Spec` imply `[]Backlog` |
| `ClientBacklog` | `ClientTables` and `Spec` imply `[]Backlog` |

A read that finds nothing notifies the peer, and so does the poll after it, so an end can be
made to send two messages for each that it reads, and the peer two for each of those. What
stops this is that both ends walk a path. At any time one end of a connection can move
(`Mover`: what it awaits, if anything, has been sent or is about to be), and the other waits for
it or is at its end. The mover reads on until it finds what it awaits and then stops reading, so what it
can still send is known: two messages for each that lies before the awaited one (`Debt`), and
what its readiness allows (`Credit`). The other end answers no more than what it has unread and
what the mover will still send. `Held` says that both sums stay below `Room` and `Echo`, two
numbers for each number of moves. While the mover stays, every step lowers or keeps the sums.
When it moves and the other end becomes the mover, what the one had left is what the other must
skip, so the new numbers follow from the old, more than doubling (`HandOver`); a poll that
finds netbench running raises both (`ReportsKeeps`). `BudgetTable` lists these inequalities for
every pair of states that `InStep` allows, and is proved for the numbers of either protocol
(`ServerBudget`, `ClientBudget`). An end that is finished sends nothing but its final state
(`FinalHere`); a process with one instance does so `NotifyDone` times and once more when it
moves there (`LastHere`). `BInv` is `FInv` with these parts.

`OrchestrationProofs` proves for any number of server and client hosts:

| theorem | statement |
|---|---|
| `PairInvariant` | `Spec => []OInv` |
| `ServersUpForClientsHolds` | `Spec => []ServersUpForClients` |
| `EndedBeforeCopyHolds` | `Spec => []EndedBeforeCopy` |
| `FailsForAReasonHolds` | `Spec => []FailsForAReason` |
| `BacklogStaysSmallHolds` | `Spec => []BacklogStaysSmall` |

`OInv` is `NInv` of both sides and `PhaseInv`: the two goals are one of six pairs, the ones the
orchestrator's program passes through, and the side that is not driven rests with its caller.
Each step of the pair is a step or a stutter of `S` and of `C`, so `NextNetbench` carries both
invariants over; the lemmas of `NetbenchProofs` are cited through the instances, with the
assumptions on their constants proved for the two tables (`ServerSide`, `ClientSide`). A client
that runs has a coordinator beyond RunWorker, hence the orchestrator in its fourth phase, hence
the server coordinator resting at WorkersRunning. `FailsForAReasonHolds` rests on `FInv` of
both sides and on `DeadTogether`: a server coordinator that is dead was taken along by a client
coordinator that panicked, unless both died of an SSM error. So whichever panicked did so by
itself, and `LateInv` of its side gives the reason. `BacklogStaysSmallHolds` is `BInv` on both
sides: whether the orchestrator drives the other side, has panicked or has ended does not
matter to the argument, which assumes no fairness.

`SsmProofs` proves for any number of hosts in each group, any number of driver pairs and any
faults:

| theorem | statement |
|---|---|
| `Inductive` | `Spec => []IInv` |
| `TypeCorrect` | `Spec => []TypeOK` |
| `StepsInOrderHolds` | `Spec => []StepsInOrder` |
| `UploadAfterNetbenchHolds` | `Spec => []UploadAfterNetbench` |
| `NoResultsFromBrokenBuildHolds` | `Spec => []NoResultsFromBrokenBuild` |
| `BuiltBeforeRunHolds` | `OneHostEachGroup /\ Spec => []BuiltBeforeRun` |
| `NoUploadCutOffHolds` | `OneHostEachGroup /\ Spec => []NoUploadCutOff` |

`IInv` ties the two sides of an SSM run together. On the hosts (`MarkerInv`): a `fin_` marker
was left by some script of its step that succeeded, and a script that has started found those
it waits for, so steps are handed on in order although markers are shared and never removed. At
the orchestrator: a command SSM knows was sent by an instruction that is past (`SentInv`); past
a connect, every worker listened, hence its build of russula is complete and not broken, and
past a "done" the coordinator is Done (`CoordInv`); past a wait, each of its commands is
complete on *some* host, which is all `poll_ssm_results` can tell (`WaitInv`). An upload is
sent after both "done" instructions of its list, which gives `UploadAfterNetbench`, and after
both connects, which gives `NoResultsFromBrokenBuild`. An upload that is complete has left an
outcome of its copy (`CopyInv`), and the last wait of a driver is for both uploads, which gives
`NoUploadCutOff`: it says that no copy was cut off or never begun, and not that it worked, which
nobody looks at. `OneHostEachGroup` is the hypothesis of
the two theorems about what a wait guarantees for *all* hosts: with more hosts both are false
of the code, as `run_before_build` shows for the first.

`FramingProofs` proves for messages of any length below 256, any number of them, and
every way to cut the stream:

| theorem | statement |
|---|---|
| `Inductive` | `Spec => []IInv` |
| `BadMsgMeansCutHolds` | `Spec => []BadMsgMeansCut` |
| `NoForgeryHolds` | `Spec /\ []BacklogSmall => []NoForgery` |
| `ImplementsChannelHolds` | `Spec => ImplementsChannel` |

The invariant is about `Stream`, the bytes written and not read, arrived or not: a step leaves
it alone, extends it by a message or drops its first bytes. `OrderInv`: its bytes, and before
them those that were taken, are in the order in which they were written, whatever was cut;
hence received messages are in order and none comes twice. `LengthInv`: as long as no write was
torn, every message whose beginning is in the stream is there to its end, so the first read
makes the right length, or 0 from the first byte alone, or one of at least 256 times a data
byte. `WholeInv`: if nothing is cut, the reader is at the beginning of a message or of its
data, all of which has arrived. `BacklogSmall` is needed for the third kind of length: with
thousands of bytes unread, a misread length could find that many and take the pieces of several
messages for one. Lemma `MessagesThatFit` says that 31 unread messages of any size are never
too many. `Backlog` gives as much for the first four moves of a connection. Later its bound is
larger, since it allows for messages that are late again and again, so there `BacklogSmall` is
a condition on the network and not a consequence. The run `framing` never comes near: all of
its messages together are 15 bytes.

The last part of `InfraProofs` is about `Config`, for any finite set of zones, any bound on
hosts, and every request:

| theorem | statement |
|---|---|
| `PlanIsLegal` | for every accepted request the launch plan meets `InfraAssumption` |

It connects the two parts of the model: the constants for which the theorems about `Infra` hold
are what the code makes of any request it lets through. It rests on the checks of the zones and on
`PlacementMap` having a group for every zone with a subnet, which needs a bijection to exist,
hence the assumption that AWS has finitely many zones.

Every safety property of every passing run is proved. Only model-checked is liveness
(`CoordinatorCompletes`, `EveryoneHalts`, `EveryMessageArrives`, `RunEnds`, `HostsReleased`,
`ReturnsUnlessBootFails`): the provers have no rule for `ENABLED`, so liveness under fairness
stays with TLC. The inductive invariants were checked with TLC too, on the instances of the
runs (of `BInv` the parts that have no unbounded quantifier, and `BudgetTable` for a few polls).

## 5. Not modelled

* The loss of the orchestrator's host, which leaves workers waiting for ever until the hosts
  shut themselves down; of the other hosts it is modelled (`Vanish`).
* Full socket buffers; that they do not fill is `Backlog`. `Russula` reads a message as
  a whole: what happens when TCP cuts one is in `Framing`, on its own, and not
  followed into the protocol, where a `BadMsg` is one more fatal error.
* Children of the netbench collector, which the code does not kill either.
* The text of scripts: a script's exit status is that of its last `mv`. A build of
  russula that fails is modelled (`broken`), and so is a copy to S3 that fails (`results`); a
  driver whose build failed is not, since all the
  code sees of it is a collector that ends early, and its exit status is not looked at.
* An empty list of invocations, which the code takes for complete.
* AWS calls that take effect although they report an error.
* Of the command line its parsing and the probes for `s2n-netbench`, `aws` and credentials; the
  lookups of the AMI and the instance profile, which happen before anything exists.
* The local coordinators of `russula_cli`, a manual test aid.
* Driver build commands (shell text), the dashboard, the report and S3 (uploads: that a
  failed one aborts the run is part of `SetRouting` and `RunPanics`), errors and event
  counters (formatting and logging; which errors are fatal is in `Panic`).

## 6. Plan

1. *(done)* Russula with both protocols, its abstract specification and proofs; SSM;
   infrastructure and its proofs.
2. *(done)* Framing over a byte stream; the composition of a driver pair; the
   configuration checks; the proofs of what the callers of both protocols rely on.
3. *(done)* Proofs about `Ssm`, from an invariant that ties markers and waits to invocations;
   about `Framing`, with the refinement of `Channel`; about `Config`; and about the
   failures of either protocol and of a pair, from the state of the connections.
4. *(done)* `Backlog` and `BacklogStaysSmall`, from an invariant that bounds what either end of
   a connection can still make the other send.
5. What would come next: the drivers' builds and their exit status, an empty list of
   invocations, and a stream that is cut under the protocol, with full buffers.
