# TLA+ models of ovn-scale-test

`rally_ovs` is a Rally plugin that measures OVN at scale. It deploys many OVS
"sandboxes" on a few farm hosts, drives the northbound database of an OVN
controller with `ovn-nbctl`, binds the logical ports it created to sandboxes
with `ovs-vsctl`, and waits until OVN has them up. Everything it does to a host
is a command sent over ssh. A measurement means something only if the program
did what it reports: the hazards are lost, repeated and half-done commands,
objects shared by iterations that run at the same time, and records of the test
bed that no longer agree with the hosts.

This directory holds TLA+ modules translated from that code, the TLC
configurations that check them on small instances, and TLAPS proofs about them.

    tlc -workers 2 -config NbScenario.cfg MCNbScenario     # a run
    tlapm NbScenario_proofs.tla                            # a proof

`PROJECT.json` lists the components, the runs, the source lines of every
definition that models code (`map`), the hazards and the findings.

## 1. The system and its parts

Paths are below `src/rally_ovs/plugins/ovs/`.

| Component | State | Operations | Talks to |
|---|---|---|---|
| ovn-nbctl client: `_OvnNbctl` in `ovsclients_impl.py` | `batch_mode`, `cmds`, the daemon's socket | `run`, `flush`, `enable_batch_mode`, `sync`, and one method per ovn-nbctl command | the northbound database, over ssh |
| northbound scenario methods: `ovnclients.py`, `scenarios/ovn.py` | loop variables, `flush_count`, handles (`lswitches`, `lports`, ...) | create, delete, list and connect switches, ports, routers, ACLs, port groups, address sets; `_wait_up_port` | the client |
| northbound scenarios: `scenarios/ovn_nb.py`, `ovn_network.py` | none of their own | sequences of methods | the methods |
| network policy scenario: `scenarios/ovn_nb.py` (`create_routed_lport`) | the numbering of ports over iterations | port groups, address sets and ACLs shared by iterations | the methods |
| port binding: `scenarios/ovn.py` (`_bind_ports*`, `_ping_port`, `_cleanup_ovs_internal_ports`) | `lport_sbs`, `context["ovs-internal-ports"]`, the start of a wait | bind, configure, ping, remove | farm clients |
| farm clients: `SshClient`, `OvsSsh`, `OvsVsctl`, `OvsOfctl` in `ovsclients_impl.py`; the cache in `ovsclients.py` | sandbox, mode, commands: one client per farm | `set_sandbox`, `run`, `flush`, `enable_batch_mode` | `ovs-vsctl` and the shell of a farm |
| sandbox scenarios and the resource: `scenarios/sandbox.py`, `ovn_sandbox.py` | the "sandboxes" resource of a deployment | create, delete, start, stop | `ovs-sandbox.sh`, Rally's database |
| `ovs-sandbox.sh` in `deployment/engines/ovs/` | a directory: pidfiles, sockets, `sandbox.rc`, an address | create, `--start`, `--stop`, `--cleanup` | OVS and OVN daemons |
| address plan: in the scenarios above | none: arithmetic | first address, offsets, sizes | names of switches, ports and sandboxes |
| ovn-nbctl daemon: `start_daemon`, `context/ovnnbctl_daemon.py` | a process, the socket the context passes on | start, restart, stop | the client |
| contexts: `context/` | what the iterations find in `context` | `setup`, `cleanup` | scenarios' methods |
| deployment engines and providers: `deployment/` | deployments, resources, credentials | `deploy`, `cleanup` | `ovs-sandbox.sh --controller`, `install.sh` |
| ovn-fake-multinode: `scenarios/ovn_fake_multinode.py` | the emulated nodes | add, connect, wait for chassis | `ovn_cluster.sh` |
| IGMP: `scenarios/ovn_igmp.py`, `mcast-tester.c` in `samples/` | rounds of groups, input files, testers | configure, start and trigger testers, poll for flows | the shells of the farms, `ovn-sbctl` |
| southbound and OpenFlow clients | none | `count-lflow`, `dump-flows` | read only |
| command line: `cli/commands/deployment.py` | none | create, recreate, destroy | Rally, deployment engines |
| parsers, host scripts, ansible, docker, CI | none or text | — | — |

What makes it hard, by component:

* **ovn-nbctl client.** In batch mode nothing is sent until `flush()`; a mode
  left on, a flush forgotten or an exception in between loses commands, or
  sends fragments (` -- lsp-add ...`) to a shell that ignores them. The end of
  `ssh.run()` is ambiguous: after a timeout the transaction may have been
  executed.
* **Scenario methods.** Each has its own flush counting (`flush_count` from
  `batch` down, or `index % batch`), with boundaries at the end of the loop.
  They return handles made before anything was sent.
* **Several iterations.** Rally runs them serially or in parallel, against one
  database. Names are derived from arguments, so iterations can ask for the
  same ones, or rely on another iteration having created what they add to.
* **Farm clients.** All the sandboxes of a farm share one client, which works
  for the sandbox it was last given, and holds its batch.
* **`ovs-sandbox.sh`.** Daemons exit later than they are told to, or hang; the
  script goes by their pidfiles.
* **The resource.** It is read, changed and written back as a whole, by
  iterations that may run at the same time, apart from the sessions that
  change the host.
* **Deployment.** A controller and its farms are deployed host by host, each
  with a record, something started and a credential registered; a command that
  breaks off leaves what it has done for the next one to find.
* **Contexts and the daemon.** What an iteration is given in `context` was read
  or printed once, at the start. A daemon may be left over, and a start or stop
  may break off.
* **ovn-fake-multinode.** Methods compute node, sandbox, network and external
  host from one index each in its own way; waits end in silence.
* **IGMP.** Rounds of joins are cut across switches; testers are told of a
  round by a signal sent to whatever matches their name, and may be behind.

## 2. Modules and how they correspond to the code

### Northbound database

* **NbDatabase** (external: ovn-nbctl and the database). An invocation is a
  transaction of commands: all or nothing, in order. The contents of an object
  are the numbers of the commands that wrote it, which is all the properties
  need: 1 added it, 2, 3, ... set its columns.
* **NbctlClient** is `_OvnNbctl` for one client per iteration: `RunBatched` and
  `RunDirect` (the two paths of `run()`), `Flush`, `EnableBatchMode`.
  `SshRun` has the four ends of `ssh.run()`: answered, refused by ovn-nbctl,
  connection down, executed but the answer lost. `self.cmds` is emptied only
  when it did not raise. Fragments that go to the shell by themselves end up in
  the history variable `lost`.
* **NbMethods** gives each method of `OvnClientMixin` and `OvnScenario` as data:
  the mode it asks for, the commands of each loop item, its batch, when its
  loop flushes, whether it calls `sync()`, what it returns and what it deletes.
* **NbScenario** interprets them: `Call` (the method's head), `RunCommand`,
  `EndItem` (flush counting), `SyncFlush` and `SyncRun` (`sync()`), `Finish`
  (the last flush and the return to direct mode), `Return`. One action per call
  to the client, so iterations interleave at every command.
* **NbPrograms** has the scenarios of `ovn_nb.py` and `ovn_network.py` as
  sequences of methods.
* **NbLedger** is the abstract promise: *batching is invisible*. The database
  executes the commands an iteration asked for once, in order, up to the end of
  some item, and an iteration returns only when all were executed.
  **NbRefinement** maps NbScenario to it (`executed <- committed`).
* **NbOwnership** says which scenarios keep to objects of their own:
  `SelfContained` (what an iteration deletes it has created itself and not
  deleted yet, and it gives up the handle of what it deletes), `NamesApart` (no
  two create objects of the same name). They are hypotheses of theorems; the
  code does not enforce them.

### Network policies

* **NetworkPolicy** is `create_routed_lport` with `create_acls`. An iteration
  is the list of calls it makes, each one transaction in direct mode:
  `Executed`, `Refused`, `Lost` (the connection breaks before or after the
  execution), `Return`. Index arithmetic uses integer division, as the code
  does under the Python 2 it is written for. Iterations are parallel and
  numbered from 0.

### Farms

* **FarmClients** has the client objects of `ovsclients_impl.py` (`set_sandbox`,
  `enable_batch_mode`, `run`, `flush`), one ovs-vsctl and one ovs-ssh per farm,
  and one iteration of `create_and_bind_ports`. The phases `bind`, `vm`, `wait`
  and `cleanup` are `_bind_ovs_port`, `_bind_ovs_internal_vm`, `_ping_port` and
  `_cleanup_ovs_internal_ports`, each expanded to its list of client calls when
  it is entered. What commands do to the hosts is a set of facts about ports
  (`port`, `iface`, `netns`, `link`, `up`). A shell script runs all its lines
  and has the status of the last; one `ovs-vsctl` is a transaction.

### Sandboxes

* **SandboxScript** is `ovs-sandbox.sh` for one sandbox. One action per daemon
  the script works on: `AskExit`, `KillNow`, `WaitDone`, `WaitTimeout` and
  `SkipExit` are `app_exit`; `RunService`, `BindOrRecord` creation;
  `AppStart`, `SkipStart` `app_start`; `RemoveBox` the end of `do_cleanup`.
  `Call` is a call on the databases in the middle of a creation (`ovsdb-tool`,
  `init_ovsdb_server`, `ovs-vsctl`), and `RunFails` the exit of `run()` at any of
  these or at a daemon. `main` says that the sandbox's address is the first one of the
  device, which `ip_addr_del` leaves there. `Exits` and `Crash` are the daemons'.
  The constants give the orders of daemons and calls for a farm and for a
  controller sandbox.
* **SandboxRegistry** is the layer above: iterations of
  `create_sandbox`, `create_and_delete_sandbox` and `delete_sandbox`, one action
  per ssh session and one for each read and each write of the resource
  (`AddRead`, `AddSave`, `DeleteRead`, `DeleteSave`). `Save` writes back what was
  read, with the iteration's own change. The dict of new sandboxes gets all
  those of the farm added and is what `_create_sandbox` returns (`Returned`), so
  `create_and_delete_sandbox` deletes all sandboxes of its farm. A line of a
  session leaves a sandbox, a part of one, or nothing (`LineLeaves`), and is listed
  all the same unless it is the last. Iterations may share a farm.

### Addresses

* **AddressPlan** is the arithmetic on `start_cidr`: the networks of the
  switches (`LswitchCidr`), the gateway (`GwIp`), the size check and the
  addresses of ports (`BigEnough`, `PortIp`). Addresses are numbers. It has no
  state and no run; its theorems are at the end of `NetworkPolicy_proofs`.

### Test beds

* **Deployment** is `deployment create`, `recreate` and `destroy` with
  `OvnMultihostEngine` and the engines of the hosts below it. Per host:
  `NewRecord`, `Install`, `Start` (the controller's `ovs-sandbox.sh`),
  `Register`; and for cleanup, last host first, `SkipScript`, `RunScript`,
  `ScriptFails`, `ControllerUnreachable`. Its state is what Rally's database
  has (`record`, `subs`, `registered`, `boxes`) next to what runs on the hosts
  (`running`).
* **FakeMultinode** is `ovn_fake_multinode.py`: an iteration is the list of the
  calls its scenario makes, each one session (`AddCentral`, `AddChassis`,
  `AddLocalnet`, `AddExternalHost`, `ConnectChassis`, `DelChassis`,
  `PollChassis`) or one step of `_create_routed_network` (`ConnectGateway`,
  `BindPort`). `NodeOf`, `SliceOfList` and `Network` are the different ways in
  which the methods get from an index to a node, a sandbox and a network.
  `cluster` is what exists on the nodes and in the databases; `Registers` is
  ovn-controller's.
* **Testbed** composes the two. A workload goes through the contexts in order
  (`SetupMultihost`, `SetupSandbox`, `SetupDaemon`, `SetupDatabase`), runs its
  iterations and cleans up (`Cleanup`); between workloads the test bed may be
  destroyed or recreated. The sandboxes that `create_sandbox` leaves in the
  resource are those the next workload's context finds, and those a destroy
  must reach. `SetupDaemon` and `Cleanup` are `start_daemon` and `stop_daemon`:
  a daemon is the number of its start.

### Multicast

* **IgmpTest** is `igmp_scale` after its networks are made. `BuildConfigTesters`
  is the loop that cuts the joins into rounds (`plan`); `Configure`,
  `StartTesters` and `TriggerTesters` are one session per host; `PollFlows` is
  `_run_mcast`; `Join` is a turn of the loop of `mcast-tester.c`, with its
  semaphore `sem`. `Matches` is the pattern by which signals find processes.

### Conventions

The `MC*` modules only give constants their values. Operators named after a
mistake (`LastFlushForgotten`, `PidFileIgnored`, `CreatesOnlyFirst`,
`EmptiedAfterwards`, ...) stand just before the definition they could replace and
are used by nothing: putting one in its place shows that a property notices
(`mutants` in `PROJECT.json`). History variables (`issued`, `committed`, `lost`,
`excused`, `overlapped`, `tried`, `unmade`, `overwritten`, `script`, `odd`,
`waited`, `gaveUp`, `cutOff`) are read by no guard, with one exception: `tried`
is also the program's own list of the sandboxes it adds to the resource.

## 3. The runs

Deadlock is checked where the specification says how it ends
(FarmClients). The others have `CHECK_DEADLOCK FALSE` because a task ends when
its iterations have, the caller of the script and the operator of a test bed
when they have given their commands, and a multicast test when all have joined.

### `nb_scenario` (19,608 states)

Two iterations with objects of their own run scenarios that between them call
every method: switches, ports, ACLs and their deletion; a cluster router with a
routed network and a gateway; port groups and address sets. Loops of up to
three items run against batches of 1, 2 and 3, so that a loop ends both on a
flush and between two. Every call to ssh may end in each of its ways. Larger
loops repeat these cases; two iterations are enough because their objects are
disjoint (sharing is `nb_shared`).

* `TypeOK`.
* `CleanBetweenMethods`: a method finds the client in direct mode with nothing
  waiting. The next one may read an answer from `run()`.
* `NothingLost`: no fragment is sent as a line of its own.
* `ExecutedOrWaiting`: what was executed, followed by what waits, is what
  `run()` was called with; after an exception a prefix of it was executed.
* `HandlesComplete`: a handle stands for an object in the database with every
  column already asked for, though handles are made before the answers.
* `ReturnedIterationLeavesItsHandles`: when an iteration returns, what it
  created is there exactly if it still has the handle.
* `AnswersCoverAllIssued`: a query or `sync` is answered on top of everything
  asked for before.
* `ImplementsLedger`: the refinement of NbLedger.

### `nb_shared` (4,640 states)

Three iterations whose switches have the same two names (one `start_cidr`): two
create and delete, one creates and lists, with batch 1.

* `OneOwner`: no two iterations hold the handle of one object.

### `sandbox_controller` (273,257 states)

Three commands, graceful or not, on a controller sandbox, whose database servers
get another control socket. Its daemons exit at any time after they were told
to, hang, or fail to start, one may be killed from outside, and a creation may
exit at any call. Three commands allow create, stop and start, and two creations
one over the other with a stop after them, which is what an old process
exiting under a new one's pidfile takes. Daemons of one sandbox do not interact,
so one crash is enough. A farm sandbox differs in its daemons and their order,
and its sockets keep their names; the run `sandbox_restart` has one, and the safety
properties are proved for every order.

* `TypeOK`.
* `OverlapOnlyAfterKill`: two processes of one daemon run together only if the
  first was killed without waiting for it.
* `AddressReleased`: an address is on the device only with its sandbox, unless
  it is the first one there, which `ip_addr_del` skips, or a creation failed between
  `ip_addr_add` and `sandbox.rc`.
* `WholeAfterStart`: after `--start`, the daemons stopped gracefully and in time
  run again, and are those of the pidfiles.
* `DownAfterStop`: no daemon is left that was not told to exit.
* `AskedIsGoneOrKilled`, `StoppingEnds` (liveness): what accepted an exit and
  hangs is killed; a stop, a cleanup, and the cleanup a creation begins with, end,
  whatever the daemons do. Of the rest of a creation, and of a start, this is
  not so: see section 4.

The exceptions are in the statements (`excused`, `overlapped`): they are what
the code really does, not what one would like. The `sandbox_restart` finding is
the price of one of them.

### `sandbox_registry` (538,406 states)

Two creations of two sandboxes each, on the farms numbered after them, one after
the other. At the same time as the second, on its farm, another iteration creates
two and deletes, and a third deletes by tag on both farms. When they are over a
last one creates three on this farm, in sessions of two, two of them at
addresses used before, and deletes. Any line may fail, before it has done
anything, after it removed what was there or later, and any connection may
break. Three against two gives a full and a short session; three iterations at once is
what it takes for a stale entry to be overwritten by a copy that is itself stale;
more sandboxes or sessions only repeat what two of each do.

* `TypeOK`.
* `AmountHonoured`: the script was run once for each of `amount` consecutive
  addresses, whatever the batch.
* `AddressOnOneHost`: a tunnel address is never on two hosts.
* `RegistryMatchesHost`: a sandbox that no iteration is at, and that none left with
  an exception, is listed if and only if it is on the host. Two kinds are
  excepted: entries that an iteration has overwritten with what it read before
  another changed them (`overwritten`), the update that the read-modify-write
  loses; and lines that failed, left nothing and are listed because a later line of
  their session did not fail (`unmade`). What this leaves is that every wrong
  entry has one of these two causes: each read-modify-write does its own part,
  and no sandbox that merely exists is forgotten. Sandboxes of iterations that
  raised are left out: they may be on the host and in no resource.
* `DeletedIsGone`: what a deletion that returned chose is on no host, nor listed but by
  an entry that was overwritten so, until an iteration that comes after it
  begins.

### `farm` (5,269 states)

Three sandboxes, two on one farm, and 1 to 4 ports: fewer than the sandboxes
(each port gets a random one), as many, and one more (slices of two). There are
two setups: internal ports on farms in containers, pinged with a limit of 2
seconds and removed; and ports of sandboxes with an Open vSwitch of their own.
Any ssh call may fail before or after it took effect.

* `TypeOK`, which includes that every port falls to a sandbox of the list.
* `BoundWhereChosen`: each port is on the Open vSwitch of its sandbox and on no
  other, though sandboxes share a client.
* `ContextPortsConfigured` (action): each step of the binding and of the wait
  leaves what is in the context completely configured, also the step at which a
  call fails and the iteration raises.
* `AtMostOneForgotten`: however the iteration ends, the context has every port
  with a namespace on a host except at most one, the one at which a call failed.
  No cleanup finds that one.
* `AttemptSendsOnePing`: failed pings do not pile up in the client.
* `NothingLeft`: after the cleanup, nothing is left of internal ports.
* `WaitEnds` (liveness): the iteration ends, also when a port never answers.

### `network_policy` (23,887 states)

Three parallel iterations on two switches, policies of two ports and name
spaces of three: the first iteration creates everything, the second adds to
everything, the third does one of each.

* `MembersOfAllGroups`: a returned iteration's ports are in their four groups.
* `EnforcedAfterCreators`: once the creators returned too, those groups have
  all their ACLs. Nothing is said of groups whose creator failed half way: they
  stay as they are, and later iterations add to them.
* `RefusedOnlyWithoutCreator`: a call is refused only to an iteration ahead of
  the creator of a group, or behind one that failed. With the serial runner and
  no failures nothing is refused.

### `testbed` (374,916 states)

A test bed of four farms on which up to three commands are given, in any order
that Rally accepts, with one failure anywhere in a command or context and one in
an iteration. On hosts of method "sandbox" its workloads are one with an
ovn-nbctl daemon, four parallel creations of sandboxes, and one with a daemon
again. On "physical" hosts they are those of
`samples/tasks/scenarios/ovn-network/osh_workload_incremental.json`: nodes are
deleted one by one, added in one batch, then connected by two iterations of two,
with gateways for the networks of the only router; nodes 1 and 3 may be left over from an earlier
task, with or without their records in the southbound database. Two iterations
of two are what it takes to tell an index in a batch from an index in the list;
four farms keep indexes from wrapping around to the same node.

* `TypeOK`.
* `DestroyReachesHosts`: between commands, what runs on a host has a record and
  a credential, so that a destroy stops it; with no test bed there are no
  records. The exceptions (`excused`): the controller whose start broke off
  before its credential was registered, and hosts whose cleanup failed. These
  are real gaps of the code (see below); the property guards all the other
  sequences of commands and breaks.
* `DaemonMatchesTask`: iterations with a socket have that of the running daemon;
  a daemon outlives its workload only if the session that started or stopped
  it broke off.
* `PlacedWhereConnected`: the node connected and waited for under an index, the
  sandbox of its network's gateway and port, and the external host are on one
  farm.
* `NetworksOnRegisteredNodes` (action): a network is put on a node that has
  registered, or whose wait used up its polls, unless records of an earlier
  cluster remain. That the wait gives up in silence, and takes an old record for
  the node, is in the statement and not judged; what it guards is the order of
  connecting, waiting and placing, and that all four speak of one node.
* `TasksEnd` (liveness): every command and workload ends.

### `igmp` (140,786 states)

Two switches with four ports each, on two hosts, six joins per switch in
rounds of seven: the first round ends in the middle of the second switch's
joins, and in the second the ports of the first switch have no group. The ports'
names are `lp_42.1.1.1` to `.4` and `.9` to `.12`; on the first host `.1` and
`.12` live together, so the signals of one reach the other. The flows that may
be missing are 1 and not 10, the polls 2 and not 60, so that a wait can end
each way.

* `JoinsFollowThePlan` (action): a tester joins a round after it was triggered,
  unless another name on its host is part of its own, and joins what the
  loops assign to its port. (The dots of the pattern given to grep match any
  character; no two names of this instance differ only there.)
* `EveryoneJoins` (liveness): the scenario ends, and unless a session failed
  every tester goes through all rounds in which its port has a group, also when
  waits gave up on it.

### Runs that end in a violation

* `sandbox_restart` / `StartedAgain`: create, stop and start without
  `--graceful`. Stop kills and does not wait; start sees the old pidfiles and
  starts nothing; the daemons then exit. `stop_and_start_sandbox`, whose default
  is not graceful, says it starts the sandboxes up again
  (`scenarios/ovn_sandbox.py:234`).
* `sandbox_own` / `DeletesOnlyItsOwn`: on a farm that already has sandboxes,
  `create_and_delete_sandbox` deletes them too. `_add_sandbox_resource` adds them to the
  dict of new ones, and `_create_sandbox` returns that dict
  (`scenarios/sandbox.py:82`, `:193`), while the docstring has it "create a set
  of sandboxes then delete them" (`scenarios/ovn_sandbox.py:125`).
* `farm_physical` / `BoundWhereChosen`: on farms of install method "physical"
  without a container, `OvsVsctl.run()` batches and `flush()` sends an empty
  command (`ovsclients_impl.py:578`). No port is bound and nothing is reported.
* `network_policy_batch` / `AddressesOfMembers`: with a batch of two, the address
  sets of a policy get the first port's address only
  (`scenarios/ovn_nb.py:203`).

Seen while reading, and modelled as it is:

* the controller is started before its credential is registered
  (`ovn_sandbox_controller.py:117`): a start whose connection breaks after the
  script has run leaves daemons no destroy stops;
* the cleanup of a farm logs exceptions and forgets the host;
* `ip_addr_del` skips the first address of the device ("skip main ip",
  `ovs-sandbox.sh:359`), also when `ip_addr_add` had put it on a device that had
  none: that address outlives its sandbox;
* a creation waits for the socket of its database server without a deadline
  (`ovs-sandbox.sh:614`), and its `ovs-vsctl` calls have none either; what ends
  it is the time limit of the ssh session;
* two iterations that change one farm's resource at the same time lose an update
  (`scenarios/sandbox.py:75`); nothing says that this is supported;
* a chassis wait is satisfied by the record an earlier cluster left;
* the gateway of a network can have the address of its last port
  (`OnlyLastPortMeetsGateway` says exactly when);
* the signals for `lp_x.1` also reach `lp_x.10` (`ovn_igmp.py:140`), which then
  joins its later rounds early.

Seen while reading, and not modelled: `_cleanup_mcast_tests` at the start of
`igmp_scale` does nothing, since there are no connections yet, and its end does
not call it, so testers are never killed; `ovn_igmp.py` uses `utils` without
importing it; `_restart_daemon` has no caller; `create_port_group_acls` passes the key
`" action"` with a leading space (`ovn_nb.py:82`), so that ACL gets the default
action; `_port_group_del` uses an undefined name (`ovn.py:288`);
`_list_oflow_count_for_sandboxes` indexes the sandbox's name instead of the
sandbox (`ovn.py:641`).

## 4. Fairness

* **SandboxScript**: weak fairness of the steps of stopping (`StopStep`). They run
  `kill`, `rm`, `ip`, and `ovs-appctl` with `--timeout`, and their wait has a
  deadline of 15 seconds. None of the steps of starting, which may hang at any
  call on a database, nor of the daemons, which may never exit, nor of the
  caller.
* **FarmClients**: weak fairness of the iteration's steps and of the clock
  (`Second`). That a ping succeeds is not assumed: one that fails is a step too.
* **Testbed**: weak fairness of `Progress`, the steps of the command or workload
  in progress. Python goes on, sessions have time limits and polls are counted.
  None of new commands, of new workloads or of the registration of nodes, which
  may never happen.
* **IgmpTest**: weak fairness of the scenario's steps, and of the testers' (the
  kernel runs a process whose semaphore was posted; every step uses one up).
* **NbScenario**, **SandboxRegistry**, **NetworkPolicy**: none; only safety is
  checked.

## 5. What is proved

The proofs are in the seven modules `*_proofs` and in `SequenceLemmas`. They
hold for every value of the constants that meets the named assumptions, which
TLC evaluates in the runs. Some theorems have a hypothesis of their own
(`ASSUME OneFarmEach PROVE ...`): a condition on how the scenarios are used, which
the code does not enforce. `MCFarmClients`, `MCTestbed`, `MCNbScenario`,
`MCNbShared` and `MCSandboxRegistry` state whether their instance meets it, so that TLC evaluates those too.

**SequenceLemmas** has what the other proofs need of sequences: lengths,
elements and prefixes of a concatenation of sequences (`FlattenSeq`), and the
number of sequences without repetition. `FlattenSeq` is a recursive function.
Its lemmas are by induction over a *set* of numbers (`AllNumbers`, `LeastNumber`:
from the well-foundedness of `<` on `Nat`), which unlike the library's induction
rules takes no operator.

**NbScenario**, from `DatabaseAssumption` (what an object belongs to belongs to
nothing else and is no ACL) and `ProgramAssumption` (programs are sequences of
methods, loop items are not empty): any number of iterations, any methods in any
order, any batch, any failures.

* The inductive invariant is `IInv == TypeOK /\ LoopInv /\ ModeInv`. The
  properties alone are not inductive: that nothing waits between methods
  follows only from what the last flush did, which depends on the mode the
  method asked for, which is `M(it).mode` only while `method[it]` points into
  the program. `LoopInv` says where the loop variables point; `ModeInv` says
  that batch mode is on only inside a method that asked for it, and that in
  direct mode nothing waits, unless an exception ended the iteration.
* `Invariance` (`Spec => []IInv`) has one lemma per action, which rest on
  lemmas about what `SshRun`, `Run` and `Flush` do. `TypeCorrect` and
  `CleanBetween` follow.
* `Lossless` (`[]NothingLost`) and `ExecutedInOrder` (`[]ExecutedOrWaiting`) are
  proved by a second induction on top of `IInv`: a flush moves `cmds` to the end
  of `committed`, a batched run extends both sides of the equation.
* `AnswersCover` (the action property `AnswersCoverAllIssued`) follows from both:
  in direct mode nothing waits, so a call that is answered at once has everything
  asked for before it in `committed`.
* `BatchingInvisible` is the refinement, `Spec => Ledger!Spec`. `Cursor` says
  that what `run()` was called with is the concatenation of the methods'
  commands up to where the loop variables point, so that a flush, which comes at
  the end of an item, commits up to one of the ledger's stops. There is one lemma
  per action, and `FlattenSeq` needs no more than SequenceLemmas.
* `HandlesHaveOneOwner` (`OneOwner`) and `HandlesAreComplete`
  (`HandlesComplete`) are for scenarios that are `SelfContained`, as those of
  `ovn_nb.py` and `ovn_network.py` are that delete only what they created; their
  iterations may ask for the same names. `Progress` says how far an iteration
  must have got, and what it holds back, where a handle is held or given up;
  `Begun`, that what was executed is the beginning of what the scenario asks
  for. `OwnInv` then says that what an iteration created and did not delete
  (`Live`) is in the database with all it wrote (`Holds`), and that no two
  iterations have an object in common. The argument is in the lemma `Foreign`:
  the first command of a transaction to hit an object of another iteration would
  create something that exists, which the database refuses, or delete something
  that its own iteration had created before, which is then live for both.
* `ReturnLeavesHandles` (`ReturnedIterationLeavesItsHandles`) needs `NamesApart`
  too: otherwise a name given up by one iteration may be created by another.
  `GoneInv` says that what an iteration created and deleted is not there.

**NetworkPolicy**, from `PolicyAssumption`, for any numbers of iterations,
switches and ports, any batch, policy and name space, and any failures:

* `AddressesDistinct` (no two iterations give ports the same address; by cases
  on whether they have the same switch, when the starts of the two slices are a
  batch or more apart), `IndexesDistinct`, and `OneCreator` (of the ports of one
  policy or name space exactly the first has its iteration create it).
* `TypeCorrect`, `Members` (`MembersOfAllGroups`) and `Enforced`
  (`EnforcedAfterCreators`), from `PolicyInv`. An iteration that has not failed
  has each call of its list either before it or executed (`LeftOrDone`), and an
  executed call keeps its effect (`Achieved`); `HangsTogether` says that groups
  with members or ACLs exist, `CreatedBySomeone` who created them. Which calls
  the lists have is a matter of lemmas on `PolicyCalls` and `PortCalls`.

**FarmClients**, from `FarmAssumption`: any sandboxes, farms, ports and setups,
and a failure at any call.

* `SliceHasSandbox` and `SliceIsBounded` (the slices of `_bind_ports` give every
  port a sandbox of the list, and no sandbox more than `lport_per_sandbox`).
* The inductive invariant is `IInv == TypeInv /\ OnTrack /\ AtHome /\ PhaseInv`.
  A property such as "the ports are bound when the phase ends" says nothing of
  the middle of a phase, where some are bound, some are queued in the batch of a
  client that serves several sandboxes, and some are to come. `OnTrack` says that
  what is left to do is the end of the phase's program, so that an index into
  the program is the position of the iteration. `PhaseInv` then says at each
  position which client has which sandbox and mode (`Prepared`), what waits in
  its batch (`Queued`) and what took effect (`Delivered`); during `wait` the
  script holds at most the one ping, and during `cleanup` facts go away in
  order. `AtHome` says that facts of a port are only where its sandbox is.
* The steps are proved over a general position: lemmas on the shape of the four
  programs (`BindShape`, `VmShape`, ...), which follow from SequenceLemmas because
  the programs are concatenations of one part for each sandbox or port.
* `TypeCorrect`, `OnePingPerAttempt` (`AttemptSendsOnePing`),
  `StoredPortsConfigured` (`ContextPortsConfigured`, the step that raises included) and `CleanupLeavesNothing`
  (`NothingLeft`) need no more. `BoundOnItsSandbox` (`BoundWhereChosen`) has the
  hypothesis `SwitchEverywhere`: no farm is of install method "physical" without a
  container. Without it the run `farm_physical` has the counterexample.

**SandboxScript**, from `SandboxAssumption` (the orders list the daemons, the
creation order once each, and the address before `sandbox.rc`): any daemons,
any number of commands, crashes and failures. All five safety properties of the
runs are proved, by inductions on top of each other:

* `TypeCorrect`: with `TypeInv`, pidfiles name processes that were started.
* `AddressIsReleased`: `LoopInv` says that what is left of a creation has the
  address before its record; `AddressInv` that an address not yet recorded, and
  not the first of the device, means the record is still to do. The property has
  its two exceptions: the address that `ip_addr_del` skips, and a creation
  that broke off in between.
* `NoDaemonTwice`: in `OverlapInv`, the only process of a daemon is the one in
  its pidfile, unless it was killed, crashed or failed, and a creation finds no
  pidfiles of the daemons it has yet to start.
* `StoppedIsDown`: in `DownInv`, while a stop goes on a daemon is down or still
  to be told; and (`OnlyOne`) a daemon that is up has one process, the one in
  its pidfile, unless it was overlapped.
* `StartedIsWhole`: in `WholeInv`, a pidfile is that of a process that is up,
  unless the daemon was killed, crashed or failed, and a start has each daemon
  done or to do.

**SandboxRegistry**, from `RegistryAssumption`: any tasks, iterations and farms,
however the sessions end.

* `TypeCorrect` and `AmountIsHonoured`: the invariant `Loop` says that the
  addresses tried are the first `done` ones, and that the create loop goes on
  only while `done` is less than the amount.
* `ResourceIsTrue` (`RegistryMatchesHost`) and `DeletedStaysGone`
  (`DeletedIsGone`) are for iterations that may work on one farm at the same
  time, as in `sandbox_registry`. Their hypothesis is `InTurn`: a creation that
  repeats sandboxes of another (one that does not come after it) has the farm
  for itself. Two creations of one sandbox at a time are two scripts
  in one directory, and nothing holds then.
  `PlaceInv` says on which farm each iteration is and may still work. `FreshInv`: of a sandbox
  that only one iteration creates nobody has anything before that iteration saves, neither
  the resource, nor a copy to be written back, nor a deletion. `MakingInv` and
  `StrikingInv`: what an iteration is adding to the resource is on the host or
  left nothing, and what it is removing is not on the host. `MatchedInv` then says of each
  sandbox whose entry is not stale and at which no iteration failed (`Sound`)
  that host and resource differ only by what an iteration is making or striking; and
  `GoneInv` follows what a deletion chose through its session, its read and its
  save.
* `NothingOverwritten`: under the stronger hypothesis `OneAtATime` (iterations
  that may work on one farm are one after the other) no entry is ever
  overwritten with a stale one. So the exception `overwritten` of the two
  properties is the lost update of concurrent iterations and nothing else.
* `TunnelEndpointsDiffer` (`AddressOnOneHost`) has a hypothesis too,
  `AddressesApart`: iterations that create on different farms have different
  addresses. `NumberedFarmsApart` shows it of iterations of one workload that
  number their farms; what an administrator starts by hand is up to the
  administrator.

**Testbed**, from `DeploymentAssumption`, `WorkloadAssumption` and
`TestbedAssumption`: any number of farms, commands, workloads and failures, with
the whole composition as the next-state relation.

* `DestroyReaches`: `DestroyReachesHosts` holds between commands only; the
  inductive `Reachable` says what runs in the middle of one, namely on
  registered hosts or the one just started, and that a registered host has a
  record.
* `DaemonMatches`: `DaemonInv` follows the socket through the phases of a
  workload, down to what is left when it ends.
* `TypeCorrect`: all the variables of the composition, from those two and the
  types of the calls an iteration has left.
* `AllOnOneNode` (`PlacedWhereConnected`) and `OnlyOnRegistered`
  (`NetworksOnRegisteredNodes`), under the hypothesis `OneFarmEach`: there is a farm for
  each index, as in the sample tasks. The sandboxes of the list are then the
  farms in their order, so that the four ways to get from an index to a node
  agree. This takes three invariants. `RunInv` says that what an iteration has
  left is the end of its scenario (`OnTrack`) and that of two calls about one
  node the earlier is done. `FarmInv` follows the resource from the creation of
  the sandboxes over the workloads to the context that reads it. `NetInv` says
  that a network is only on nodes that were waited for and whose external host
  has its index.

**IgmpTest**, from `IgmpAssumption`: `TestersFollow`, the part of
`JoinsFollowThePlan` that does not need what the loop over joins computes: a
tester joins the groups the plan has for it in that round, and, with a name of
its own, only after the round was triggered. The invariant counts: rounds joined
plus signals waiting are at most the signals sent to its host (`Signals`), and
files agree with the plan as far as they are written (`FilesOf`).

**AddressPlan**: `PortsInNetwork` (where the size check passes, no port is
outside its network or on its last address), `OnlyLastPortMeetsGateway`, and
`SwitchesHaveOwnNetworks` (the networks of the switches of all iterations are
disjoint).

**Only model-checked.** `RefusedOnlyWithoutCreator`; `AtMostOneForgotten`; what `BuildConfigTesters` computes in
`JoinsFollowThePlan`, a fold over the joins, which needs induction over data. Out
of the prover's reach: liveness and fairness (`AskedIsGoneOrKilled`, `StoppingEnds`, `WaitEnds`, `TasksEnd`, `EveryoneJoins`).

## 6. What is not modelled

* In modelled parts: the docker and physical prefixes of commands; install
  method docker; `--session`, `--cleanup-all` as more than one step, and the
  creation of database schemas in `ovs-sandbox.sh`; `_delete_routers` and the
  cleanup scenarios built on it, of which only one runs at a time in the
  repository's tasks; `_flush_ovs_internal_ports`. The wording of commands,
  logging and timing.
* In IGMP: `host_container`, with which the redirection of a command is done by
  the shell outside the container; the compilation of the tester; its sockets.
* In the contexts: the routers and switches made by `datapath` and `ovn_nb` are
  a number (the methods that make them are in NbMethods); the tags of the
  sandbox context.
* In ovn-fake-multinode: several sandboxes on one farm; more nodes than farms;
  the contents of `ovn_cluster.sh`, which is another repository's; an external
  host's script that breaks in the middle of its eight lines.
* Merged steps, where nothing else can come between: the ssh lines of
  `_bind_ovs_internal_vm` for one port (each still fails or takes effect in part),
  and the flush of `_wait_up_port` with that of `sync()`.
* Whole parts, left out: the southbound and OpenFlow clients only query; the
  parsers are conversions of text that the unit tests cover; the other commands
  of the command line, host scripts, ansible, docker and CI are straight-line
  or declarative.

## 7. Plan

Done, in the order of importance: the client and the methods (NbDatabase,
NbctlClient, NbMethods, NbScenario, NbPrograms, NbLedger, NbRefinement,
NbOwnership), the
sandboxes (SandboxScript, SandboxRegistry), the farms (FarmClients), the shared
groups (NetworkPolicy), the test bed (Deployment, FakeMultinode, Testbed), the
multicast test (IgmpTest), the addresses (AddressPlan).

Left, in this order:

1. Proofs of `RefusedOnlyWithoutCreator` and `AtMostOneForgotten`.
2. `_flush_ovs_internal_ports` and the cleanup scenarios in FarmClients and
   NbPrograms.
