------------------------------ MODULE Testbed ------------------------------
(***************************************************************************)
(* The life of a test bed: deployed, used by the workloads of tasks one    *)
(* after the other, and destroyed.  Composes Deployment and FakeMultinode  *)
(* with the contexts of a workload, through which a workload gets what it  *)
(* knows of the deployment: the credentials (ovn_multihost), the sandboxes *)
(* that earlier workloads created (sandbox), the socket of an ovn-nbctl    *)
(* daemon (ovn-nbctld), routers and switches (datapath, ovn_nb).           *)
(*                                                                         *)
(* Rally sets the contexts up in order, and cleans all of them up at the   *)
(* end, also when one of them raised; it runs no command on the deployment *)
(* during a task here.  A daemon is the number of its start.               *)
(***************************************************************************)
EXTENDS Deployment, FakeMultinode

CONSTANTS Workloads  \* Workloads[m] : the workloads on a test bed of install_method m

ASSUME TestbedAssumption == Nodes = Farms /\ MaxIterations >= NumFarms

ASSUME WorkloadAssumption ==
    \A m \in Methods :
        Workloads[m] \in Seq([scenario : STRING, batch : Nat \ {0}, times : Nat,
                              parallel : BOOLEAN, daemon : BOOLEAN])

VARIABLES
    phase,    \* the context of the workload that is next, or what is after them
    done,     \* the workloads that have ended
    socket,   \* context["daemon_socket"], 0 for none and for ''
    daemon,   \* the ovn-nbctl daemon that runs on the controller, or 0
    started,  \* the number of daemons started
    cutOff    \* history: the daemons whose start or stop lost its connection

taskVars == <<phase, done, socket, daemon, started, cutOff>>
vars == <<deployVars, nodeVars, taskVars>>

Workload == Workloads[method][done + 1]

TypeOK ==
    /\ DeployTypeOK
    /\ phase \in {"none", "multihost", "sandbox", "nbctld", "database", "run", "cleanup"}
    /\ done \in 0..Len(Workloads[method])
    /\ started \in Nat /\ socket \in 0..started /\ daemon \in 0..started
    /\ cutOff \subseteq 1..started
    /\ \A k \in DOMAIN sandboxes : sandboxes[k] \in Nodes
    /\ polls \in [Iterations -> 0..(Polls - 1)]
    /\ cluster.up \subseteq Nodes /\ cluster.remote \subseteq cluster.up
    /\ failures \in 0..MaxFailures

Init ==
    /\ DeployInit /\ NodesInit
    /\ phase = "none" /\ done = 0
    /\ socket = 0 /\ daemon = 0 /\ started = 0 /\ cutOff = {}

-----------------------------------------------------------------------------
Command ==
    /\ phase = "none"
    /\ DeployNext
    /\ UNCHANGED <<nodeVars, taskVars>>

StartTask ==
    /\ Idle /\ record /\ phase = "none" /\ done < Len(Workloads[method])
    /\ phase' = "multihost"
    /\ UNCHANGED <<deployVars, nodeVars, done, socket, daemon, started, cutOff>>

\* ovn_multihost: the credential of every host, and the controller resource.
SetupMultihost ==
    /\ phase = "multihost"
    /\ phase' = IF Controller \in subs /\ subs \subseteq registered THEN "sandbox" ELSE "cleanup"
    /\ UNCHANGED <<deployVars, nodeVars, done, socket, daemon, started, cutOff>>

\* sandbox: the farms with sandboxes, in the order of their deployments.
Ascending(farms) ==
    {s \in [1..Cardinality(farms) -> farms] : \A j, k \in DOMAIN s : j < k => s[j] < s[k]}

SetupSandbox ==
    /\ phase = "sandbox"
    /\ sandboxes' \in Ascending(boxes)
    /\ phase' = IF Workload.daemon THEN "nbctld" ELSE "database"
    /\ UNCHANGED <<deployVars, work, todo, polls, cluster, waited, gaveUp, failures,
                   done, socket, daemon, started, cutOff>>

\* ovn-nbctld, start_daemon: ovn-nbctl prints the socket.  It prints nothing
\* if it fails or finds the pidfile of a daemon that runs, which goes unseen,
\* and ovn-nbctl is then used without a daemon.
SocketForgotten(id) == 0
SocketPrinted(id) == id

DaemonStarts ==
    /\ daemon = 0
    /\ started' = started + 1 /\ daemon' = started'

SetupDaemon ==
    /\ phase = "nbctld"
    /\ \/ /\ DaemonStarts
          /\ socket' = SocketPrinted(daemon') /\ phase' = "database"
          /\ UNCHANGED <<cutOff, breaks>>
       \/ /\ phase' = "database"
          /\ \/ daemon # 0 /\ UNCHANGED breaks
             \/ daemon = 0 /\ Break
          /\ UNCHANGED <<socket, daemon, started, cutOff>>
       \/ /\ Break /\ phase' = "cleanup"
          /\ \/ DaemonStarts /\ cutOff' = cutOff \cup {daemon'}
             \/ UNCHANGED <<daemon, started, cutOff>>
          /\ UNCHANGED socket
    /\ UNCHANGED <<method, command, stage, host, record, subs, registered, boxes, running,
                   excused, commands, nodeVars, done>>

\* datapath and ovn_nb, of the workloads that have them, work on the northbound
\* database; then the iterations begin.
UsesDatabase ==
    \/ Workload.daemon
    \/ Workload.scenario \in {"del_chassis_nodes", "setup_switch_per_node_init",
                              "setup_switch_per_node"}

SetupDatabase ==
    /\ phase = "database"
    /\ \/ phase' = "run" /\ Begin(Workload) /\ UNCHANGED breaks
       \/ /\ UsesDatabase /\ Break
          /\ phase' = "cleanup" /\ UNCHANGED <<work, todo>>
    /\ UNCHANGED <<method, command, stage, host, record, subs, registered, boxes, running,
                   excused, commands, sandboxes, polls, cluster, waited, gaveUp, failures,
                   done, socket, daemon, started, cutOff>>

\* Iteration i of create_sandbox works on the farm with its number.
CreateOnFarm(i) ==
    /\ Now(i, "createSandbox")
    /\ CreateSandbox(i + 1)
    /\ Continue(i)
    /\ UNCHANGED <<sandboxes, work, polls, cluster, waited, gaveUp, failures>>

Run ==
    /\ phase = "run"
    /\ \/ \E i \in Iterations : CreateOnFarm(i)
       \/ (\E i \in Iterations : Iterate(i)) /\ UNCHANGED deployVars
    /\ UNCHANGED taskVars

Registration == (\E n \in Nodes : Registers(n)) /\ UNCHANGED <<deployVars, taskVars>>

EndRun ==
    /\ phase = "run" /\ \A i \in Iterations : todo[i] = <<>>
    /\ phase' = "cleanup"
    /\ UNCHANGED <<deployVars, nodeVars, done, socket, daemon, started, cutOff>>

\* Only the cleanup of ovn-nbctld does something, if there is a socket: ovs-appctl exit.
StopsDaemon == Workload.daemon /\ socket # 0

Cleanup ==
    /\ phase = "cleanup"
    /\ \/ ~StopsDaemon /\ UNCHANGED <<daemon, cutOff, breaks>>
       \/ StopsDaemon /\ daemon' = 0 /\ UNCHANGED <<cutOff, breaks>>
       \/ StopsDaemon /\ Break /\ cutOff' = cutOff \cup {daemon} /\ UNCHANGED daemon
    /\ phase' = "none" /\ done' = done + 1 /\ socket' = 0
    /\ UNCHANGED <<method, command, stage, host, record, subs, registered, boxes, running,
                   excused, commands, nodeVars, started>>

Task == \/ SetupMultihost \/ SetupSandbox \/ SetupDaemon \/ SetupDatabase
        \/ Run \/ EndRun \/ Cleanup

Next == Command \/ StartTask \/ Task \/ Registration

\* The command line and Rally go on with what they have begun; a node may
\* take any time to register, or never do it.
Progress == (phase = "none" /\ Perform /\ UNCHANGED <<nodeVars, taskVars>>) \/ Task

Spec == Init /\ [][Next]_vars /\ WF_vars(Progress)

-----------------------------------------------------------------------------
\* The workloads of the ovn-network samples: on a physical test bed an
\* iteration for each farm creates its sandbox, and there is a farm for each
\* index of a switch per node.
OneFarmEach ==
    \A m \in Methods : \A k \in DOMAIN Workloads[m] :
        LET w == Workloads[m][k]
        IN  /\ w.scenario = "create_sandbox" /\ m = "physical" => w.times >= NumFarms
            /\ w.scenario \in {"setup_switch_per_node_init", "setup_switch_per_node"} =>
                  m = "physical" /\ w.times * w.batch <= NumFarms

\* While iterations run, the socket they were given is that of the daemon that
\* runs; and a daemon that outlives its workload is one whose start or stop
\* lost its connection (OvnNbctlDaemonContext, start_daemon, stop_daemon).
DaemonMatchesTask ==
    /\ phase = "run" /\ socket # 0 => daemon = socket
    /\ phase = "none" /\ daemon # 0 => daemon \in cutOff

\* Every command and every workload ends, whatever breaks and whether or not a
\* node ever registers.
TasksEnd == []<>(Idle /\ phase = "none")
=============================================================================
