--------------------------- MODULE Testbed_proofs ---------------------------
(***************************************************************************)
(* What is within reach of a destroy, which daemon the iterations use, and *)
(* where networks are put, for any number of farms, commands, workloads    *)
(* and failures.                                                           *)
(***************************************************************************)
EXTENDS Testbed, SequenceLemmas, FiniteSetTheorems

(***************************************************************************)
(* The deployment.  What runs on a host is registered, except on the host  *)
(* that has just been started.                                             *)
(***************************************************************************)
Started == IF stage = "register" THEN {host} ELSE {}

Reachable ==
    /\ registered \subseteq subs
    /\ running \ excused \subseteq registered \cup Started
    /\ stage \in {"install", "start"} => method = "sandbox"
    /\ stage \in {"install", "start", "register"} => host \in subs
    /\ method = "physical" => running = {}
    /\ command = "none" <=> stage = "idle"
    /\ command # "none" => record
    /\ record \/ subs = {}

DeployInv == DeployTypeOK /\ Reachable

core == <<method, command, stage, host, record, subs, registered, boxes,
          running, excused, commands>>

LEMMA DeployInitInv == DeployInit => DeployInv
<1>1. /\ 0 \in 0..MaxCommands /\ 0 \in 0..MaxBreaks /\ Controller \in Hosts
      /\ Methods \subseteq {"sandbox", "physical"}
  BY DeploymentAssumption DEF DeploymentAssumption, Controller, Hosts
<1> QED
  BY <1>1 DEF DeployInit, DeployInv, DeployTypeOK, Reachable, Started, Stages

\* The invariant has nothing to say of the number of failures.
LEMMA BreakInv ==
  ASSUME DeployInv, UNCHANGED core, breaks' \in 0..MaxBreaks
  PROVE  DeployInv'
  BY DEF core, DeployInv, DeployTypeOK, Reachable, Started

LEMMA BreakCounts ==
  ASSUME breaks \in 0..MaxBreaks, Break
  PROVE  breaks' \in 0..MaxBreaks
<1>1. MaxBreaks \in Nat
  BY DeploymentAssumption DEF DeploymentAssumption
<1> QED
  BY <1>1 DEF Break

\* Deploying a host.
LEMMA CreateInv == DeployInv /\ Create => DeployInv'
<1>1. MaxCommands \in Nat /\ NumFarms \in Nat
  BY DeploymentAssumption DEF DeploymentAssumption
<1> QED
  BY <1>1 DEF Create, DeployInv, DeployTypeOK, Reachable, Started, Goto, Idle, Hosts, Controller, Stages

LEMMA NewRecordInv == DeployInv /\ NewRecord => DeployInv'
<1> SUFFICES ASSUME DeployInv, NewRecord PROVE DeployInv'
  OBVIOUS
<1>1. command # "none" /\ record /\ host \in Hosts
  BY DEF NewRecord, Deploying, DeployInv, DeployTypeOK, Reachable
<1>2. CASE method = "sandbox"
  BY <1>1, <1>2 DEF NewRecord, Deploying, Goto, DeployInv, DeployTypeOK, Reachable, Started, Stages
<1>3. CASE method # "sandbox"
  BY <1>1, <1>3 DEF NewRecord, Deploying, Goto, DeployInv, DeployTypeOK, Reachable, Started, Stages
<1> QED
  BY <1>2, <1>3

LEMMA InstallInv == DeployInv /\ Install => DeployInv'
<1> SUFFICES ASSUME DeployInv, Install PROVE DeployInv'
  OBVIOUS
<1> USE DEF Install, Deploying, Goto, DeployInv, DeployTypeOK, Reachable, Started, Stages
<1>1. breaks' \in 0..MaxBreaks
  BY BreakCounts
<1>2. Controller \in Hosts
  BY DeploymentAssumption DEF DeploymentAssumption, Controller, Hosts
<1>3. CASE UNCHANGED command
  BY <1>1, <1>2, <1>3 DEF End
<1>4. CASE Break /\ End
  BY <1>1, <1>2, <1>4 DEF End
<1> QED
  BY <1>3, <1>4

LEMMA StartInv == DeployInv /\ Start => DeployInv'
<1> SUFFICES ASSUME DeployInv, Start PROVE DeployInv'
  OBVIOUS
<1> USE DEF Start, Deploying, Goto, DeployInv, DeployTypeOK, Reachable, Started, Stages
<1>1. breaks' \in 0..MaxBreaks
  BY BreakCounts
<1>2. Controller \in Hosts
  BY DeploymentAssumption DEF DeploymentAssumption, Controller, Hosts
<1>3. CASE /\ running' = running \cup {host} /\ Goto("register", host)
           /\ UNCHANGED <<command, excused, breaks>>
  BY <1>1, <1>3
<1>4. CASE End /\ UNCHANGED <<running, excused>>
  BY <1>1, <1>2, <1>4 DEF End
<1>5. CASE End /\ running' = running \cup {host} /\ excused' = excused \cup {host}
  BY <1>1, <1>2, <1>5 DEF End
<1> QED
  BY <1>3, <1>4, <1>5

LEMMA RegisterInv == DeployInv /\ Register => DeployInv'
<1> SUFFICES ASSUME DeployInv, Register PROVE DeployInv'
  OBVIOUS
<1>1. NumFarms \in Nat /\ Controller \in Hosts
  BY DeploymentAssumption DEF DeploymentAssumption, Controller, Hosts
<1>2. stage = "register" /\ command \in {"create", "recreate"} /\ host \in Hosts
  BY DEF Register, Deploying, DeployInv, DeployTypeOK
<1>3. /\ host' \in Hosts
      /\ \/ stage' = "idle" /\ command' = "none"
         \/ stage' = "record" /\ command' = command
  <2>1. CASE host = NumFarms
    BY <1>1, <2>1 DEF Register, End, Goto
  <2>2. CASE host # NumFarms
    <3>1. host + 1 \in Hosts
      BY <1>1, <1>2, <2>2, SMT DEF Hosts
    <3> QED
      BY <3>1, <2>2 DEF Register, Goto
  <2> QED
    BY <2>1, <2>2
<1> QED
  BY <1>2, <1>3 DEF Register, DeployInv, DeployTypeOK, Reachable, Started, Stages

-----------------------------------------------------------------------------
\* Where CleanUp leads, from a state with a record.
LEMMA CleanUpLeads ==
  ASSUME NEW c \in {"destroy", "recreate"}, NEW left \in SUBSET Hosts, record, CleanUp(c, left),
         record \in BOOLEAN
  PROVE  /\ command' \in {"none", "destroy", "recreate"} /\ stage' \in {"idle", "record", "cleanup"}
         /\ host' \in Hosts /\ record' \in BOOLEAN
         /\ command' = "none" <=> stage' = "idle"
         /\ command' # "none" => record'
         /\ record' \/ left = {}
<1>1. Controller \in Hosts
  BY DeploymentAssumption DEF DeploymentAssumption, Controller, Hosts
<1> QED
  BY <1>1 DEF CleanUp, Goto, End

LEMMA DestroyInv == DeployInv /\ Destroy => DeployInv'
<1> SUFFICES ASSUME DeployInv, Destroy PROVE DeployInv'
  OBVIOUS
<1>1. MaxCommands \in Nat
  BY DeploymentAssumption DEF DeploymentAssumption
<1>2. commands' \in 0..MaxCommands
  BY <1>1 DEF Destroy, DeployInv, DeployTypeOK
<1>3. PICK c \in {"destroy", "recreate"} : CleanUp(c, subs)
  BY DEF Destroy
<1>4. /\ command' \in {"none", "destroy", "recreate"} /\ stage' \in {"idle", "record", "cleanup"}
      /\ host' \in Hosts /\ record' \in BOOLEAN
      /\ command' = "none" <=> stage' = "idle"
      /\ command' # "none" => record'
      /\ record' \/ subs = {}
  BY <1>3, CleanUpLeads DEF Destroy, DeployInv, DeployTypeOK
<1> QED
  BY <1>2, <1>4 DEF Destroy, Idle, DeployInv, DeployTypeOK, Reachable, Started, Stages

\* Forgetting a host leaves what it must, if what still runs on it is excused.
LEMMA ForgetInv ==
  ASSUME DeployInv, stage = "cleanup", Forget, UNCHANGED <<method, commands>>,
         breaks' \in 0..MaxBreaks,
         running' \subseteq running, excused' \subseteq Hosts,
         excused \ {host} \subseteq excused',
         host \notin running' \/ host \in excused'
  PROVE  DeployInv'
<1>1. command \in {"none", "create", "destroy", "recreate"} /\ command # "none" /\ record
  BY DEF DeployInv, DeployTypeOK, Reachable
<1>2. CASE command = "create"
  BY <1>1, <1>2 DEF Forget, CleanUp, Goto, DeployInv, DeployTypeOK, Reachable, Started, Stages
<1>3. CASE command \in {"destroy", "recreate"}
  <2>1. subs \ {host} \in SUBSET Hosts /\ CleanUp(command, subs \ {host})
    BY DEF DeployInv, DeployTypeOK, Forget
  <2>2. /\ command' \in {"none", "destroy", "recreate"} /\ stage' \in {"idle", "record", "cleanup"}
        /\ host' \in Hosts /\ record' \in BOOLEAN
        /\ command' = "none" <=> stage' = "idle"
        /\ command' # "none" => record'
        /\ record' \/ subs \ {host} = {}
    BY <1>1, <1>3, <2>1, CleanUpLeads DEF DeployInv, DeployTypeOK
  <2>3. running \ excused \subseteq registered
    BY DEF DeployInv, Reachable, Started
  <2> QED
    BY <2>2, <2>3 DEF Forget, DeployInv, DeployTypeOK, Reachable, Started, Stages
<1> QED
  BY <1>1, <1>2, <1>3

LEMMA SkipScriptInv == DeployInv /\ SkipScript => DeployInv'
<1> SUFFICES ASSUME DeployInv, SkipScript PROVE DeployInv'
  OBVIOUS
<1>1. method = "physical" \/ host \notin registered
  BY DeploymentAssumption
     DEF SkipScript, RunsScript, DeploymentAssumption, DeployInv, DeployTypeOK
<1>2. host \notin running \/ host \in excused
  BY <1>1 DEF SkipScript, DeployInv, Reachable, Started
<1> QED
  BY <1>2, ForgetInv DEF SkipScript, DeployInv, DeployTypeOK

LEMMA RunScriptInv == DeployInv /\ RunScript => DeployInv'
  BY ForgetInv DEF RunScript, DeployInv, DeployTypeOK

LEMMA ScriptFailsInv == DeployInv /\ ScriptFails => DeployInv'
  BY ForgetInv, BreakCounts DEF ScriptFails, DeployInv, DeployTypeOK

LEMMA ControllerUnreachableInv == DeployInv /\ ControllerUnreachable => DeployInv'
<1> SUFFICES ASSUME DeployInv, ControllerUnreachable PROVE DeployInv'
  OBVIOUS
<1>1. breaks' \in 0..MaxBreaks
  BY BreakCounts DEF ControllerUnreachable, DeployInv, DeployTypeOK
<1>2. Controller \in Hosts
  BY DeploymentAssumption DEF DeploymentAssumption, Controller, Hosts
<1> QED
  BY <1>1, <1>2
     DEF ControllerUnreachable, End, Goto, DeployInv, DeployTypeOK, Reachable, Started, Stages

\* Every step of a command.
LEMMA DeployNextInv == DeployInv /\ DeployNext => DeployInv'
  BY CreateInv, NewRecordInv, InstallInv, StartInv, RegisterInv, DestroyInv,
     SkipScriptInv, RunScriptInv, ScriptFailsInv, ControllerUnreachableInv
     DEF DeployNext, Perform

\* Creating sandboxes on a farm.
LEMMA CreateSandboxInv ==
  ASSUME DeployInv, NEW f \in Nat \ {0}, CreateSandbox(f)
  PROVE  DeployInv'
<1> USE DEF CreateSandbox, DeployInv, DeployTypeOK, Reachable, Started
<1>1. breaks' \in 0..MaxBreaks
  BY BreakCounts
<1>2. f \in registered => f \in Farms
  BY DeploymentAssumption DEF DeploymentAssumption, Farms, Hosts
<1> QED
  BY <1>1, <1>2

-----------------------------------------------------------------------------
\* Only commands, and the workload that creates sandboxes, change the
\* deployment.
LEMMA DeployStepInv == DeployInv /\ [Next]_vars => DeployInv'
<1> SUFFICES ASSUME DeployInv, [Next]_vars PROVE DeployInv'
  OBVIOUS
<1>1. ASSUME UNCHANGED deployVars PROVE DeployInv'
  BY <1>1 DEF deployVars, DeployInv, DeployTypeOK, Reachable, Started
<1>2. ASSUME UNCHANGED core, UNCHANGED breaks \/ Break PROVE DeployInv'
  <2>1. breaks' \in 0..MaxBreaks
    BY <1>2, BreakCounts DEF DeployInv, DeployTypeOK
  <2> QED
    BY <1>2, <2>1, BreakInv
<1>3. CASE Command
  BY <1>3, DeployNextInv DEF Command
<1>4. CASE StartTask \/ SetupMultihost \/ SetupSandbox \/ EndRun \/ Registration
  BY <1>1, <1>4 DEF StartTask, SetupMultihost, SetupSandbox, EndRun, Registration
<1>5. CASE SetupDaemon
  BY <1>2, <1>5 DEF SetupDaemon, core
<1>6. CASE SetupDatabase
  BY <1>2, <1>6 DEF SetupDatabase, core
<1>7. CASE Cleanup
  BY <1>2, <1>7 DEF Cleanup, core
<1>8. CASE Run
  <2>1. CASE UNCHANGED deployVars
    BY <1>1, <2>1
  <2>2. ASSUME NEW i \in Iterations, CreateOnFarm(i) PROVE DeployInv'
    <3>1. i + 1 \in Nat \ {0}
      BY MultinodeAssumption DEF MultinodeAssumption, Iterations
    <3> QED
      BY <2>2, <3>1, CreateSandboxInv DEF CreateOnFarm
  <2> QED
    BY <1>8, <2>1, <2>2 DEF Run
<1>9. CASE UNCHANGED vars
  BY <1>1, <1>9 DEF vars
<1> QED
  BY <1>3, <1>4, <1>5, <1>6, <1>7, <1>8, <1>9 DEF Next, Task

\* The invariant of the deployment holds in every state of a test bed.
THEOREM DeploymentInvariant == Spec => []DeployInv
<1>1. Init => DeployInv
  BY DeployInitInv DEF Init
<1> QED
  BY <1>1, DeployStepInv, PTL DEF Spec

\* Between two commands, whatever ovs-sandbox.sh started is on a host that has
\* a record and a credential, so that a destroy reaches it: for any number of
\* farms, commands and failures, at any step of deploying, of cleaning up and
\* of creating sandboxes (OvnMultihostEngine, and the engines below it).
THEOREM DestroyReaches == Spec => []DestroyReachesHosts
<1>1. DeployInv => DestroyReachesHosts
  BY DEF DeployInv, Reachable, Started, DestroyReachesHosts, Idle
<1> QED
  BY <1>1, DeploymentInvariant, PTL

-----------------------------------------------------------------------------
(***************************************************************************)
(* The daemon.  A socket is that of the daemon that runs, and is there     *)
(* only while the workload that asked for it goes on; a daemon without a   *)
(* socket is one whose start or stop lost its connection.                  *)
(***************************************************************************)
DaemonInv ==
    /\ started \in Nat /\ daemon \in 0..started
    /\ phase = "nbctld" => Workload.daemon
    /\ socket # 0 => /\ phase \in {"database", "run", "cleanup"}
                     /\ Workload.daemon /\ daemon = socket
    /\ daemon # 0 => daemon \in cutOff \/ socket = daemon

LEMMA DaemonStartsInv == DaemonInv /\ SetupDaemon => DaemonInv'
<1> SUFFICES ASSUME DaemonInv, SetupDaemon PROVE DaemonInv'
  OBVIOUS
<1>1. phase = "nbctld" /\ socket = 0 /\ Workload.daemon /\ Workload' = Workload
  BY DEF SetupDaemon, DaemonInv, Workload
<1>2. CASE /\ DaemonStarts
           /\ socket' = SocketPrinted(daemon') /\ phase' = "database"
           /\ UNCHANGED cutOff
  BY <1>1, <1>2 DEF DaemonInv, DaemonStarts, SocketPrinted
<1>3. CASE phase' = "database" /\ UNCHANGED <<socket, daemon, started, cutOff>>
  BY <1>1, <1>3 DEF DaemonInv
<1>4. CASE /\ phase' = "cleanup" /\ UNCHANGED socket
           /\ DaemonStarts /\ cutOff' = cutOff \cup {daemon'}
  BY <1>1, <1>4 DEF DaemonInv, DaemonStarts
<1>5. CASE /\ phase' = "cleanup" /\ UNCHANGED socket
           /\ UNCHANGED <<daemon, started, cutOff>>
  BY <1>1, <1>5 DEF DaemonInv
<1> QED
  BY <1>2, <1>3, <1>4, <1>5 DEF SetupDaemon

LEMMA CleanupInv == DaemonInv /\ Cleanup => DaemonInv'
<1> SUFFICES ASSUME DaemonInv, Cleanup PROVE DaemonInv'
  OBVIOUS
<1>1. phase' = "none" /\ socket' = 0 /\ UNCHANGED started
  BY DEF Cleanup
<1>2. CASE ~StopsDaemon /\ UNCHANGED <<daemon, cutOff>>
  BY <1>1, <1>2 DEF DaemonInv, StopsDaemon
<1>3. CASE daemon' = 0
  BY <1>1, <1>3 DEF DaemonInv
<1>4. CASE cutOff' = cutOff \cup {daemon} /\ UNCHANGED daemon
  BY <1>1, <1>4 DEF DaemonInv
<1> QED
  BY <1>2, <1>3, <1>4 DEF Cleanup

LEMMA DaemonStepInv == DaemonInv /\ [Next]_vars => DaemonInv'
<1> SUFFICES ASSUME DaemonInv, [Next]_vars PROVE DaemonInv'
  OBVIOUS
<1>1. ASSUME UNCHANGED <<method, taskVars>> PROVE DaemonInv'
  BY <1>1 DEF taskVars, DaemonInv, Workload
<1>2. ASSUME UNCHANGED <<socket, daemon, started, cutOff>>, socket = 0, phase' # "nbctld"
      PROVE  DaemonInv'
  BY <1>2 DEF DaemonInv
<1>3. CASE Command
  <2>1. phase = "none" /\ UNCHANGED taskVars
    BY <1>3 DEF Command
  <2> QED
    BY <1>2, <2>1 DEF taskVars, DaemonInv
<1>4. CASE StartTask \/ SetupMultihost
  BY <1>2, <1>4 DEF StartTask, SetupMultihost, DaemonInv
<1>5. CASE SetupSandbox
  <2>1. /\ phase = "sandbox" /\ phase' = IF Workload.daemon THEN "nbctld" ELSE "database"
        /\ UNCHANGED <<method, done, socket, daemon, started, cutOff>>
    BY <1>5, Zenon DEF SetupSandbox, deployVars
  <2>2. Workload' = Workload
    BY <2>1 DEF Workload
  <2> QED
    BY <2>1, <2>2 DEF DaemonInv
<1>6. CASE SetupDatabase \/ EndRun
  <2>1. /\ phase \in {"database", "run"} /\ phase' \in {"run", "cleanup"}
        /\ UNCHANGED <<method, done, socket, daemon, started, cutOff>>
    BY <1>6 DEF SetupDatabase, EndRun, deployVars
  <2> QED
    BY <2>1 DEF DaemonInv, Workload
<1>7. CASE Run
  <2>1. UNCHANGED method
    BY <1>7 DEF Run, CreateOnFarm, CreateSandbox, deployVars
  <2> QED
    BY <1>1, <1>7, <2>1 DEF Run
<1>8. CASE Registration \/ UNCHANGED vars
  BY <1>1, <1>8 DEF Registration, vars, deployVars
<1> QED
  BY <1>3, <1>4, <1>5, <1>6, <1>7, <1>8, DaemonStartsInv, CleanupInv DEF Next, Task

\* The socket that iterations are given is that of the daemon that runs, and
\* no daemon outlives its workload unless the session that started or stopped
\* it was lost: for any workloads one after the other, with daemons left over
\* and starts that print nothing (OvnNbctlDaemonContext, start_daemon).
THEOREM DaemonMatches == Spec => []DaemonMatchesTask
<1>1. Init => DaemonInv
  BY DEF Init, DaemonInv
<1>2. DaemonInv => DaemonMatchesTask
  BY DEF DaemonInv, DaemonMatchesTask
<1> QED
  BY <1>1, <1>2, DaemonStepInv, PTL DEF Spec
-----------------------------------------------------------------------------
(***************************************************************************)
(* The nodes: what their sessions, polls and registrations can do to the   *)
(* cluster.                                                                *)
(***************************************************************************)
Works == [scenario : STRING, batch : Nat \ {0}, times : Nat,
          parallel : BOOLEAN, daemon : BOOLEAN]
Dos == NodeCalls \cup {"createSandbox", "addCentral", "delCentral"}
NodeCallSet == [do : Dos, k : Nat]

\* A network is a number, the node it is on, and the external network.
Facts == [net : Nat, node : Nodes, ext : Nat]
Clusters ==
    [central : BOOLEAN, up : SUBSET Nodes, remote : SUBSET Nodes, mapped : SUBSET Nodes,
     chassis : [Nodes -> {"none", "old", "current"}], external : [Nodes -> Nat \cup {None}],
     gateways : SUBSET Facts, ports : SUBSET Facts, kept : BOOLEAN]

NodesTyped ==
    /\ sandboxes \in Seq(Nodes)
    /\ work.batch \in Nat \ {0}
    /\ todo \in [Iterations -> Seq(NodeCallSet)]
    /\ polls \in [Iterations -> 0..(Polls - 1)]
    /\ cluster \in Clusters /\ cluster.remote \subseteq cluster.up
    /\ failures \in 0..MaxFailures

LEMMA Assumed ==
  /\ Nodes = 1..NumFarms /\ Nodes \subseteq Nat \ {0} /\ LeftNodes \subseteq Nodes
  /\ NumFarms \in Nat /\ MaxIterations \in Nat /\ NumFarms <= MaxIterations
  /\ NumRouters * PerRouter \in Nat /\ Polls \in Nat \ {0} /\ MaxFailures \in Nat
  /\ Iterations \subseteq Nat
BY DeploymentAssumption, MultinodeAssumption, TestbedAssumption
   DEF DeploymentAssumption, MultinodeAssumption, TestbedAssumption, Farms, Iterations

\* Calls(w, do) and GatewayCalls(w) call do for the first numbers of a batch.
Numbered(s, do, n) ==
    /\ s \in Seq(NodeCallSet) /\ Len(s) = n
    /\ \A j \in 1..n : s[j] = [do |-> do, k |-> j - 1]

LEMMA CallsNumbered ==
  ASSUME NEW w, w.batch \in Nat \ {0}, NEW do \in Dos
  PROVE  Numbered(Calls(w, do), do, w.batch)
<1>1. PICK n \in Nat \ {0} : n = w.batch
  OBVIOUS
<1>2. \A j \in 1..n : [do |-> do, k |-> j - 1] \in NodeCallSet
  BY DEF NodeCallSet
<1>3. Calls(w, do) = [j \in 1..n |-> [do |-> do, k |-> j - 1]]
  BY <1>1 DEF Calls
<1> QED
  BY <1>1, <1>2, <1>3 DEF Numbered

LEMMA GatewaysNumbered ==
  ASSUME NEW w, w.batch \in Nat \ {0}
  PROVE  \E n \in 0..w.batch : Numbered(GatewayCalls(w), "gateway", n)
<1>1. PICK b \in Nat \ {0} : b = w.batch
  OBVIOUS
<1>2. PICK r \in Nat : r = NumRouters * PerRouter
  BY Assumed
<1>3. PICK n \in 0..b : n = IF b <= r THEN b ELSE r
  BY <1>2
<1>4. {j \in 1..b : HasGateway(j - 1)} = 1..n
  <2>1. \A j : HasGateway(j - 1) <=> j - 1 < r
    BY <1>2 DEF HasGateway
  <2>2. \A j \in 1..b : j - 1 < r <=> j \in 1..n
    BY <1>3
  <2>3. 1..n \subseteq 1..b
    BY <1>3
  <2> QED
    BY <2>1, <2>2, <2>3
<1>5. \A j \in 1..n : [do |-> "gateway", k |-> j - 1] \in NodeCallSet
  BY DEF NodeCallSet, Dos, NodeCalls
<1>6. GatewayCalls(w) = [j \in 1..n |-> [do |-> "gateway", k |-> j - 1]]
  BY <1>1, <1>4 DEF GatewayCalls
<1> QED
  BY <1>1, <1>5, <1>6 DEF Numbered

LEMMA ProgramTyped ==
  ASSUME NEW w \in Works
  PROVE  Program(w) \in Seq(NodeCallSet)
<1>1. w.batch \in Nat \ {0}
  BY DEF Works
<1>2. \A do \in Dos : Calls(w, do) \in Seq(NodeCallSet)
  BY <1>1, CallsNumbered DEF Numbered
<1>3. GatewayCalls(w) \in Seq(NodeCallSet)
  BY <1>1, GatewaysNumbered DEF Numbered
<1>5. \A do \in Dos : <<[do |-> do, k |-> 0]>> \in Seq(NodeCallSet)
  BY DEF NodeCallSet
<1>6. Calls(w, "add") \o Calls(w, "localnet") \o Calls(w, "external") \in Seq(NodeCallSet)
  <2>1. PICK r \in Seq(NodeCallSet) : r = Calls(w, "add")
    BY <1>2 DEF Dos, NodeCalls
  <2>2. PICK s \in Seq(NodeCallSet) : s = Calls(w, "localnet")
    BY <1>2 DEF Dos, NodeCalls
  <2>3. PICK t \in Seq(NodeCallSet) : t = Calls(w, "external")
    BY <1>2 DEF Dos, NodeCalls
  <2>4. PICK q \in Seq(NodeCallSet) : q = r \o s
    BY CatTyped DEF Cat
  <2>5. q \o t \in Seq(NodeCallSet)
    BY CatTyped DEF Cat
  <2> QED
    BY <2>1, <2>2, <2>3, <2>4, <2>5
<1>7. Calls(w, "connect") \o Calls(w, "wait") \o GatewayCalls(w) \o Calls(w, "bind")
         \in Seq(NodeCallSet)
  <2>1. PICK r \in Seq(NodeCallSet) : r = Calls(w, "connect")
    BY <1>2 DEF Dos, NodeCalls
  <2>2. PICK s \in Seq(NodeCallSet) : s = Calls(w, "wait")
    BY <1>2 DEF Dos, NodeCalls
  <2>3. PICK t \in Seq(NodeCallSet) : t = GatewayCalls(w)
    BY <1>3
  <2>4. PICK u \in Seq(NodeCallSet) : u = Calls(w, "bind")
    BY <1>2 DEF Dos, NodeCalls
  <2>5. PICK p \in Seq(NodeCallSet) : p = r \o s
    BY CatTyped DEF Cat
  <2>6. PICK q \in Seq(NodeCallSet) : q = p \o t
    BY CatTyped DEF Cat
  <2>7. q \o u \in Seq(NodeCallSet)
    BY CatTyped DEF Cat
  <2> QED
    BY <2>1, <2>2, <2>3, <2>4, <2>5, <2>6, <2>7
<1>8. <<>> \in Seq(NodeCallSet)
  OBVIOUS
<1> QED
  BY <1>2, <1>5, <1>6, <1>7, <1>8 DEF Program, Dos, NodeCalls

\* What a session leaves when it did its work.
CentralUp == [cluster EXCEPT !.central = TRUE]
CentralDown ==
    [cluster EXCEPT !.central = FALSE, !.kept = FALSE, !.chassis = [n \in Nodes |-> "none"],
                    !.gateways = {}, !.ports = {}]
NodeUp(n) == [cluster EXCEPT !.up = @ \cup {n}]
NodeDown(n, stays) ==
    [cluster EXCEPT !.up = @ \ {n}, !.remote = @ \ {n},
                    !.mapped = @ \ {n}, !.external[n] = None,
                    !.chassis[n] = IF @ = "none" THEN @ ELSE stays,
                    !.kept = @ \/ (stays = "old" /\ cluster.chassis[n] # "none")]
NodeMapped(n) == [cluster EXCEPT !.mapped = @ \cup {n}]
NodeExternal(n, index) == [cluster EXCEPT !.external[n] = index]
NodeConnected(n) == [cluster EXCEPT !.remote = @ \cup {n}]
WithGateway(fact) == [cluster EXCEPT !.gateways = @ \cup {fact}]
WithPort(fact) == [cluster EXCEPT !.ports = @ \cup {fact}]

\* The iteration goes on, or its session broke before or after its work.
Outcome(i, after) ==
    /\ UNCHANGED <<sandboxes, work, polls, waited, gaveUp>>
    /\ failures' \in 0..MaxFailures
    /\ \/ Continue(i) /\ cluster' = after
       \/ Raise(i) /\ cluster' \in {cluster, after}

LEMMA FailCounts ==
  ASSUME failures \in 0..MaxFailures, Fail
  PROVE  failures' \in 0..MaxFailures
BY Assumed DEF Fail

\* Every step of an iteration but a poll.
LEMMA Outcomes ==
  ASSUME NEW i \in Iterations, Iterate(i), failures \in 0..MaxFailures
  PROVE  \/ NotFound(i) \/ PollChassis(i)
         \/ Now(i, "addCentral") /\ Outcome(i, CentralUp)
         \/ Now(i, "delCentral") /\ Outcome(i, CentralDown)
         \/ OnNode(i, "add") /\ Outcome(i, NodeUp(Node(i)))
         \/ /\ OnNode(i, "delete")
            /\ \E stays \in {"none", "old"} : Outcome(i, NodeDown(Node(i), stays))
         \/ OnNode(i, "localnet") /\ Outcome(i, NodeMapped(Node(i)))
         \/ OnNode(i, "external") /\ Outcome(i, NodeExternal(Node(i), Index(i, K(i))))
         \/ /\ OnNode(i, "connect") /\ Outcome(i, NodeConnected(Node(i)))
            /\ Node(i) \in cluster.up \/ cluster' = cluster
         \/ OnNode(i, "gateway") /\ Outcome(i, WithGateway(Fact(i)))
         \/ OnNode(i, "bind") /\ Outcome(i, WithPort(Fact(i)))
<1>0. Fail => failures' \in 0..MaxFailures
  BY FailCounts
<1>1. AddCentral(i) => Now(i, "addCentral") /\ Outcome(i, CentralUp)
  BY <1>0 DEF AddCentral, Session, Outcome, CentralUp
<1>2. DelCentral(i) => Now(i, "delCentral") /\ Outcome(i, CentralDown)
  BY <1>0 DEF DelCentral, Session, Outcome, CentralDown
<1>3. AddChassis(i) => OnNode(i, "add") /\ Outcome(i, NodeUp(Node(i)))
  BY <1>0 DEF AddChassis, Session, Outcome, NodeUp
<1>4. DelChassis(i) => /\ OnNode(i, "delete")
                       /\ \E stays \in {"none", "old"} : Outcome(i, NodeDown(Node(i), stays))
  BY <1>0 DEF DelChassis, Session, Outcome, NodeDown
<1>5. AddLocalnet(i) => OnNode(i, "localnet") /\ Outcome(i, NodeMapped(Node(i)))
  BY <1>0 DEF AddLocalnet, Session, Outcome, NodeMapped
<1>6. AddExternalHost(i) =>
         OnNode(i, "external") /\ Outcome(i, NodeExternal(Node(i), Index(i, K(i))))
  BY <1>0 DEF AddExternalHost, Session, Outcome, NodeExternal
<1>7. ConnectChassis(i) => /\ OnNode(i, "connect") /\ Outcome(i, NodeConnected(Node(i)))
                           /\ Node(i) \in cluster.up \/ cluster' = cluster
  BY <1>0 DEF ConnectChassis, Session, Outcome, NodeConnected
<1>8. ConnectGateway(i) => OnNode(i, "gateway") /\ Outcome(i, WithGateway(Fact(i)))
  BY <1>0 DEF ConnectGateway, Session, Outcome, WithGateway
<1>9. BindPort(i) => OnNode(i, "bind") /\ Outcome(i, WithPort(Fact(i)))
  BY <1>0 DEF BindPort, Session, Outcome, WithPort
<1> QED
  BY <1>1, <1>2, <1>3, <1>4, <1>5, <1>6, <1>7, <1>8, <1>9 DEF Iterate

LEMMA NowHas ==
  ASSUME NodesTyped, NEW i \in Iterations, NEW do, Now(i, do)
  PROVE  /\ todo[i] # <<>> /\ Head(todo[i]) \in NodeCallSet /\ Tail(todo[i]) \in Seq(NodeCallSet)
         /\ Head(todo[i]).do = do /\ K(i) \in Nat /\ Index(i, K(i)) \in Nat
<1>1. todo[i] \in Seq(NodeCallSet) /\ todo[i] # <<>>
  BY DEF NodesTyped, Now
<1>2. Head(todo[i]) \in NodeCallSet /\ Tail(todo[i]) \in Seq(NodeCallSet)
  BY <1>1
<1>3. K(i) \in Nat
  BY <1>2 DEF K, NodeCallSet
<1>4. Index(i, K(i)) \in Nat
  <2>1. i \in Nat /\ work.batch \in Nat
    BY Assumed DEF NodesTyped
  <2> QED
    BY <1>3, <2>1 DEF Index
<1> QED
  BY <1>1, <1>2, <1>3, <1>4 DEF Now

LEMMA NodeFound ==
  ASSUME NodesTyped, NEW i \in Iterations, NEW do, OnNode(i, do)
  PROVE  /\ Now(i, do) /\ Node(i) \in Nodes /\ Fact(i) \in Facts
<1>1. Now(i, do) /\ FarmsUsed # {} /\ Node(i) \in FarmsUsed
  BY DEF OnNode, Found, Node
<1>2. FarmsUsed \subseteq Nodes
  BY DEF FarmsUsed, NodesTyped
<1>3. PICK n \in Nat \ {0} : n = Len(sandboxes) /\ \A k \in 1..n : sandboxes[k] \in Nodes
  BY <1>1 DEF FarmsUsed, NodesTyped
<1>4. K(i) \in Nat /\ Index(i, K(i)) \in Nat
  BY <1>1, NowHas
<1>5. SliceOfList(i, K(i)) \in Nodes
  <2>1. (Index(i, K(i)) % n) + 1 \in 1..n
    BY <1>3, <1>4
  <2>2. SliceOfList(i, K(i)) = sandboxes[(Index(i, K(i)) % n) + 1]
    BY <1>3 DEF SliceOfList, Index
  <2> QED
    BY <1>3, <2>1, <2>2
<1>6. Network(i, K(i)) \in Nat
  BY <1>4 DEF Network, Index
<1> QED
  BY <1>1, <1>2, <1>5, <1>6 DEF Fact, Facts

LEMMA OutcomeTyped ==
  ASSUME NodesTyped, NEW i \in Iterations, NEW do, Now(i, do), NEW after, Outcome(i, after),
         after \in Clusters, after.remote \subseteq after.up
  PROVE  NodesTyped'
<1>1. Tail(todo[i]) \in Seq(NodeCallSet) /\ <<>> \in Seq(NodeCallSet)
  BY NowHas
<1>2. todo' \in [Iterations -> Seq(NodeCallSet)]
  BY <1>1 DEF Outcome, Continue, Raise, NodesTyped
<1>3. cluster' \in Clusters /\ cluster'.remote \subseteq cluster'.up
  BY DEF Outcome, NodesTyped
<1> QED
  BY <1>2, <1>3 DEF Outcome, NodesTyped

LEMMA IterateTyped ==
  ASSUME NodesTyped, NEW i \in Iterations, Iterate(i)
  PROVE  NodesTyped'
<1>0. cluster \in Clusters /\ cluster.remote \subseteq cluster.up /\ failures \in 0..MaxFailures
  BY DEF NodesTyped
<1>1. CASE NotFound(i)
  BY <1>1 DEF NotFound, Raise, NodesTyped
<1>2. CASE PollChassis(i)
  <2>1. Now(i, "wait")
    BY <1>2 DEF PollChassis, OnNode
  <2>2. Tail(todo[i]) \in Seq(NodeCallSet) /\ <<>> \in Seq(NodeCallSet)
    BY <2>1, NowHas
  <2>3. todo' \in [Iterations -> Seq(NodeCallSet)]
    BY <1>2, <2>2 DEF PollChassis, Continue, Raise, NodesTyped
  <2>4. polls' \in [Iterations -> 0..(Polls - 1)]
    <3>1. Polls \in Nat \ {0} /\ polls[i] \in 0..(Polls - 1)
      BY Assumed DEF NodesTyped
    <3>2. polls[i] + 1 # Polls => PollsCounted(i) \in 0..(Polls - 1)
      BY <3>1 DEF PollsCounted
    <3>3. 0 \in 0..(Polls - 1)
      BY <3>1
    <3>4. \/ polls' = [polls EXCEPT ![i] = 0] \/ polls' = polls
          \/ ~LastPoll(i) /\ polls' = [polls EXCEPT ![i] = PollsCounted(i)]
      BY <1>2 DEF PollChassis
    <3> QED
      BY <3>2, <3>3, <3>4 DEF LastPoll, NodesTyped
  <2>5. failures' \in 0..MaxFailures
    BY <1>0, <1>2, FailCounts DEF PollChassis
  <2> QED
    BY <1>2, <2>3, <2>4, <2>5 DEF PollChassis, NodesTyped
<1>3. CASE Now(i, "addCentral") /\ Outcome(i, CentralUp)
  <2>1. CentralUp \in Clusters /\ CentralUp.remote \subseteq CentralUp.up
    BY <1>0 DEF CentralUp, Clusters
  <2> QED
    BY <1>3, <2>1, OutcomeTyped
<1>4. CASE Now(i, "delCentral") /\ Outcome(i, CentralDown)
  <2>1. CentralDown \in Clusters /\ CentralDown.remote \subseteq CentralDown.up
    BY <1>0 DEF CentralDown, Clusters
  <2> QED
    BY <1>4, <2>1, OutcomeTyped
<1>5. CASE OnNode(i, "add") /\ Outcome(i, NodeUp(Node(i)))
  <2>1. PICK n \in Nodes : n = Node(i) /\ Now(i, "add")
    BY <1>5, NodeFound
  <2>2. NodeUp(n) \in Clusters /\ NodeUp(n).remote \subseteq NodeUp(n).up
    BY <1>0 DEF NodeUp, Clusters
  <2> QED
    BY <1>5, <2>1, <2>2, OutcomeTyped
<1>6. CASE /\ OnNode(i, "delete")
           /\ \E stays \in {"none", "old"} : Outcome(i, NodeDown(Node(i), stays))
  <2>1. PICK n \in Nodes : n = Node(i) /\ Now(i, "delete")
    BY <1>6, NodeFound
  <2>2. PICK stays \in {"none", "old"} : Outcome(i, NodeDown(n, stays))
    BY <1>6, <2>1
  <2>3. NodeDown(n, stays) \in Clusters /\ NodeDown(n, stays).remote \subseteq NodeDown(n, stays).up
    BY <1>0 DEF NodeDown, Clusters
  <2> QED
    BY <2>1, <2>2, <2>3, OutcomeTyped
<1>7. CASE OnNode(i, "localnet") /\ Outcome(i, NodeMapped(Node(i)))
  <2>1. PICK n \in Nodes : n = Node(i) /\ Now(i, "localnet")
    BY <1>7, NodeFound
  <2>2. NodeMapped(n) \in Clusters /\ NodeMapped(n).remote \subseteq NodeMapped(n).up
    BY <1>0 DEF NodeMapped, Clusters
  <2> QED
    BY <1>7, <2>1, <2>2, OutcomeTyped
<1>8. CASE OnNode(i, "external") /\ Outcome(i, NodeExternal(Node(i), Index(i, K(i))))
  <2>1. PICK n \in Nodes : n = Node(i) /\ Now(i, "external")
    BY <1>8, NodeFound
  <2>2. PICK index \in Nat : index = Index(i, K(i))
    BY <2>1, NowHas
  <2>3. /\ NodeExternal(n, index) \in Clusters
        /\ NodeExternal(n, index).remote \subseteq NodeExternal(n, index).up
    BY <1>0 DEF NodeExternal, Clusters
  <2> QED
    BY <1>8, <2>1, <2>2, <2>3, OutcomeTyped
<1>9. CASE /\ OnNode(i, "connect") /\ Outcome(i, NodeConnected(Node(i)))
           /\ Node(i) \in cluster.up \/ cluster' = cluster
  <2>1. PICK n \in Nodes : n = Node(i) /\ Now(i, "connect")
    BY <1>9, NodeFound
  <2>2. CASE n \in cluster.up
    <3>1. NodeConnected(n) \in Clusters /\ NodeConnected(n).remote \subseteq NodeConnected(n).up
      BY <1>0, <2>2 DEF NodeConnected, Clusters
    <3> QED
      BY <1>9, <2>1, <3>1, OutcomeTyped
  <2>3. CASE cluster' = cluster
    <3>1. Outcome(i, cluster)
      BY <1>9, <2>3 DEF Outcome
    <3> QED
      BY <1>0, <2>1, <3>1, OutcomeTyped
  <2> QED
    BY <1>9, <2>1, <2>2, <2>3
<1>10. CASE OnNode(i, "gateway") /\ Outcome(i, WithGateway(Fact(i)))
  <2>1. PICK fact \in Facts : fact = Fact(i) /\ Now(i, "gateway")
    BY <1>10, NodeFound
  <2>2. WithGateway(fact) \in Clusters /\ WithGateway(fact).remote \subseteq WithGateway(fact).up
    BY <1>0 DEF WithGateway, Clusters
  <2> QED
    BY <1>10, <2>1, <2>2, OutcomeTyped
<1>11. CASE OnNode(i, "bind") /\ Outcome(i, WithPort(Fact(i)))
  <2>1. PICK fact \in Facts : fact = Fact(i) /\ Now(i, "bind")
    BY <1>11, NodeFound
  <2>2. WithPort(fact) \in Clusters /\ WithPort(fact).remote \subseteq WithPort(fact).up
    BY <1>0 DEF WithPort, Clusters
  <2> QED
    BY <1>11, <2>1, <2>2, OutcomeTyped
<1> QED
  BY <1>0, <1>1, <1>2, <1>3, <1>4, <1>5, <1>6, <1>7, <1>8, <1>9, <1>10, <1>11, Outcomes

LEMMA RegistersTyped ==
  ASSUME NodesTyped, NEW n \in Nodes, Registers(n)
  PROVE  NodesTyped'
<1>1. cluster \in Clusters /\ cluster' = [cluster EXCEPT !.chassis[n] = "current"]
  BY DEF NodesTyped, Registers
<1>2. cluster' \in Clusters /\ cluster'.remote = cluster.remote /\ cluster'.up = cluster.up
  BY <1>1 DEF Clusters
<1> QED
  BY <1>2 DEF Registers, NodesTyped

LEMMA CreateOnFarmTyped ==
  ASSUME NodesTyped, NEW i \in Iterations, CreateOnFarm(i)
  PROVE  NodesTyped'
<1>1. Now(i, "createSandbox")
  BY DEF CreateOnFarm
<1>2. Tail(todo[i]) \in Seq(NodeCallSet)
  BY <1>1, NowHas
<1>3. todo' \in [Iterations -> Seq(NodeCallSet)]
  BY <1>2 DEF CreateOnFarm, Continue, NodesTyped
<1> QED
  BY <1>3 DEF CreateOnFarm, NodesTyped

\* A farm is in context["sandboxes"] once.
LEMMA AscendingTyped ==
  ASSUME NEW farms \in SUBSET Farms, NEW s \in Ascending(farms)
  PROVE  s \in Seq(farms) /\ IsFiniteSet(farms) /\ Len(s) = Cardinality(farms)
<1>1. NumFarms \in Nat
  BY Assumed
<1>2. IsFiniteSet(farms)
  <2>1. IsFiniteSet(Farms)
    BY <1>1, FS_Interval DEF Farms
  <2> QED
    BY <2>1, FS_Subset
<1>3. Cardinality(farms) \in Nat
  BY <1>2, FS_CardinalityType
<1> QED
  BY <1>2, <1>3 DEF Ascending

TaskTyped ==
    /\ phase \in {"none", "multihost", "sandbox", "nbctld", "database", "run", "cleanup"}
    /\ done \in 0..Len(Workloads[method])
    /\ phase # "none" => done < Len(Workloads[method])
    /\ cutOff \subseteq 1..started

TypeInv == DeployInv /\ DaemonInv /\ TaskTyped /\ NodesTyped

LEMMA WorkloadTyped ==
  ASSUME DeployInv, TaskTyped
  PROVE  /\ Len(Workloads[method]) \in Nat
         /\ phase # "none" => Workload \in Works
<1>1. method \in Methods
  BY DEF DeployInv, DeployTypeOK
<1>2. Workloads[method] \in Seq(Works)
  BY <1>1, WorkloadAssumption DEF WorkloadAssumption, Works
<1>3. PICK n \in Nat : n = Len(Workloads[method])
  BY <1>2
<1>4. phase # "none" => done + 1 \in 1..n
  BY <1>3 DEF TaskTyped
<1> QED
  BY <1>2, <1>3, <1>4 DEF Workload

LEMMA NodesStep ==
  ASSUME TypeInv, [Next]_vars
  PROVE  NodesTyped'
<1>1. NodesTyped
  BY DEF TypeInv
<1>2. ASSUME UNCHANGED nodeVars PROVE NodesTyped'
  BY <1>1, <1>2 DEF nodeVars, NodesTyped
<1>3. CASE Command \/ StartTask \/ SetupMultihost \/ SetupDaemon \/ EndRun \/ Cleanup
  BY <1>2, <1>3 DEF Command, StartTask, SetupMultihost, SetupDaemon, EndRun, Cleanup
<1>4. CASE SetupSandbox
  <2>1. sandboxes' \in Seq(Nodes)
    <3>1. boxes \in SUBSET Farms /\ Nodes = Farms
      BY Assumed DEF Farms, TypeInv, DeployInv, DeployTypeOK
    <3>2. sandboxes' \in Ascending(boxes)
      BY <1>4 DEF SetupSandbox
    <3>3. sandboxes' \in Seq(boxes)
      BY <3>1, <3>2, AscendingTyped
    <3> QED
      BY <3>1, <3>3
  <2>2. UNCHANGED <<work, todo, polls, cluster, waited, gaveUp, failures>>
    BY <1>4 DEF SetupSandbox
  <2> QED
    BY <1>1, <2>1, <2>2 DEF NodesTyped
<1>5. CASE SetupDatabase
  <2>1. UNCHANGED <<sandboxes, polls, cluster, waited, gaveUp, failures>>
    BY <1>5 DEF SetupDatabase
  <2>2. CASE UNCHANGED <<work, todo>>
    BY <1>1, <2>1, <2>2 DEF NodesTyped
  <2>3. CASE Begin(Workload)
    <3>1. Workload \in Works
      BY <1>5, WorkloadTyped DEF SetupDatabase, TypeInv
    <3>2. PICK w \in Works : w = Workload
      BY <3>1
    <3>3. Program(w) \in Seq(NodeCallSet)
      BY ProgramTyped
    <3>4. /\ work' = w
          /\ todo' = [i \in Iterations |-> IF i < w.times THEN Program(w) ELSE <<>>]
      BY <2>3, <3>2 DEF Begin
    <3>5. todo' \in [Iterations -> Seq(NodeCallSet)]
      BY <3>3, <3>4
    <3>6. work'.batch \in Nat \ {0}
      BY <3>4 DEF Works
    <3> QED
      BY <1>1, <2>1, <3>5, <3>6 DEF NodesTyped
  <2> QED
    BY <1>5, <2>2, <2>3 DEF SetupDatabase
<1>6. CASE Run
  BY <1>1, <1>6, CreateOnFarmTyped, IterateTyped DEF Run
<1>7. CASE Registration
  BY <1>1, <1>7, RegistersTyped DEF Registration
<1>8. CASE UNCHANGED vars
  BY <1>2, <1>8 DEF vars
<1> QED
  BY <1>3, <1>4, <1>5, <1>6, <1>7, <1>8 DEF Next, Task

\* No action but Init chooses the method.
LEMMA MethodFixed ==
  ASSUME [Next]_vars
  PROVE  method' = method
<1>1. DeployNext => method' = method
  BY DEF DeployNext, Create, Destroy, Perform, NewRecord, Install, Start, Register,
         SkipScript, RunScript, ScriptFails, ControllerUnreachable
<1>2. CASE Command
  BY <1>1, <1>2 DEF Command
<1>3. CASE StartTask \/ SetupMultihost \/ SetupSandbox \/ SetupDaemon \/ SetupDatabase
           \/ EndRun \/ Cleanup \/ Registration \/ UNCHANGED vars
  BY <1>3 DEF StartTask, SetupMultihost, SetupSandbox, SetupDaemon, SetupDatabase, EndRun,
              Cleanup, Registration, deployVars, vars
<1>4. CASE Run
  BY <1>4 DEF Run, CreateOnFarm, CreateSandbox, deployVars
<1> QED
  BY <1>2, <1>3, <1>4 DEF Next, Task

LEMMA TaskStep ==
  ASSUME TypeInv, [Next]_vars
  PROVE  TaskTyped'
<1>0. /\ Len(Workloads[method]) \in Nat /\ method' = method /\ TaskTyped
      /\ started \in Nat /\ daemon \in 0..started
      /\ socket # 0 => daemon = socket
  BY MethodFixed, WorkloadTyped DEF TypeInv, DaemonInv
<1>1. ASSUME UNCHANGED taskVars PROVE TaskTyped'
  BY <1>0, <1>1 DEF taskVars, TaskTyped
<1>2. ASSUME UNCHANGED <<done, started, cutOff>>, phase # "none" \/ done < Len(Workloads[method]),
             phase' \in {"multihost", "sandbox", "nbctld", "database", "run", "cleanup"}
      PROVE  TaskTyped'
  BY <1>0, <1>2 DEF TaskTyped
<1>3. CASE Command \/ Run \/ Registration \/ UNCHANGED vars
  BY <1>1, <1>3 DEF Command, Run, Registration, vars
<1>4. CASE StartTask
  BY <1>2, <1>4 DEF StartTask
<1>5. CASE SetupMultihost
  BY <1>2, <1>5 DEF SetupMultihost
<1>6. CASE SetupSandbox
  <2>1. phase = "sandbox" /\ UNCHANGED <<done, started, cutOff>>
    BY <1>6 DEF SetupSandbox
  <2>2. phase' \in {"nbctld", "database"}
    BY <1>6 DEF SetupSandbox
  <2> QED
    BY <1>2, <2>1, <2>2
<1>7. CASE SetupDaemon
  <2>1. phase = "nbctld" /\ phase' \in {"database", "cleanup"} /\ done' = done
    BY <1>7 DEF SetupDaemon
  <2>2. CASE started' = started + 1 /\ cutOff' \in {cutOff, cutOff \cup {started'}}
    BY <1>0, <2>1, <2>2 DEF TaskTyped
  <2>3. CASE UNCHANGED <<started, cutOff>>
    BY <1>2, <2>1, <2>3
  <2> QED
    BY <1>7, <2>2, <2>3 DEF SetupDaemon, DaemonStarts
<1>8. CASE SetupDatabase \/ EndRun
  BY <1>2, <1>8 DEF SetupDatabase, EndRun
<1>9. CASE Cleanup
  <2>1. phase # "none" /\ phase' = "none" /\ done' = done + 1 /\ started' = started
    BY <1>9 DEF Cleanup
  <2>2. cutOff' = cutOff \/ (socket # 0 /\ cutOff' = cutOff \cup {daemon})
    BY <1>9 DEF Cleanup, StopsDaemon
  <2>3. socket # 0 => daemon \in 1..started
    BY <1>0
  <2>4. cutOff' \subseteq 1..started'
    BY <1>0, <2>1, <2>2, <2>3 DEF TaskTyped
  <2>5. done' \in 0..Len(Workloads[method])
    BY <1>0, <2>1 DEF TaskTyped
  <2> QED
    BY <1>0, <2>1, <2>4, <2>5 DEF TaskTyped
<1> QED
  BY <1>3, <1>4, <1>5, <1>6, <1>7, <1>8, <1>9 DEF Next, Task

LEMMA TypeInvInit == Init => TypeInv
<1> SUFFICES ASSUME Init PROVE TypeInv
  OBVIOUS
<1>1. DeployInv
  BY DeployInitInv DEF Init
<1>2. DaemonInv
  BY DEF Init, DaemonInv
<1>3. TaskTyped
  <2>1. method \in Methods
    BY <1>1 DEF DeployInv, DeployTypeOK
  <2>2. Workloads[method] \in Seq(Works)
    BY <2>1, WorkloadAssumption DEF WorkloadAssumption, Works
  <2>3. Len(Workloads[method]) \in Nat
    BY <2>2
  <2> QED
    BY <2>3 DEF Init, TaskTyped
<1>4. NodesTyped
  <2>1. EmptyCluster \in Clusters /\ EmptyCluster.remote \subseteq EmptyCluster.up
    BY Assumed DEF EmptyCluster, Clusters
  <2>2. LeftCluster \in Clusters /\ LeftCluster.remote \subseteq LeftCluster.up
    BY <2>1, Assumed DEF LeftCluster, EmptyCluster, Clusters
  <2>3. <<>> \in Seq(Nodes) /\ <<>> \in Seq(NodeCallSet)
    OBVIOUS
  <2> QED
    BY <2>1, <2>2, <2>3, Assumed DEF Init, NodesInit, NoWork, NodesTyped
<1> QED
  BY <1>1, <1>2, <1>3, <1>4 DEF TypeInv

LEMMA TypeInvariance == Spec => []TypeInv
<1>1. TypeInv /\ [Next]_vars => TypeInv'
  BY DeployStepInv, DaemonStepInv, TaskStep, NodesStep DEF TypeInv
<1> QED
  BY <1>1, TypeInvInit, PTL DEF Spec

\* Type correctness of a test bed, for any number of farms, nodes left over,
\* workloads and failures: no poll goes on after the last one that
\* max_timeout_s allows, and only nodes that are up have a remote.
THEOREM TypeCorrect == Spec => []TypeOK
<1>1. ASSUME TypeInv PROVE TypeOK
  <2>1. DeployTypeOK /\ started \in Nat /\ socket \in 0..started /\ daemon \in 0..started
    BY <1>1 DEF TypeInv, DeployInv, DaemonInv
  <2>2. /\ \A k \in DOMAIN sandboxes : sandboxes[k] \in Nodes
        /\ polls \in [Iterations -> 0..(Polls - 1)]
        /\ cluster.up \subseteq Nodes /\ cluster.remote \subseteq cluster.up
        /\ failures \in 0..MaxFailures
    BY <1>1 DEF TypeInv, NodesTyped, Clusters
  <2> QED
    BY <1>1, <2>1, <2>2 DEF TypeInv, TaskTyped, TypeOK
<1> QED
  BY <1>1, TypeInvariance, PTL

-----------------------------------------------------------------------------
(***************************************************************************)
(* Where an iteration is in its program, and what it has done by then.     *)
(***************************************************************************)

\* The call d comes before every e.
Precedes(d, e, s) == \A p \in 1..Len(s) : s[p] = e => \E q \in 1..(p - 1) : s[q] = d

LEMMA PrecedesCat ==
  ASSUME NEW S, NEW r \in Seq(S), NEW s \in Seq(S), NEW d, NEW e, In(d, r), Precedes(d, e, r)
  PROVE  Precedes(d, e, r \o s)
<1> SUFFICES ASSUME NEW p \in 1..Len(r \o s), (r \o s)[p] = e
             PROVE  \E q \in 1..(p - 1) : (r \o s)[q] = d
  BY DEF Precedes
<1>1. PICK n \in Nat : n = Len(r) /\ \A q \in 1..n : (r \o s)[q] = r[q]
  OBVIOUS
<1>2. CASE p \in 1..n
  <2>1. PICK q \in 1..(p - 1) : r[q] = d
    BY <1>1, <1>2 DEF Precedes
  <2> QED
    BY <1>1, <1>2, <2>1
<1>3. CASE p > n
  <2>1. PICK q \in 1..n : r[q] = d
    BY <1>1 DEF In
  <2>2. q \in 1..(p - 1)
    BY <1>1, <1>3
  <2> QED
    BY <1>1, <2>1, <2>2
<1> QED
  BY <1>1, <1>2, <1>3

LEMMA PrecedesAbsent ==
  ASSUME NEW s, NEW d, NEW e, ~In(e, s)
  PROVE  Precedes(d, e, s)
BY DEF In, Precedes

LEMMA InNumbered ==
  ASSUME NEW s, NEW do, NEW n \in Nat, Numbered(s, do, n)
  PROVE  /\ \A c : In(c, s) => c.do = do /\ c.k \in 0..(n - 1)
         /\ \A k \in 0..(n - 1) : In([do |-> do, k |-> k], s)
<1>1. Len(s) = n /\ \A j \in 1..n : s[j] = [do |-> do, k |-> j - 1]
  BY DEF Numbered
<1>2. \A c : In(c, s) => c.do = do /\ c.k \in 0..(n - 1)
  BY <1>1 DEF In
<1>3. ASSUME NEW k \in 0..(n - 1) PROVE In([do |-> do, k |-> k], s)
  <2>1. k + 1 \in 1..n /\ (k + 1) - 1 = k
    OBVIOUS
  <2>2. s[k + 1] = [do |-> do, k |-> k]
    BY <1>1, <2>1
  <2> QED
    BY <1>1, <2>1, <2>2 DEF In
<1> QED
  BY <1>2, <1>3

Init3(w) == Calls(w, "add") \o Calls(w, "localnet") \o Calls(w, "external")
Setup4(w) == Calls(w, "connect") \o Calls(w, "wait") \o GatewayCalls(w) \o Calls(w, "bind")

\* The first half of the set-up of a switch per node.
LEMMA InitCalls ==
  ASSUME NEW w \in Works
  PROVE  /\ \A c : In(c, Init3(w)) =>
               c.do \in {"add", "localnet", "external"} /\ c.k \in 0..(w.batch - 1)
         /\ \A k \in 0..(w.batch - 1) :
               Precedes([do |-> "localnet", k |-> k], [do |-> "external", k |-> k], Init3(w))
<1>1. PICK n \in Nat \ {0} : n = w.batch
  BY DEF Works
<1>2. PICK r \in Seq(NodeCallSet) : r = Calls(w, "add") /\ Numbered(r, "add", n)
  BY <1>1, CallsNumbered DEF Dos, NodeCalls, Numbered
<1>3. PICK s \in Seq(NodeCallSet) : s = Calls(w, "localnet") /\ Numbered(s, "localnet", n)
  BY <1>1, CallsNumbered DEF Dos, NodeCalls, Numbered
<1>4. PICK t \in Seq(NodeCallSet) : t = Calls(w, "external") /\ Numbered(t, "external", n)
  BY <1>1, CallsNumbered DEF Dos, NodeCalls, Numbered
<1>5. PICK q \in Seq(NodeCallSet) : q = r \o s
  BY CatTyped DEF Cat
<1>6. Init3(w) = q \o t
  BY <1>2, <1>3, <1>4, <1>5 DEF Init3
<1>7. \A c : In(c, r) => c.do = "add" /\ c.k \in 0..(n - 1)
  BY <1>2, InNumbered
<1>8. \A c : In(c, s) => c.do = "localnet" /\ c.k \in 0..(n - 1)
  BY <1>3, InNumbered
<1>9. \A c : In(c, t) => c.do = "external" /\ c.k \in 0..(n - 1)
  BY <1>4, InNumbered
<1>10. \A c : In(c, r \o s) <=> In(c, r) \/ In(c, s)
  BY InConcat
<1>11. \A c : In(c, q \o t) <=> In(c, q) \/ In(c, t)
  BY InConcat
<1>12. ASSUME NEW c, In(c, Init3(w))
       PROVE  c.do \in {"add", "localnet", "external"} /\ c.k \in 0..(w.batch - 1)
  BY <1>1, <1>5, <1>6, <1>7, <1>8, <1>9, <1>10, <1>11, <1>12
<1>13. ASSUME NEW k \in 0..(w.batch - 1)
       PROVE  Precedes([do |-> "localnet", k |-> k], [do |-> "external", k |-> k], Init3(w))
  <2>1. PICK d : d = [do |-> "localnet", k |-> k]
    OBVIOUS
  <2>2. PICK e : e = [do |-> "external", k |-> k]
    OBVIOUS
  <2>3. In(d, s)
    BY <1>1, <1>3, <2>1, InNumbered
  <2>4. ~In(e, r) /\ ~In(e, s)
    BY <1>7, <1>8, <2>2
  <2>5. In(d, q) /\ ~In(e, q)
    BY <1>5, <1>10, <2>3, <2>4
  <2>6. Precedes(d, e, q \o t)
    BY <2>5, PrecedesAbsent, PrecedesCat
  <2> QED
    BY <1>6, <2>1, <2>2, <2>6
<1> QED
  BY <1>12, <1>13

\* The second half: the gateway of a network and the port on it come after the
\* wait for the node.
LEMMA SetupCalls ==
  ASSUME NEW w \in Works
  PROVE  /\ \A c : In(c, Setup4(w)) =>
               c.do \in {"connect", "wait", "gateway", "bind"} /\ c.k \in 0..(w.batch - 1)
         /\ \A k \in 0..(w.batch - 1) : \A do \in {"gateway", "bind"} :
               Precedes([do |-> "wait", k |-> k], [do |-> do, k |-> k], Setup4(w))
<1>1. PICK n \in Nat \ {0} : n = w.batch
  BY DEF Works
<1>2. PICK r \in Seq(NodeCallSet) : r = Calls(w, "connect") /\ Numbered(r, "connect", n)
  BY <1>1, CallsNumbered DEF Dos, NodeCalls, Numbered
<1>3. PICK s \in Seq(NodeCallSet) : s = Calls(w, "wait") /\ Numbered(s, "wait", n)
  BY <1>1, CallsNumbered DEF Dos, NodeCalls, Numbered
<1>4. PICK g \in 0..n : Numbered(GatewayCalls(w), "gateway", g)
  BY <1>1, GatewaysNumbered
<1>5. PICK t \in Seq(NodeCallSet) : t = GatewayCalls(w) /\ Numbered(t, "gateway", g)
  BY <1>4 DEF Numbered
<1>6. PICK u \in Seq(NodeCallSet) : u = Calls(w, "bind") /\ Numbered(u, "bind", n)
  BY <1>1, CallsNumbered DEF Dos, NodeCalls, Numbered
<1>7. PICK p \in Seq(NodeCallSet) : p = r \o s
  BY CatTyped DEF Cat
<1>8. PICK q \in Seq(NodeCallSet) : q = p \o t
  BY CatTyped DEF Cat
<1>9. Setup4(w) = q \o u
  BY <1>2, <1>3, <1>5, <1>6, <1>7, <1>8 DEF Setup4
<1>10. \A c : In(c, r) => c.do = "connect" /\ c.k \in 0..(n - 1)
  BY <1>2, InNumbered
<1>11. \A c : In(c, s) => c.do = "wait" /\ c.k \in 0..(n - 1)
  BY <1>3, InNumbered
<1>12. \A c : In(c, t) => c.do = "gateway" /\ c.k \in 0..(n - 1)
  <2>1. g \in Nat /\ \A k \in 0..(g - 1) : k \in 0..(n - 1)
    OBVIOUS
  <2>2. \A c : In(c, t) => c.do = "gateway" /\ c.k \in 0..(g - 1)
    BY <1>5, <2>1, InNumbered
  <2> QED
    BY <2>1, <2>2
<1>13. \A c : In(c, u) => c.do = "bind" /\ c.k \in 0..(n - 1)
  BY <1>6, InNumbered
<1>14. \A c : In(c, r \o s) <=> In(c, r) \/ In(c, s)
  BY InConcat
<1>15. \A c : In(c, p \o t) <=> In(c, p) \/ In(c, t)
  BY InConcat
<1>16. \A c : In(c, q \o u) <=> In(c, q) \/ In(c, u)
  BY InConcat
<1>17. ASSUME NEW c, In(c, Setup4(w))
       PROVE  c.do \in {"connect", "wait", "gateway", "bind"} /\ c.k \in 0..(w.batch - 1)
  <2>1. In(c, r) \/ In(c, s) \/ In(c, t) \/ In(c, u)
    BY <1>7, <1>8, <1>9, <1>14, <1>15, <1>16, <1>17
  <2> QED
    BY <1>1, <1>10, <1>11, <1>12, <1>13, <2>1
<1>18. ASSUME NEW k \in 0..(w.batch - 1), NEW do \in {"gateway", "bind"}
       PROVE  Precedes([do |-> "wait", k |-> k], [do |-> do, k |-> k], Setup4(w))
  <2>1. PICK d : d = [do |-> "wait", k |-> k]
    OBVIOUS
  <2>2. PICK e : e = [do |-> do, k |-> k]
    OBVIOUS
  <2>3. In(d, s)
    BY <1>1, <1>3, <2>1, InNumbered
  <2>4. e.do \notin {"connect", "wait"}
    BY <2>2
  <2>5. In(d, p) /\ ~In(e, p)
    BY <1>7, <1>10, <1>11, <1>14, <2>3, <2>4
  <2>6. Precedes(d, e, p \o t)
    BY <2>5, PrecedesAbsent, PrecedesCat
  <2>7. In(d, q) /\ Precedes(d, e, q)
    BY <1>8, <1>15, <2>5, <2>6
  <2>8. Precedes(d, e, q \o u)
    BY <2>7, PrecedesCat
  <2> QED
    BY <1>9, <2>1, <2>2, <2>8
<1> QED
  BY <1>17, <1>18

\* Which calls a scenario makes.
LEMMA ProgramCalls ==
  ASSUME NEW w \in Works, NEW c, In(c, Program(w))
  PROVE  \/ w.scenario = "create_sandbox" /\ c.do = "createSandbox"
         \/ w.scenario = "add_central_node" /\ c.do = "addCentral"
         \/ w.scenario = "del_central_node" /\ c.do = "delCentral"
         \/ w.scenario = "del_chassis_nodes" /\ c.do = "delete"
         \/ /\ w.scenario = "setup_switch_per_node_init" /\ c.k \in 0..(w.batch - 1)
            /\ c.do \in {"add", "localnet", "external"}
         \/ /\ w.scenario = "setup_switch_per_node" /\ c.k \in 0..(w.batch - 1)
            /\ c.do \in {"connect", "wait", "gateway", "bind"}
<1>0. w.batch \in Nat \ {0}
  BY DEF Works
<1>1. ASSUME NEW do \in Dos, In(c, Calls(w, do)) PROVE c.do = do
  BY <1>0, <1>1, CallsNumbered, InNumbered
<1>2. CASE w.scenario = "create_sandbox"
  BY <1>1, <1>2 DEF Program, Dos
<1>3. CASE w.scenario = "add_central_node"
  <2>1. Program(w) = <<[do |-> "addCentral", k |-> 0]>>
    BY <1>3 DEF Program
  <2> QED
    BY <1>3, <2>1 DEF In
<1>4. CASE w.scenario = "del_central_node"
  <2>1. Program(w) = <<[do |-> "delCentral", k |-> 0]>>
    BY <1>4 DEF Program
  <2> QED
    BY <1>4, <2>1 DEF In
<1>5. CASE w.scenario = "del_chassis_nodes"
  BY <1>1, <1>5 DEF Program, Dos, NodeCalls
<1>6. CASE w.scenario = "setup_switch_per_node_init"
  <2>1. Program(w) = Init3(w)
    BY <1>6 DEF Program, Init3
  <2> QED
    BY <1>6, <2>1, InitCalls
<1>7. CASE w.scenario = "setup_switch_per_node"
  <2>1. Program(w) = Setup4(w)
    BY <1>7 DEF Program, Setup4
  <2> QED
    BY <1>7, <2>1, SetupCalls
<1>8. CASE w.scenario \notin {"create_sandbox", "add_central_node", "del_central_node",
                              "del_chassis_nodes", "setup_switch_per_node_init",
                              "setup_switch_per_node"}
  <2>1. Program(w) = <<>>
    BY <1>8 DEF Program
  <2> QED
    BY <2>1 DEF In
<1> QED
  BY <1>2, <1>3, <1>4, <1>5, <1>6, <1>7, <1>8

\* What a call of iteration i has done when it is behind it.
DoneCall(i, c) ==
    LET index == Index(i, c.k)
        node  == NodeOf(index)
    IN  /\ c.do = "localnet" => node \in cluster.mapped
        /\ c.do = "wait" =>
              /\ <<index, node>> \in waited /\ node \in Nodes
              /\ cluster.chassis[node] = "current" \/ node \in gaveUp \/ cluster.kept

Rest(s, p) == SubSeq(s, p, Len(s))

OnTrack(i) ==
    todo[i] # <<>> =>
        /\ i < work.times
        /\ \E p \in 1..Len(Program(work)) :
              /\ todo[i] = Rest(Program(work), p)
              /\ \A q \in 1..(p - 1) : DoneCall(i, Program(work)[q])

\* While iterations run, each of them is in its program or has ended.
RunInv ==
    /\ phase = "run" => work = Workload /\ \A i \in Iterations : OnTrack(i)
    /\ \A n \in Nodes : cluster.chassis[n] = "old" => cluster.kept

LEMMA RestHeadTail ==
  ASSUME NEW S, NEW s \in Seq(S), NEW p \in 1..Len(s)
  PROVE  /\ Head(Rest(s, p)) = s[p] /\ Tail(Rest(s, p)) = Rest(s, p + 1)
         /\ In(s[p], s) /\ s[p] \in S
         /\ Rest(s, p + 1) # <<>> => p + 1 \in 1..Len(s)
<1>1. /\ Head(Rest(s, p)) = s[p] /\ Tail(Rest(s, p)) = Rest(s, p + 1)
      /\ Rest(s, p + 1) # <<>> => p + 1 \in 1..Len(s)
  BY DEF Rest
<1> QED
  BY <1>1 DEF In

\* What a step leaves of what was done.
Steady ==
    /\ UNCHANGED <<sandboxes, work>>
    /\ waited \subseteq waited' /\ gaveUp \subseteq gaveUp'
    /\ cluster.mapped \subseteq cluster'.mapped
    /\ cluster.kept => cluster'.kept
    /\ \A n \in Nodes : cluster.chassis[n] = "current" => cluster'.chassis[n] = "current"

LEMMA DoneStays ==
  ASSUME Steady
  PROVE  \A i, c : DoneCall(i, c) => DoneCall(i, c)'
<1> SUFFICES ASSUME NEW i, NEW c, DoneCall(i, c) PROVE DoneCall(i, c)'
  OBVIOUS
<1>1. Index(i, c.k)' = Index(i, c.k) /\ NodeOf(Index(i, c.k))' = NodeOf(Index(i, c.k))
  BY DEF Steady, Index, NodeOf, FarmsUsed
<1> QED
  BY <1>1 DEF Steady, DoneCall

\* Only deletions undo what calls have done.
LEMMA IterateSteady ==
  ASSUME NodesTyped, NEW i \in Iterations, Iterate(i),
         Head(todo[i]).do \notin {"delete", "delCentral"}
  PROVE  Steady
<1>0. cluster \in Clusters /\ failures \in 0..MaxFailures
  BY DEF NodesTyped
<1>1. ASSUME cluster' = cluster, UNCHANGED <<sandboxes, work>>, waited \subseteq waited',
             gaveUp \subseteq gaveUp'
      PROVE  Steady
  BY <1>1 DEF Steady
<1>2. ASSUME NEW after, Outcome(i, after),
             cluster.mapped \subseteq after.mapped, cluster.kept => after.kept,
             \A n \in Nodes : cluster.chassis[n] = "current" => after.chassis[n] = "current"
      PROVE  Steady
  BY <1>2 DEF Outcome, Steady
<1>3. CASE NotFound(i) \/ PollChassis(i)
  BY <1>1, <1>3 DEF NotFound, PollChassis
<1>4. CASE Outcome(i, CentralUp)
  BY <1>0, <1>2, <1>4 DEF CentralUp, Clusters
<1>5. CASE Outcome(i, NodeUp(Node(i)))
  BY <1>0, <1>2, <1>5 DEF NodeUp, Clusters
<1>6. CASE Outcome(i, NodeMapped(Node(i)))
  BY <1>0, <1>2, <1>6 DEF NodeMapped, Clusters
<1>7. CASE Outcome(i, NodeExternal(Node(i), Index(i, K(i))))
  BY <1>0, <1>2, <1>7 DEF NodeExternal, Clusters
<1>8. CASE Outcome(i, NodeConnected(Node(i)))
  BY <1>0, <1>2, <1>8 DEF NodeConnected, Clusters
<1>9. CASE Outcome(i, WithGateway(Fact(i)))
  BY <1>0, <1>2, <1>9 DEF WithGateway, Clusters
<1>10. CASE Outcome(i, WithPort(Fact(i)))
  BY <1>0, <1>2, <1>10 DEF WithPort, Clusters
<1>11. ~OnNode(i, "delete") /\ ~Now(i, "delCentral")
  BY DEF OnNode, Now
<1> QED
  BY <1>0, <1>3, <1>4, <1>5, <1>6, <1>7, <1>8, <1>9, <1>10, <1>11, Outcomes

\* The list of an iteration loses its head, or all of it, or nothing; and when
\* it loses its head that call has done what it should.
LEMMA IterateTodo ==
  ASSUME NodesTyped, NEW i \in Iterations, Iterate(i),
         \A n \in Nodes : cluster.chassis[n] = "old" => cluster.kept
  PROVE  /\ todo[i] # <<>>
         /\ \/ todo' = todo \/ todo' = [todo EXCEPT ![i] = <<>>]
            \/ /\ todo' = [todo EXCEPT ![i] = Tail(@)]
               /\ \E c : c = Head(todo[i]) /\ DoneCall(i, c)'
<1>0. cluster \in Clusters /\ failures \in 0..MaxFailures
  BY DEF NodesTyped
<1>c. PICK c : c = Head(todo[i])
  OBVIOUS
<1>1. CASE NotFound(i)
  BY <1>1 DEF NotFound, Now, Raise
<1>2. ASSUME UNCHANGED <<sandboxes, work>>
      PROVE  /\ Index(i, c.k)' = Index(i, K(i))
             /\ NodeOf(Index(i, c.k))' = Node(i)
  BY <1>c, <1>2 DEF Index, NodeOf, FarmsUsed, K, Node
<1>3. CASE PollChassis(i)
  <2>1. Now(i, "wait") /\ Node(i) \in Nodes /\ UNCHANGED <<sandboxes, work, cluster>>
    BY <1>3, NodeFound DEF PollChassis
  <2>2. todo[i] # <<>> /\ Head(todo[i]).do = "wait"
    BY <2>1 DEF Now
  <2>3. CASE todo' = todo \/ Raise(i)
    BY <2>2, <2>3 DEF Raise
  <2>4. CASE /\ Continue(i) /\ waited' = waited \cup {<<Index(i, K(i)), Node(i)>>}
             /\ gaveUp' = IF Answers(Node(i)) THEN gaveUp ELSE gaveUp \cup {Node(i)}
    <3>1. cluster.chassis[Node(i)] \in {"none", "old", "current"}
      BY <1>0, <2>1 DEF Clusters
    <3>2. \/ cluster.chassis[Node(i)] = "current" \/ Node(i) \in gaveUp' \/ cluster.kept
      BY <2>1, <2>4, <3>1 DEF Answers
    <3>3. /\ Index(i, c.k)' = Index(i, K(i)) /\ NodeOf(Index(i, c.k))' = Node(i)
      BY <1>2, <2>1
    <3>4. DoneCall(i, c)'
      BY <1>c, <2>1, <2>2, <2>4, <3>2, <3>3 DEF DoneCall
    <3> QED
      BY <1>c, <2>2, <2>4, <3>4 DEF Continue
  <2> QED
    BY <1>3, <2>3, <2>4 DEF PollChassis
<1>4. ASSUME NEW do, Now(i, do), do \notin {"localnet", "wait"}, NEW after, Outcome(i, after)
      PROVE  /\ todo[i] # <<>>
             /\ \/ todo' = todo \/ todo' = [todo EXCEPT ![i] = <<>>]
                \/ /\ todo' = [todo EXCEPT ![i] = Tail(@)]
                   /\ \E d : d = Head(todo[i]) /\ DoneCall(i, d)'
  <2>1. todo[i] # <<>> /\ c.do \notin {"localnet", "wait"}
    BY <1>c, <1>4 DEF Now
  <2>2. DoneCall(i, c)'
    BY <2>1 DEF DoneCall
  <2> QED
    BY <1>c, <1>4, <2>1, <2>2 DEF Outcome, Continue, Raise
<1>5. CASE OnNode(i, "localnet") /\ Outcome(i, NodeMapped(Node(i)))
  <2>1. todo[i] # <<>> /\ Head(todo[i]).do = "localnet"
    BY <1>5 DEF OnNode, Now
  <2>2. CASE Raise(i)
    BY <2>1, <2>2 DEF Raise
  <2>3. CASE Continue(i) /\ cluster' = NodeMapped(Node(i))
    <3>1. Node(i) \in cluster'.mapped
      BY <1>0, <2>3 DEF NodeMapped, Clusters
    <3>2. /\ Index(i, c.k)' = Index(i, K(i)) /\ NodeOf(Index(i, c.k))' = Node(i)
      BY <1>2, <1>5 DEF Outcome
    <3>3. DoneCall(i, c)'
      BY <1>c, <2>1, <3>1, <3>2 DEF DoneCall
    <3> QED
      BY <1>c, <2>1, <2>3, <3>3 DEF Continue
  <2> QED
    BY <1>5, <2>2, <2>3 DEF Outcome
<1>6. \A do : OnNode(i, do) => Now(i, do)
  BY DEF OnNode
<1>7. CASE Now(i, "addCentral") /\ Outcome(i, CentralUp)
  BY <1>4, <1>7
<1>8. CASE Now(i, "delCentral") /\ Outcome(i, CentralDown)
  BY <1>4, <1>8
<1>9. CASE OnNode(i, "add") /\ Outcome(i, NodeUp(Node(i)))
  BY <1>4, <1>6, <1>9
<1>10. CASE /\ OnNode(i, "delete")
            /\ \E stays \in {"none", "old"} : Outcome(i, NodeDown(Node(i), stays))
  BY <1>4, <1>6, <1>10
<1>11. CASE OnNode(i, "external") /\ Outcome(i, NodeExternal(Node(i), Index(i, K(i))))
  BY <1>4, <1>6, <1>11
<1>12. CASE OnNode(i, "connect") /\ Outcome(i, NodeConnected(Node(i)))
  BY <1>4, <1>6, <1>12
<1>13. CASE OnNode(i, "gateway") /\ Outcome(i, WithGateway(Fact(i)))
  BY <1>4, <1>6, <1>13
<1>14. CASE OnNode(i, "bind") /\ Outcome(i, WithPort(Fact(i)))
  BY <1>4, <1>6, <1>14
<1> QED
  BY <1>0, <1>1, <1>3, <1>5, <1>7, <1>8, <1>9, <1>10, <1>11, <1>12, <1>13, <1>14, Outcomes

LEMMA Advance ==
  ASSUME NodesTyped, work \in Works, NEW i \in Iterations,
         \A j \in Iterations : OnTrack(j),
         todo[i] # <<>>, work' = work, NEW s \in Seq(NodeCallSet), s = Program(work),
         \/ todo' = todo \/ todo' = [todo EXCEPT ![i] = <<>>]
         \/ /\ todo' = [todo EXCEPT ![i] = Tail(@)]
            /\ \E c : c = Head(todo[i]) /\ DoneCall(i, c)',
         \A j \in Iterations : \A q \in 1..Len(s) : DoneCall(j, s[q]) => DoneCall(j, s[q])'
  PROVE  \A j \in Iterations : OnTrack(j)'
<1>2. Len(s) \in Nat
  OBVIOUS
<1>4. ASSUME NEW j \in Iterations
      PROVE  OnTrack(j) <=> (todo[j] # <<>> =>
                               /\ j < work.times
                               /\ \E p \in 1..Len(s) :
                                     todo[j] = Rest(s, p) /\ \A q \in 1..(p - 1) : DoneCall(j, s[q]))
  BY DEF OnTrack
<1>5. ASSUME NEW j \in Iterations
      PROVE  OnTrack(j)' <=> (todo'[j] # <<>> =>
                               /\ j < work.times
                               /\ \E p \in 1..Len(s) :
                                     todo'[j] = Rest(s, p) /\ \A q \in 1..(p - 1) : DoneCall(j, s[q])')
  BY DEF OnTrack
<1>6. ASSUME NEW j \in Iterations, todo'[j] = todo[j]
      PROVE  OnTrack(j)'
  <2>1. SUFFICES ASSUME todo[j] # <<>>
                 PROVE  /\ j < work.times
                        /\ \E p \in 1..Len(s) :
                              todo'[j] = Rest(s, p) /\ \A q \in 1..(p - 1) : DoneCall(j, s[q])'
    BY <1>5, <1>6
  <2>2. PICK p \in 1..Len(s) : todo[j] = Rest(s, p) /\ \A q \in 1..(p - 1) : DoneCall(j, s[q])
    BY <1>4, <2>1
  <2>3. \A q \in 1..(p - 1) : DoneCall(j, s[q])'
    BY <1>2, <2>2
  <2> QED
    BY <1>4, <1>6, <2>1, <2>2, <2>3
<1>7. ASSUME todo'[i] = <<>>
      PROVE  OnTrack(i)'
  BY <1>5, <1>7
<1>8. ASSUME NEW c, c = Head(todo[i]), DoneCall(i, c)', todo'[i] = Tail(todo[i])
      PROVE  OnTrack(i)'
  <2>1. PICK p \in 1..Len(s) : todo[i] = Rest(s, p) /\ \A q \in 1..(p - 1) : DoneCall(i, s[q])
    BY <1>4
  <2>2. /\ c = s[p] /\ todo'[i] = Rest(s, p + 1)
        /\ Rest(s, p + 1) # <<>> => p + 1 \in 1..Len(s)
    BY <1>8, <2>1, RestHeadTail
  <2>3. \A q \in 1..(p - 1) : DoneCall(i, s[q])'
    BY <1>2, <2>1
  <2>4. \A q \in 1..((p + 1) - 1) : DoneCall(i, s[q])'
    BY <1>2, <1>8, <2>2, <2>3
  <2> QED
    BY <1>4, <1>5, <2>2, <2>4
<1> QED
  BY <1>6, <1>7, <1>8 DEF NodesTyped

\* The call at hand is one of the program.
LEMMA HeadInProgram ==
  ASSUME work \in Works, NEW i \in Iterations, OnTrack(i), todo[i] # <<>>
  PROVE  /\ In(Head(todo[i]), Program(work)) /\ i < work.times
         /\ \E p \in 1..Len(Program(work)) :
               /\ Head(todo[i]) = Program(work)[p]
               /\ \A q \in 1..(p - 1) : DoneCall(i, Program(work)[q])
<1>1. PICK s \in Seq(NodeCallSet) : s = Program(work)
  BY ProgramTyped
<1>2. PICK p \in 1..Len(s) : todo[i] = Rest(s, p) /\ \A q \in 1..(p - 1) : DoneCall(i, s[q])
  BY <1>1 DEF OnTrack
<1>3. Head(todo[i]) = s[p] /\ In(s[p], s)
  BY <1>2, RestHeadTail
<1> QED
  BY <1>1, <1>2, <1>3 DEF OnTrack

LEMMA OnTrackStays ==
  ASSUME Steady, todo' = todo, NEW j, OnTrack(j)
  PROVE  OnTrack(j)'
<1>1. \A c : DoneCall(j, c) => DoneCall(j, c)'
  BY DoneStays
<1>2. PICK s : s = Program(work)
  OBVIOUS
<1>3. Program(work)' = s /\ work' = work
  BY <1>2 DEF Steady
<1>4. CASE todo[j] = <<>>
  BY <1>4 DEF OnTrack
<1>5. CASE todo[j] # <<>>
  <2>1. PICK p \in 1..Len(s) : todo[j] = Rest(s, p) /\ \A q \in 1..(p - 1) : DoneCall(j, s[q])
    BY <1>2, <1>5 DEF OnTrack
  <2>2. \A q \in 1..(p - 1) : DoneCall(j, s[q])'
    BY <1>1, <2>1
  <2> QED
    BY <1>3, <1>5, <2>1, <2>2 DEF OnTrack
<1> QED
  BY <1>4, <1>5

LEMMA IterateOnTrack ==
  ASSUME NodesTyped, work \in Works, \A j \in Iterations : OnTrack(j),
         \A n \in Nodes : cluster.chassis[n] = "old" => cluster.kept,
         NEW i \in Iterations, Iterate(i)
  PROVE  work' = work /\ \A j \in Iterations : OnTrack(j)'
<1>0. cluster \in Clusters /\ failures \in 0..MaxFailures
  BY DEF NodesTyped
<1>1. work' = work
  BY <1>0, Outcomes DEF NotFound, PollChassis, Outcome
<1>2. /\ todo[i] # <<>>
      /\ \/ todo' = todo \/ todo' = [todo EXCEPT ![i] = <<>>]
         \/ /\ todo' = [todo EXCEPT ![i] = Tail(@)]
            /\ \E c : c = Head(todo[i]) /\ DoneCall(i, c)'
  BY IterateTodo
<1>3. PICK s \in Seq(NodeCallSet) : s = Program(work)
  BY ProgramTyped
<1>4. \A j \in Iterations : \A q \in 1..Len(s) : DoneCall(j, s[q]) => DoneCall(j, s[q])'
  <2>1. CASE Head(todo[i]).do \notin {"delete", "delCentral"}
    <3>1. Steady
      BY <2>1, IterateSteady
    <3> QED
      BY <3>1, DoneStays
  <2>2. CASE Head(todo[i]).do \in {"delete", "delCentral"}
    <3>1. work.scenario \in {"del_chassis_nodes", "del_central_node"}
      BY <1>2, <2>2, HeadInProgram, ProgramCalls
    <3>2. ASSUME NEW q \in 1..Len(s)
          PROVE  s[q].do \notin {"localnet", "wait"}
      <4>1. In(s[q], Program(work))
        BY <1>3 DEF In
      <4> QED
        BY <3>1, <4>1, ProgramCalls
    <3> QED
      BY <3>2 DEF DoneCall
  <2> QED
    BY <2>1, <2>2
<1> QED
  BY <1>1, <1>2, <1>3, <1>4, Advance

LEMMA CreateOnTrack ==
  ASSUME NodesTyped, work \in Works, \A j \in Iterations : OnTrack(j),
         NEW i \in Iterations, CreateOnFarm(i)
  PROVE  work' = work /\ \A j \in Iterations : OnTrack(j)'
<1>1. PICK c : c = Head(todo[i])
  OBVIOUS
<1>2. /\ todo[i] # <<>> /\ c.do = "createSandbox" /\ todo' = [todo EXCEPT ![i] = Tail(@)]
      /\ UNCHANGED <<sandboxes, work, waited, cluster, gaveUp>>
  BY <1>1 DEF CreateOnFarm, Now, Continue
<1>3. DoneCall(i, c)' /\ Steady
  BY <1>2 DEF DoneCall, Steady
<1>4. PICK s \in Seq(NodeCallSet) : s = Program(work)
  BY ProgramTyped
<1>5. \A j \in Iterations : \A q \in 1..Len(s) : DoneCall(j, s[q]) => DoneCall(j, s[q])'
  BY <1>3, DoneStays
<1> QED
  BY <1>1, <1>2, <1>3, <1>4, <1>5, Advance

LEMMA IterateKept ==
  ASSUME NodesTyped, \A n \in Nodes : cluster.chassis[n] = "old" => cluster.kept,
         NEW i \in Iterations, Iterate(i)
  PROVE  \A n \in Nodes : cluster'.chassis[n] = "old" => cluster'.kept
<1>0. cluster \in Clusters /\ failures \in 0..MaxFailures
  BY DEF NodesTyped
<1>1. ASSUME NEW after, Outcome(i, after),
             \A n \in Nodes : after.chassis[n] = "old" => after.kept
      PROVE  \A n \in Nodes : cluster'.chassis[n] = "old" => cluster'.kept
  BY <1>1 DEF Outcome
<1>2. CASE NotFound(i) \/ PollChassis(i)
  BY <1>2 DEF NotFound, PollChassis
<1>3. CASE Outcome(i, CentralUp)
  BY <1>0, <1>1, <1>3 DEF CentralUp, Clusters
<1>4. CASE Outcome(i, CentralDown)
  <2>1. \A n \in Nodes : CentralDown.chassis[n] = "none"
    BY <1>0 DEF CentralDown, Clusters
  <2> QED
    BY <1>1, <1>4, <2>1
<1>5. CASE Outcome(i, NodeUp(Node(i)))
  BY <1>0, <1>1, <1>5 DEF NodeUp, Clusters
<1>6. CASE OnNode(i, "delete") /\ \E stays \in {"none", "old"} : Outcome(i, NodeDown(Node(i), stays))
  <2>1. PICK n \in Nodes, stays \in {"none", "old"} : Outcome(i, NodeDown(n, stays))
    BY <1>6, NodeFound
  <2>2. \A m \in Nodes : NodeDown(n, stays).chassis[m] = "old" => NodeDown(n, stays).kept
    BY <1>0 DEF NodeDown, Clusters
  <2> QED
    BY <1>1, <2>1, <2>2
<1>7. CASE Outcome(i, NodeMapped(Node(i)))
  BY <1>0, <1>1, <1>7 DEF NodeMapped, Clusters
<1>8. CASE Outcome(i, NodeExternal(Node(i), Index(i, K(i))))
  BY <1>0, <1>1, <1>8 DEF NodeExternal, Clusters
<1>9. CASE Outcome(i, NodeConnected(Node(i)))
  BY <1>0, <1>1, <1>9 DEF NodeConnected, Clusters
<1>10. CASE Outcome(i, WithGateway(Fact(i)))
  BY <1>0, <1>1, <1>10 DEF WithGateway, Clusters
<1>11. CASE Outcome(i, WithPort(Fact(i)))
  BY <1>0, <1>1, <1>11 DEF WithPort, Clusters
<1> QED
  BY <1>0, <1>2, <1>3, <1>4, <1>5, <1>6, <1>7, <1>8, <1>9, <1>10, <1>11, Outcomes

LEMMA RunStep ==
  ASSUME TypeInv, RunInv, [Next]_vars
  PROVE  RunInv'
<1>0. /\ NodesTyped
      /\ method' = method
      /\ (phase # "none" => Workload \in Works)
      /\ cluster \in Clusters
  BY MethodFixed, WorkloadTyped DEF TypeInv, NodesTyped
<1>k. \A n \in Nodes : cluster.chassis[n] = "old" => cluster.kept
  BY DEF RunInv
<1>w. done' = done => Workload' = Workload
  BY <1>0 DEF Workload
<1>d. ASSUME phase' # "run", cluster' = cluster PROVE RunInv'
  BY <1>k, <1>d DEF RunInv
<1>t. ASSUME phase = "run", done' = done, work' = work, \A j \in Iterations : OnTrack(j)',
             \A n \in Nodes : cluster'.chassis[n] = "old" => cluster'.kept
      PROVE  RunInv'
  BY <1>w, <1>t DEF RunInv
<1>1. ASSUME UNCHANGED nodeVars, phase' = "run" => phase = "run" /\ done' = done
      PROVE  RunInv'
  <2>1. UNCHANGED <<sandboxes, work, todo, cluster, waited, gaveUp>>
    BY <1>1 DEF nodeVars
  <2>2. CASE phase' # "run"
    BY <1>d, <2>1, <2>2
  <2>3. CASE phase' = "run"
    <3>1. Steady
      BY <2>1 DEF Steady
    <3>2. \A j, c : DoneCall(j, c) => DoneCall(j, c)'
      BY <3>1, DoneStays
    <3>3. \A j \in Iterations : OnTrack(j)
      BY <1>1, <2>3 DEF RunInv
    <3>4. \A j \in Iterations : OnTrack(j)'
      BY <2>1, <3>1, <3>3, OnTrackStays
    <3> QED
      BY <1>1, <1>k, <1>t, <2>1, <2>3, <3>4
  <2> QED
    BY <2>2, <2>3
<1>2. CASE Command \/ StartTask \/ SetupMultihost \/ SetupDaemon \/ EndRun \/ Cleanup
  <2>1. phase' = "run" => phase = "run" /\ done' = done
    BY <1>2 DEF Command, StartTask, SetupMultihost, SetupDaemon, EndRun, Cleanup, taskVars
  <2>2. UNCHANGED nodeVars
    BY <1>2 DEF Command, StartTask, SetupMultihost, SetupDaemon, EndRun, Cleanup
  <2> QED
    BY <1>1, <2>1, <2>2
<1>3. CASE SetupSandbox
  BY <1>3, <1>d DEF SetupSandbox
<1>4. CASE SetupDatabase
  <2>1. cluster' = cluster /\ done' = done /\ phase # "none"
    BY <1>4 DEF SetupDatabase
  <2>2. CASE phase' = "cleanup"
    BY <1>d, <2>1, <2>2
  <2>3. CASE phase' = "run" /\ Begin(Workload)
    <3>1. PICK w \in Works : w = Workload
      BY <1>0, <2>1
    <3>2. PICK s \in Seq(NodeCallSet) : s = Program(w)
      BY ProgramTyped
    <3>3. work' = w /\ todo' = [i \in Iterations |-> IF i < w.times THEN s ELSE <<>>]
      BY <2>3, <3>1, <3>2 DEF Begin
    <3>4. ASSUME NEW j \in Iterations PROVE OnTrack(j)'
      <4>1. Program(work)' = s
        BY <3>2, <3>3
      <4>2. CASE todo'[j] = <<>>
        BY <4>2 DEF OnTrack
      <4>3. CASE todo'[j] # <<>>
        <5>1. j < w.times /\ todo'[j] = s
          BY <3>3, <4>3
        <5>2. 1 \in 1..Len(s) /\ s = Rest(s, 1)
          BY <4>3, <5>1 DEF Rest
        <5>3. \A q \in 1..(1 - 1) : DoneCall(j, s[q])'
          OBVIOUS
        <5> QED
          BY <3>3, <4>1, <5>1, <5>2, <5>3 DEF OnTrack
      <4> QED
        BY <4>2, <4>3
    <3>5. Workload' = w
      BY <1>w, <2>1, <3>1
    <3> QED
      BY <1>k, <2>1, <2>3, <3>3, <3>4, <3>5 DEF RunInv
  <2> QED
    BY <1>4, <2>2, <2>3 DEF SetupDatabase
<1>5. CASE Run
  <2>1. phase = "run" /\ done' = done
    BY <1>5 DEF Run, taskVars
  <2>2. work \in Works /\ \A j \in Iterations : OnTrack(j)
    BY <1>0, <2>1 DEF RunInv
  <2>3. ASSUME NEW i \in Iterations, CreateOnFarm(i) PROVE RunInv'
    <3>1. work' = work /\ \A j \in Iterations : OnTrack(j)'
      BY <1>0, <2>2, <2>3, CreateOnTrack
    <3>2. cluster' = cluster
      BY <2>3 DEF CreateOnFarm
    <3> QED
      BY <1>k, <1>t, <2>1, <3>1, <3>2
  <2>4. ASSUME NEW i \in Iterations, Iterate(i) PROVE RunInv'
    <3>1. work' = work /\ \A j \in Iterations : OnTrack(j)'
      BY <1>0, <1>k, <2>2, <2>4, IterateOnTrack
    <3>2. \A n \in Nodes : cluster'.chassis[n] = "old" => cluster'.kept
      BY <1>0, <1>k, <2>4, IterateKept
    <3> QED
      BY <1>t, <2>1, <3>1, <3>2
  <2> QED
    BY <1>5, <2>3, <2>4 DEF Run
<1>6. CASE Registration
  <2>1. PICK n \in Nodes : Registers(n)
    BY <1>6 DEF Registration
  <2>2. /\ cluster' = [cluster EXCEPT !.chassis[n] = "current"]
        /\ UNCHANGED <<sandboxes, work, todo, polls, waited, gaveUp, failures>>
    BY <2>1 DEF Registers
  <2>3. Steady
    BY <1>0, <2>2 DEF Steady, Clusters
  <2>4. \A m \in Nodes : cluster'.chassis[m] = "old" => cluster'.kept
    BY <1>0, <1>k, <2>2 DEF Clusters
  <2>5. phase' = phase /\ done' = done
    BY <1>6 DEF Registration, taskVars
  <2>6. CASE phase = "run"
    <3>1. \A j \in Iterations : OnTrack(j)'
      BY <2>2, <2>3, <2>6, OnTrackStays DEF RunInv
    <3> QED
      BY <1>t, <2>2, <2>4, <2>5, <2>6, <3>1
  <2>7. CASE phase # "run"
    BY <2>4, <2>5, <2>7 DEF RunInv
  <2> QED
    BY <2>6, <2>7
<1>7. CASE UNCHANGED vars
  BY <1>1, <1>7 DEF vars, taskVars
<1> QED
  BY <1>2, <1>3, <1>4, <1>5, <1>6, <1>7 DEF Next, Task

LEMMA RunInvInit == Init => RunInv
<1> SUFFICES ASSUME Init PROVE RunInv
  OBVIOUS
<1>1. cluster \in {EmptyCluster, LeftCluster} /\ phase = "none"
  BY DEF Init, NodesInit
<1>2. \A n \in Nodes : EmptyCluster.chassis[n] = "none"
  BY DEF EmptyCluster
<1>3. \A n \in Nodes : LeftCluster.chassis[n] \in {"none", "current"}
  BY DEF LeftCluster, EmptyCluster
<1>4. \A n \in Nodes : cluster.chassis[n] # "old"
  BY <1>1, <1>2, <1>3
<1> QED
  BY <1>1, <1>4 DEF RunInv

-----------------------------------------------------------------------------
(***************************************************************************)
(* The farms of a physical test bed.  Its sandboxes are those of no farm   *)
(* or those of all farms whenever a task reads them, so that the farm with *)
(* the number of an index is the one with that place in the list.          *)
(***************************************************************************)
AllFarms == [k \in 1..NumFarms |-> k]

Creating == phase = "run" /\ work.scenario = "create_sandbox"
Created == boxes = Farms \/ \A i \in Iterations : i < NumFarms /\ todo[i] = <<>> => i + 1 \in boxes

PhysicalInv ==
    /\ sandboxes \in {<<>>, AllFarms}
    /\ stage \in {"record", "register"} => boxes = {} /\ 0..(host - 1) \subseteq registered
    /\ Idle /\ record => registered = Hosts
    /\ Idle /\ ~Creating => boxes \in {{}, Farms}
    /\ Creating => Created

FarmInv ==
    /\ phase # "none" => Idle /\ record
    /\ boxes \subseteq registered
    /\ method = "physical" => PhysicalInv

\* An ascending list of n of the numbers from 1 to n is 1, ..., n.
LEMMA AscendingIdentity ==
  ASSUME NEW n \in Nat, NEW s \in [1..n -> 1..n], \A j, k \in 1..n : j < k => s[j] < s[k]
  PROVE  s = [k \in 1..n |-> k]
<1>1. \A k \in 1..n : s[k] \in 1..n
  OBVIOUS
<1> DEFINE Above == {k \in Nat : k \in 1..n => s[k] >= k}
<1> DEFINE Below == {d \in Nat : n - d \in 1..n => s[n - d] <= n - d}
<1>2. Nat \subseteq Above
  <2>1. 0 \in Above
    OBVIOUS
  <2>2. ASSUME NEW k \in Nat, k \in Above PROVE k + 1 \in Above
    <3>1. SUFFICES ASSUME k + 1 \in 1..n PROVE s[k + 1] >= k + 1
      OBVIOUS
    <3>2. s[k + 1] \in 1..n
      BY <1>1, <3>1
    <3>3. CASE k = 0
      BY <3>2, <3>3
    <3>4. CASE k # 0
      <4>1. k \in 1..n /\ s[k] \in 1..n /\ s[k] < s[k + 1] /\ s[k] >= k
        BY <1>1, <2>2, <3>1, <3>4
      <4> QED
        BY <3>2, <4>1
    <3> QED
      BY <3>3, <3>4
  <2> HIDE DEF Above
  <2> QED
    BY <2>1, <2>2, AllNumbers
<1>3. Nat \subseteq Below
  <2>1. 0 \in Below
    BY <1>1
  <2>2. ASSUME NEW d \in Nat, d \in Below PROVE d + 1 \in Below
    <3>1. SUFFICES ASSUME n - (d + 1) \in 1..n PROVE s[n - (d + 1)] <= n - (d + 1)
      OBVIOUS
    <3>2. PICK k \in 1..n : k = n - (d + 1)
      BY <3>1
    <3>3. k + 1 \in 1..n /\ n - d = k + 1
      BY <3>2
    <3>4. s[k] \in 1..n /\ s[k + 1] \in 1..n /\ s[k] < s[k + 1] /\ s[k + 1] <= k + 1
      BY <1>1, <2>2, <3>3
    <3> QED
      BY <3>2, <3>4
  <2> HIDE DEF Below
  <2> QED
    BY <2>1, <2>2, AllNumbers
<1>4. ASSUME NEW k \in 1..n PROVE s[k] = k
  <2>1. n - k \in Nat /\ n - (n - k) = k
    OBVIOUS
  <2>2. n - k \in Below
    BY <1>3, <2>1
  <2>3. s[k] <= k
    BY <2>1, <2>2
  <2>4. s[k] >= k
    BY <1>2
  <2> QED
    BY <1>1, <2>3, <2>4
<1> QED
  BY <1>4

LEMMA ListOfFarms ==
  /\ Cardinality(Farms) = NumFarms
  /\ \A farms \in {{}, Farms} : \A s \in Ascending(farms) : s \in {<<>>, AllFarms}
<1>1. NumFarms \in Nat
  BY Assumed
<1>2. Cardinality(Farms) = NumFarms
  BY <1>1, FS_Interval DEF Farms
<1>3. ASSUME NEW s \in Ascending({}) PROVE s = <<>>
  <2>1. Cardinality({}) = 0
    BY FS_EmptySet
  <2> QED
    BY <1>3, <2>1 DEF Ascending
<1>4. ASSUME NEW s \in Ascending(Farms) PROVE s = AllFarms
  <2>1. s \in [1..NumFarms -> 1..NumFarms] /\ \A j, k \in 1..NumFarms : j < k => s[j] < s[k]
    BY <1>2, <1>4 DEF Ascending, Farms
  <2> QED
    BY <1>1, <2>1, AscendingIdentity DEF AllFarms
<1> QED
  BY <1>2, <1>3, <1>4

\* Commands are given between tasks.  A deployment registers the hosts one
\* after the other, and a destroyed one has no sandboxes left.
LEMMA CommandFarms ==
  ASSUME TypeInv, FarmInv, Command
  PROVE  FarmInv'
<1>0. /\ phase = "none" /\ phase' = "none" /\ DeployNext
      /\ UNCHANGED <<sandboxes, work, todo>>
  BY DEF Command, nodeVars, taskVars
<1>1. /\ DeployInv /\ DeployInv' /\ NumFarms \in Nat
  <2>1. DeployInv'
    BY <1>0, DeployNextInv DEF TypeInv
  <2> QED
    BY <2>1, Assumed DEF TypeInv
<1>2. /\ registered \subseteq subs /\ registered \subseteq Hosts /\ host \in Hosts
      /\ (stage = "idle" <=> Idle) /\ (record \/ subs = {})
      /\ (stage \in {"install", "start"} => method = "sandbox")
      /\ boxes \subseteq registered
  BY <1>1 DEF DeployInv, DeployTypeOK, Reachable, Idle, FarmInv
<1>3. ~Creating /\ ~Creating' /\ method' = method
  <2>1. method' = method
    BY MethodFixed DEF Next
  <2> QED
    BY <1>0, <2>1 DEF Creating
<1>4. ASSUME boxes' = {} /\ registered' = {} /\ (Idle' => ~record')
             /\ (stage' \in {"record", "register"} => host' = Controller)
      PROVE  FarmInv'
  <2>1. 0..(Controller - 1) = {}
    BY DEF Controller
  <2> QED
    BY <1>0, <1>3, <1>4, <2>1 DEF FarmInv, PhysicalInv
<1>5. CASE Create
  BY <1>2, <1>4, <1>5 DEF Create, Goto, Idle
<1>6. ASSUME UNCHANGED <<boxes, registered>>, method = "sandbox"
      PROVE  FarmInv'
  BY <1>0, <1>2, <1>3, <1>6 DEF FarmInv
<1>7. CASE NewRecord
  <2>1. CASE method = "sandbox"
    BY <1>6, <1>7, <2>1 DEF NewRecord
  <2>2. CASE method # "sandbox"
    <3>1. /\ stage = "record" /\ stage' = "register" /\ host' = host /\ ~Idle'
          /\ UNCHANGED <<boxes, registered>>
      BY <1>7, <2>2 DEF NewRecord, Deploying, Goto, Idle
    <3> QED
      BY <1>0, <1>2, <1>3, <3>1 DEF FarmInv, PhysicalInv
  <2> QED
    BY <2>1, <2>2
<1>8. CASE Install \/ Start \/ ControllerUnreachable
  BY <1>2, <1>6, <1>8 DEF Install, Start, Deploying, ControllerUnreachable, RunsScript
<1>9. CASE Register
  <2>1. stage = "register" /\ registered' = registered \cup {host} /\ boxes' = boxes
    BY <1>9 DEF Register, Deploying
  <2>2. CASE method # "physical"
    BY <1>0, <1>2, <1>3, <2>1, <2>2 DEF FarmInv
  <2>3. CASE method = "physical"
    <3>1. boxes = {} /\ 0..(host - 1) \subseteq registered /\ sandboxes \in {<<>>, AllFarms}
      BY <2>1, <2>3 DEF FarmInv, PhysicalInv
    <3>2. 0..host \subseteq registered'
      BY <1>1, <1>2, <2>1, <3>1 DEF Hosts
    <3>3. CASE host = NumFarms
      <4>1. registered' = Hosts /\ stage' = "idle"
        BY <1>2, <1>9, <2>1, <3>2, <3>3 DEF Register, End, Goto, Hosts
      <4> QED
        BY <1>0, <1>2, <1>3, <2>1, <3>1, <4>1 DEF FarmInv, PhysicalInv
    <3>4. CASE host # NumFarms
      <4>1. host' = host + 1 /\ (host + 1) - 1 = host /\ ~Idle'
        BY <1>1, <1>2, <1>9, <2>1, <3>4 DEF Register, Goto, Hosts, Idle
      <4> QED
        BY <1>0, <1>2, <1>3, <2>1, <3>1, <3>2, <4>1 DEF FarmInv, PhysicalInv
    <3> QED
      BY <3>3, <3>4
  <2> QED
    BY <2>2, <2>3
<1>10. ASSUME NEW c, NEW hosts, CleanUp(c, hosts), c # "none",
              boxes' \subseteq registered', registered' \subseteq hosts
       PROVE  FarmInv'
  <2>1. CASE hosts = {}
    <3>1. boxes' = {} /\ registered' = {}
      BY <1>10, <2>1
    <3>2. Idle' => ~record'
      BY <1>10, <2>1 DEF CleanUp, End, Goto, Idle
    <3>3. stage' \in {"record", "register"} => host' = Controller
      BY <1>10, <2>1 DEF CleanUp, End, Goto
    <3> QED
      BY <1>4, <3>1, <3>2, <3>3
  <2>2. CASE hosts # {}
    <3>1. stage' = "cleanup" /\ ~Idle'
      BY <1>10, <2>2 DEF CleanUp, Goto, Idle
    <3> QED
      BY <1>0, <1>3, <1>10, <3>1 DEF FarmInv, PhysicalInv
  <2> QED
    BY <2>1, <2>2
<1>11. CASE Destroy
  <2>1. PICK c \in {"destroy", "recreate"} : CleanUp(c, subs)
    BY <1>11 DEF Destroy
  <2>2. UNCHANGED <<registered, boxes>>
    BY <1>11 DEF Destroy
  <2> QED
    BY <1>2, <1>10, <2>1, <2>2
<1>12. CASE SkipScript \/ RunScript \/ ScriptFails
  <2>1. stage = "cleanup" /\ Forget /\ command # "none"
    BY <1>2, <1>12 DEF SkipScript, RunScript, ScriptFails, Idle
  <2>2. boxes' \subseteq registered' /\ registered' \subseteq subs \ {host}
    BY <1>2, <2>1 DEF Forget
  <2>3. CleanUp(command, subs \ {host})
    BY <2>1 DEF Forget
  <2> QED
    BY <1>10, <2>1, <2>2, <2>3
<1> QED
  BY <1>0, <1>5, <1>7, <1>8, <1>9, <1>11, <1>12 DEF DeployNext, Perform

\* What OneFarmEach says of the workload at hand.
LEMMA WorkloadFits ==
  ASSUME OneFarmEach, TypeInv, phase # "none"
  PROVE  /\ Workload.scenario = "create_sandbox" /\ method = "physical" =>
               Workload.times >= NumFarms
         /\ Workload.scenario \in {"setup_switch_per_node_init", "setup_switch_per_node"} =>
               method = "physical" /\ Workload.times * Workload.batch <= NumFarms
<1>1. method \in Methods /\ Workloads[method] \in Seq(Works)
  BY WorkloadAssumption DEF WorkloadAssumption, Works, TypeInv, DeployInv, DeployTypeOK
<1>2. PICK n \in Nat : n = Len(Workloads[method]) /\ DOMAIN Workloads[method] = 1..n
  BY <1>1
<1>3. done + 1 \in DOMAIN Workloads[method]
  BY <1>2 DEF TypeInv, TaskTyped
<1> QED
  BY <1>1, <1>3 DEF OneFarmEach, Workload

\* Which scenario a call at hand belongs to.
LEMMA HeadCall ==
  ASSUME TypeInv, RunInv, phase = "run", NEW i \in Iterations, todo[i] # <<>>
  PROVE  /\ work \in Works /\ i < work.times /\ In(Head(todo[i]), Program(work))
         /\ Head(todo[i]).do = "createSandbox" <=> work.scenario = "create_sandbox"
<1>1. work \in Works
  BY WorkloadTyped DEF TypeInv, RunInv
<1>2. In(Head(todo[i]), Program(work)) /\ i < work.times
  BY <1>1, HeadInProgram DEF RunInv
<1> QED
  BY <1>1, <1>2, ProgramCalls

LEMMA RunFarms ==
  ASSUME TypeInv, RunInv, FarmInv, Run
  PROVE  FarmInv'
<1>1. /\ phase = "run" /\ phase' = "run" /\ Idle /\ record /\ boxes \subseteq registered
      /\ DeployInv /\ NodesTyped
  BY DEF Run, taskVars, FarmInv, TypeInv
<1>2. ASSUME NEW i \in Iterations, CreateOnFarm(i)
      PROVE  FarmInv'
  <2>1. /\ UNCHANGED <<method, command, stage, host, record, registered, sandboxes, work>>
        /\ todo[i] # <<>> /\ Head(todo[i]).do = "createSandbox"
        /\ todo' = [todo EXCEPT ![i] = Tail(@)]
    BY <1>2 DEF CreateOnFarm, CreateSandbox, Now, Continue
  <2>2. \/ boxes' = boxes
        \/ i + 1 \in registered /\ boxes' = boxes \cup {i + 1}
    BY <1>2 DEF CreateOnFarm, CreateSandbox
  <2>3. Creating /\ Creating'
    BY <1>1, <2>1, HeadCall DEF Creating
  <2>4. CASE method # "physical"
    BY <1>1, <2>1, <2>2, <2>4 DEF FarmInv, Idle
  <2>5. CASE method = "physical"
    <3>1. PhysicalInv /\ registered = Hosts /\ Created
      BY <1>1, <2>3, <2>5 DEF FarmInv, PhysicalInv
    <3>2. stage \notin {"record", "register"}
      BY <1>1 DEF DeployInv, Reachable, Idle
    <3>3. i \in Nat /\ NumFarms \in Nat /\ boxes \subseteq Farms
      BY <1>1, Assumed DEF DeployInv, DeployTypeOK
    <3>4. i < NumFarms => i + 1 \in Hosts
      BY <3>3 DEF Hosts
    <3>5. i < NumFarms => boxes' = boxes \cup {i + 1}
      BY <1>2, <2>5, <3>1, <3>4 DEF CreateOnFarm, CreateSandbox
    <3>6. boxes' \subseteq Farms
      <4>1. i + 1 \in Hosts => i + 1 \in Farms
        BY <3>3 DEF Hosts, Farms
      <4> QED
        BY <2>2, <3>1, <3>3, <4>1
    <3>7. Created'
      <4>1. CASE boxes = Farms
        BY <2>2, <3>6, <4>1 DEF Created, Farms
      <4>2. CASE \A j \in Iterations : j < NumFarms /\ todo[j] = <<>> => j + 1 \in boxes
        <5>1. ASSUME NEW j \in Iterations, j < NumFarms, todo'[j] = <<>>
              PROVE  j + 1 \in boxes'
          <6>1. CASE j = i
            BY <3>5, <5>1, <6>1
          <6>2. CASE j # i
            BY <1>1, <2>1, <2>2, <4>2, <5>1, <6>2 DEF NodesTyped
          <6> QED
            BY <6>1, <6>2
        <5> QED
          BY <5>1 DEF Created
      <4> QED
        BY <3>1, <4>1, <4>2 DEF Created
    <3>8. PhysicalInv'
      BY <2>1, <2>3, <3>1, <3>2, <3>7 DEF PhysicalInv, Idle
    <3> QED
      BY <1>1, <2>1, <2>2, <3>8 DEF FarmInv, Idle
  <2> QED
    BY <2>4, <2>5
<1>3. ASSUME NEW i \in Iterations, Iterate(i), UNCHANGED deployVars
      PROVE  FarmInv'
  <2>1. work' = work /\ sandboxes' = sandboxes
    <3>1. failures \in 0..MaxFailures
      BY <1>1 DEF NodesTyped
    <3> QED
      BY <1>3, <3>1, Outcomes DEF NotFound, PollChassis, Outcome
  <2>2. \E do \in Dos \ {"createSandbox"} : Now(i, do)
    <3>1. failures \in 0..MaxFailures
      BY <1>1 DEF NodesTyped
    <3> QED
      BY <1>3, <3>1, Outcomes DEF NotFound, PollChassis, OnNode, Dos, NodeCalls
  <2>3. todo[i] # <<>> /\ Head(todo[i]).do # "createSandbox"
    BY <2>2 DEF Now
  <2>4. ~Creating /\ ~Creating'
    BY <1>1, <2>1, <2>3, HeadCall DEF Creating
  <2> QED
    BY <1>1, <1>3, <2>1, <2>4 DEF FarmInv, PhysicalInv, deployVars, Idle
<1> QED
  BY <1>2, <1>3 DEF Run

LEMMA FarmStep ==
  ASSUME OneFarmEach, TypeInv, RunInv, FarmInv, [Next]_vars
  PROVE  FarmInv'
<1>1. ASSUME UNCHANGED deployVars, sandboxes' = sandboxes,
             phase' # "none" => Idle /\ record, Creating <=> Creating',
             Creating => UNCHANGED todo
      PROVE  FarmInv'
  <2>1. method = "physical" => PhysicalInv'
    BY <1>1 DEF FarmInv, PhysicalInv, deployVars, Idle, Created
  <2> QED
    BY <1>1, <2>1 DEF FarmInv, deployVars, Idle
<1>2. CASE Command
  BY <1>2, CommandFarms
<1>3. CASE StartTask \/ SetupMultihost
  BY <1>1, <1>3 DEF StartTask, SetupMultihost, Creating, FarmInv, nodeVars
<1>4. CASE Registration \/ UNCHANGED vars
  BY <1>1, <1>4 DEF Registration, Registers, taskVars, nodeVars, vars, Creating, FarmInv
<1>5. CASE SetupDaemon \/ Cleanup
  <2>1. UNCHANGED <<method, command, stage, host, record, registered, boxes, sandboxes>>
        /\ ~Creating /\ ~Creating' /\ (phase' # "none" => phase # "none")
    BY <1>5 DEF SetupDaemon, Cleanup, nodeVars, Creating
  <2> QED
    BY <2>1 DEF FarmInv, PhysicalInv, Idle
<1>6. CASE SetupSandbox
  <2>1. /\ sandboxes' \in Ascending(boxes) /\ UNCHANGED deployVars
        /\ ~Creating /\ ~Creating' /\ Idle /\ record
    BY <1>6 DEF SetupSandbox, Creating, FarmInv
  <2>2. CASE method # "physical"
    BY <2>1, <2>2 DEF FarmInv, deployVars, Idle
  <2>3. CASE method = "physical"
    <3>1. boxes \in {{}, Farms} /\ PhysicalInv
      BY <2>1, <2>3 DEF FarmInv, PhysicalInv
    <3>2. sandboxes' \in {<<>>, AllFarms}
      BY <2>1, <3>1, ListOfFarms
    <3>3. PhysicalInv'
      BY <2>1, <3>1, <3>2 DEF PhysicalInv, deployVars, Idle
    <3> QED
      BY <2>1, <3>3 DEF FarmInv, deployVars, Idle
  <2> QED
    BY <2>2, <2>3
<1>7. CASE SetupDatabase
  <2>1. /\ UNCHANGED <<method, command, stage, host, record, registered, boxes, sandboxes>>
        /\ ~Creating /\ phase # "none" /\ Idle /\ record
    BY <1>7 DEF SetupDatabase, Creating, FarmInv
  <2>2. CASE ~Creating'
    BY <2>1, <2>2 DEF FarmInv, PhysicalInv, Idle
  <2>3. CASE Creating'
    <3>1. Begin(Workload)
      BY <1>7, <2>3 DEF SetupDatabase, Creating
    <3>2. PICK w \in Works : w = Workload
      BY <2>1, WorkloadTyped DEF TypeInv
    <3>3. work' = w /\ todo' = [i \in Iterations |-> IF i < w.times THEN Program(w) ELSE <<>>]
      BY <3>1, <3>2 DEF Begin
    <3>4. w.scenario = "create_sandbox" /\ (method = "physical" => w.times >= NumFarms)
      BY <2>1, <2>3, <3>2, <3>3, WorkloadFits DEF Creating
    <3>5. Program(w) # <<>>
      <4>1. Program(w) = Calls(w, "createSandbox")
        BY <3>4 DEF Program
      <4>2. Len(Calls(w, "createSandbox")) = w.batch /\ w.batch \in Nat \ {0}
        BY CallsNumbered DEF Numbered, Works, Dos
      <4> QED
        BY <4>1, <4>2
    <3>6. \A i \in Iterations : i < NumFarms /\ method = "physical" => todo'[i] # <<>>
      <4>1. w.times \in Nat /\ NumFarms \in Nat /\ Iterations \subseteq Nat
        BY Assumed DEF Works
      <4> QED
        BY <3>3, <3>4, <3>5, <4>1
    <3>7. method = "physical" => Created'
      BY <3>6 DEF Created
    <3> QED
      BY <2>1, <2>3, <3>7 DEF FarmInv, PhysicalInv, Idle
  <2> QED
    BY <2>2, <2>3
<1>8. CASE Run
  BY <1>8, RunFarms
<1>9. CASE EndRun
  <2>1. /\ UNCHANGED deployVars /\ sandboxes' = sandboxes /\ ~Creating'
        /\ Idle /\ record /\ phase = "run" /\ \A i \in Iterations : todo[i] = <<>>
    BY <1>9 DEF EndRun, nodeVars, Creating, FarmInv
  <2>2. CASE ~Creating
    BY <1>1, <2>1, <2>2
  <2>3. CASE Creating
    <3>1. boxes \subseteq Farms
      BY DEF TypeInv, DeployInv, DeployTypeOK
    <3>2. ASSUME Created PROVE boxes = Farms
      <4>1. ASSUME NEW f \in Farms, \A i \in Iterations : i < NumFarms => i + 1 \in boxes
            PROVE  f \in boxes
        <5>1. f \in Nat /\ NumFarms \in Nat /\ MaxIterations \in Nat /\ f >= 1 /\ f <= NumFarms
              /\ NumFarms <= MaxIterations
          BY Assumed DEF Farms
        <5>2. f - 1 \in Iterations /\ f - 1 < NumFarms /\ (f - 1) + 1 = f
          BY <5>1 DEF Iterations
        <5> QED
          BY <4>1, <5>2
      <4> QED
        BY <2>1, <3>1, <3>2, <4>1 DEF Created
    <3>3. method = "physical" => boxes = Farms
      BY <2>3, <3>2 DEF FarmInv, PhysicalInv
    <3> QED
      BY <2>1, <2>3, <3>3 DEF FarmInv, PhysicalInv, deployVars, Idle
  <2> QED
    BY <2>2, <2>3
<1> QED
  BY <1>2, <1>3, <1>4, <1>5, <1>6, <1>7, <1>8, <1>9 DEF Next, Task

LEMMA FarmInvInit == Init => FarmInv
<1>1. Init => DeployInv
  BY DeployInitInv DEF Init
<1> QED
  BY <1>1 DEF Init, DeployInit, NodesInit, FarmInv, PhysicalInv, Creating

-----------------------------------------------------------------------------
(***************************************************************************)
(* The networks.  The four methods that compute a node from an index agree *)
(* because the list of sandboxes is that of all farms, and there is a farm *)
(* for each index.                                                         *)
(***************************************************************************)
NetInv ==
    /\ \A fact \in cluster.gateways \cup cluster.ports :
          /\ fact.node = fact.net + 1 /\ fact.ext = fact.net
          /\ <<fact.net, fact.node>> \in waited
    /\ \A n \in Nodes : /\ cluster.external[n] \in {None, n - 1}
                        /\ cluster.external[n] # None => n \in cluster.mapped

LEMMA IndexBound ==
  ASSUME NEW t \in Nat, NEW b \in Nat, NEW i \in Nat, i < t, NEW k \in 0..(b - 1)
  PROVE  i * b + k < t * b
<1>1. PICK d \in Nat : t = i + 1 + d
  <2>1. t - (i + 1) \in Nat /\ t = i + 1 + (t - (i + 1))
    OBVIOUS
  <2> QED
    BY <2>1
<1>2. t * b = i * b + b + d * b
  BY <1>1
<1>3. d * b >= 0 /\ i * b \in Nat /\ d * b \in Nat /\ k < b
  OBVIOUS
<1> QED
  BY <1>2, <1>3

\* The node of an index, and what is known of it when a call works on it.
LEMMA Placed ==
  ASSUME OneFarmEach, TypeInv, RunInv, FarmInv, phase = "run", NEW i \in Iterations,
         NEW do \in {"external", "gateway", "bind"}, OnNode(i, do)
  PROVE  \E index \in 0..(NumFarms - 1) :
            /\ Index(i, K(i)) = index /\ Node(i) = index + 1
            /\ Fact(i) = [net |-> index, node |-> index + 1, ext |-> index]
            /\ do = "external" => index + 1 \in cluster.mapped
            /\ do # "external" =>
                  /\ <<index, index + 1>> \in waited
                  /\ \/ cluster.chassis[index + 1] = "current" \/ index + 1 \in gaveUp
                     \/ cluster.kept
<1>1. NodesTyped /\ todo[i] # <<>> /\ Head(todo[i]).do = do /\ Head(todo[i]) \in NodeCallSet
  BY NodeFound, NowHas DEF TypeInv
<1>2. PICK w \in Works : w = work /\ w = Workload
  BY WorkloadTyped DEF TypeInv, RunInv
<1>3. PICK k \in Nat : k = K(i) /\ Head(todo[i]) = [do |-> do, k |-> k]
  BY <1>1 DEF K, NodeCallSet
<1>4. PICK p \in 1..Len(Program(w)) :
           /\ Head(todo[i]) = Program(w)[p]
           /\ \A q \in 1..(p - 1) : DoneCall(i, Program(w)[q])
  BY <1>1, <1>2, HeadInProgram DEF RunInv
<1>5. In(Head(todo[i]), Program(w)) /\ i < w.times
  BY <1>1, <1>2, HeadInProgram DEF RunInv
<1>6. /\ k \in 0..(w.batch - 1)
      /\ IF do = "external" THEN w.scenario = "setup_switch_per_node_init"
                            ELSE w.scenario = "setup_switch_per_node"
  BY <1>1, <1>3, <1>5, ProgramCalls
<1>7. method = "physical" /\ w.times * w.batch <= NumFarms
  BY <1>2, <1>6, WorkloadFits
<1>8. PICK n \in Nat : n = NumFarms
  BY Assumed
<1>9. PICK index \in 0..(n - 1) : index = i * w.batch + k
  <2>1. i \in Nat /\ w.batch \in Nat /\ w.times \in Nat
    BY Assumed DEF Works
  <2>2. i * w.batch + k < w.times * w.batch
    BY <1>5, <1>6, <2>1, IndexBound
  <2>3. i * w.batch + k \in Nat /\ w.times * w.batch \in Nat
    BY <2>1
  <2> QED
    BY <1>7, <1>8, <2>2, <2>3
<1>10. Index(i, K(i)) = index /\ Network(i, K(i)) = index
  BY <1>2, <1>3, <1>9 DEF Index, Network
<1>11. sandboxes = AllFarms
  <2>1. sandboxes # <<>>
    BY DEF OnNode, Found, FarmsUsed
  <2> QED
    BY <1>7, <2>1 DEF FarmInv, PhysicalInv
<1>12. Cardinality(FarmsUsed) = n /\ Len(sandboxes) = n
  <2>1. FarmsUsed = Farms
    BY <1>11 DEF FarmsUsed, AllFarms, Farms
  <2>2. Len(sandboxes) = n
    BY <1>8, <1>11 DEF AllFarms
  <2> QED
    BY <1>8, <2>1, <2>2, ListOfFarms
<1>13. index % n = index
  OBVIOUS
<1>14. NodeOf(index) = index + 1 /\ Node(i) = index + 1
  BY <1>10, <1>12, <1>13 DEF NodeOf, Node
<1>15. SliceOfList(i, K(i)) = index + 1
  <2>1. SliceOfList(i, K(i)) = sandboxes[(index % n) + 1]
    BY <1>2, <1>3, <1>9, <1>12 DEF SliceOfList
  <2> QED
    BY <1>8, <1>11, <1>13, <2>1 DEF AllFarms
<1>16. Fact(i) = [net |-> index, node |-> index + 1, ext |-> index]
  BY <1>10, <1>15 DEF Fact
<1>17. ASSUME NEW d, d.k = k, Precedes(d, [do |-> do, k |-> k], Program(w))
       PROVE  /\ d.do = "localnet" => index + 1 \in cluster.mapped
              /\ d.do = "wait" =>
                    /\ <<index, index + 1>> \in waited
                    /\ \/ cluster.chassis[index + 1] = "current" \/ index + 1 \in gaveUp
                       \/ cluster.kept
  <2>1. DoneCall(i, d)
    BY <1>3, <1>4, <1>17 DEF Precedes
  <2>2. Index(i, d.k) = index
    BY <1>3, <1>10, <1>17
  <2> QED
    BY <1>14, <2>1, <2>2 DEF DoneCall
<1>18. do = "external" => index + 1 \in cluster.mapped
  <2>1. SUFFICES ASSUME do = "external" PROVE index + 1 \in cluster.mapped
    OBVIOUS
  <2>2. Program(w) = Init3(w)
    BY <1>6, <2>1 DEF Program, Init3
  <2>3. Precedes([do |-> "localnet", k |-> k], [do |-> do, k |-> k], Program(w))
    BY <1>6, <2>1, <2>2, InitCalls
  <2> QED
    BY <1>17, <2>3
<1>19. do # "external" =>
          /\ <<index, index + 1>> \in waited
          /\ \/ cluster.chassis[index + 1] = "current" \/ index + 1 \in gaveUp
             \/ cluster.kept
  <2>1. SUFFICES ASSUME do # "external"
                 PROVE  /\ <<index, index + 1>> \in waited
                        /\ \/ cluster.chassis[index + 1] = "current" \/ index + 1 \in gaveUp
                           \/ cluster.kept
    OBVIOUS
  <2>2. Program(w) = Setup4(w)
    BY <1>6, <2>1 DEF Program, Setup4
  <2>3. Precedes([do |-> "wait", k |-> k], [do |-> do, k |-> k], Program(w))
    BY <1>6, <2>1, <2>2, SetupCalls
  <2> QED
    BY <1>17, <2>3
<1> QED
  BY <1>8, <1>10, <1>14, <1>16, <1>18, <1>19

\* A step of an iteration adds at most the fact of the call at hand.
LEMMA IterateFacts ==
  ASSUME NodesTyped, NEW i \in Iterations, Iterate(i)
  PROVE  /\ waited \subseteq waited'
         /\ \/ cluster'.gateways \cup cluster'.ports \subseteq cluster.gateways \cup cluster.ports
            \/ \E do \in {"gateway", "bind"} :
                  /\ OnNode(i, do)
                  /\ cluster'.gateways \cup cluster'.ports
                        \subseteq cluster.gateways \cup cluster.ports \cup {Fact(i)}
<1>0. cluster \in Clusters /\ failures \in 0..MaxFailures
  BY DEF NodesTyped
<1>1. waited \subseteq waited'
  BY <1>0, Outcomes DEF NotFound, PollChassis, Outcome
<1>2. ASSUME NEW after, Outcome(i, after), NEW new,
             after.gateways \cup after.ports \subseteq cluster.gateways \cup cluster.ports \cup new
      PROVE  cluster'.gateways \cup cluster'.ports
                \subseteq cluster.gateways \cup cluster.ports \cup new
  BY <1>2 DEF Outcome
<1>3. ASSUME NEW after, Outcome(i, after), after.gateways \subseteq cluster.gateways,
             after.ports \subseteq cluster.ports
      PROVE  cluster'.gateways \cup cluster'.ports \subseteq cluster.gateways \cup cluster.ports
  BY <1>3 DEF Outcome
<1>4. CASE NotFound(i) \/ PollChassis(i)
  BY <1>1, <1>4 DEF NotFound, PollChassis
<1>5. CASE Outcome(i, CentralUp)
  BY <1>0, <1>1, <1>3, <1>5 DEF CentralUp, Clusters
<1>6. CASE Outcome(i, CentralDown)
  BY <1>0, <1>1, <1>3, <1>6 DEF CentralDown, Clusters
<1>7. CASE Outcome(i, NodeUp(Node(i)))
  BY <1>0, <1>1, <1>3, <1>7 DEF NodeUp, Clusters
<1>8. CASE \E stays \in {"none", "old"} : Outcome(i, NodeDown(Node(i), stays))
  BY <1>0, <1>1, <1>3, <1>8 DEF NodeDown, Clusters
<1>9. CASE Outcome(i, NodeMapped(Node(i)))
  BY <1>0, <1>1, <1>3, <1>9 DEF NodeMapped, Clusters
<1>10. CASE Outcome(i, NodeExternal(Node(i), Index(i, K(i))))
  BY <1>0, <1>1, <1>3, <1>10 DEF NodeExternal, Clusters
<1>11. CASE Outcome(i, NodeConnected(Node(i)))
  BY <1>0, <1>1, <1>3, <1>11 DEF NodeConnected, Clusters
<1>12. CASE OnNode(i, "gateway") /\ Outcome(i, WithGateway(Fact(i)))
  <2>1. WithGateway(Fact(i)).gateways = cluster.gateways \cup {Fact(i)}
        /\ WithGateway(Fact(i)).ports = cluster.ports
    BY <1>0 DEF WithGateway, Clusters
  <2> QED
    BY <1>1, <1>2, <1>12, <2>1
<1>13. CASE OnNode(i, "bind") /\ Outcome(i, WithPort(Fact(i)))
  <2>1. WithPort(Fact(i)).ports = cluster.ports \cup {Fact(i)}
        /\ WithPort(Fact(i)).gateways = cluster.gateways
    BY <1>0 DEF WithPort, Clusters
  <2> QED
    BY <1>1, <1>2, <1>13, <2>1
<1> QED
  BY <1>0, <1>4, <1>5, <1>6, <1>7, <1>8, <1>9, <1>10, <1>11, <1>12, <1>13, Outcomes

\* An external host is added by one call only, and goes with the bridge
\* mappings of its node when that is deleted.
LEMMA IterateHosts ==
  ASSUME NodesTyped, NEW i \in Iterations, Iterate(i), NEW n \in Nodes,
         cluster.external[n] # None => n \in cluster.mapped
  PROVE  \/ cluster'.external[n] = None
         \/ cluster'.external[n] = cluster.external[n] /\ n \in cluster'.mapped
         \/ /\ OnNode(i, "external") /\ n = Node(i) /\ cluster'.external[n] = Index(i, K(i))
            /\ cluster'.mapped = cluster.mapped
<1>0. cluster \in Clusters /\ failures \in 0..MaxFailures
  BY DEF NodesTyped
<1>1. cluster.external[n] = None \/ n \in cluster.mapped
  OBVIOUS
<1>2. ASSUME NEW after, Outcome(i, after), after.external = cluster.external,
             cluster.mapped \subseteq after.mapped
      PROVE  \/ cluster'.external[n] = None
             \/ cluster'.external[n] = cluster.external[n] /\ n \in cluster'.mapped
  BY <1>1, <1>2 DEF Outcome
<1>3. CASE NotFound(i) \/ PollChassis(i)
  BY <1>1, <1>3 DEF NotFound, PollChassis
<1>4. CASE Outcome(i, CentralUp)
  BY <1>0, <1>2, <1>4 DEF CentralUp, Clusters
<1>5. CASE Outcome(i, CentralDown)
  BY <1>0, <1>2, <1>5 DEF CentralDown, Clusters
<1>6. CASE Outcome(i, NodeUp(Node(i)))
  BY <1>0, <1>2, <1>6 DEF NodeUp, Clusters
<1>7. CASE OnNode(i, "delete") /\ \E stays \in {"none", "old"} : Outcome(i, NodeDown(Node(i), stays))
  <2>1. PICK m \in Nodes, stays \in {"none", "old"} : Outcome(i, NodeDown(m, stays))
    BY <1>7, NodeFound
  <2>2. \/ NodeDown(m, stays).external[n] = None
        \/ /\ NodeDown(m, stays).external[n] = cluster.external[n]
           /\ n \in NodeDown(m, stays).mapped
    BY <1>0, <1>1 DEF NodeDown, Clusters
  <2> QED
    BY <1>1, <2>1, <2>2 DEF Outcome
<1>8. CASE Outcome(i, NodeMapped(Node(i)))
  BY <1>0, <1>2, <1>8 DEF NodeMapped, Clusters
<1>9. CASE OnNode(i, "external") /\ Outcome(i, NodeExternal(Node(i), Index(i, K(i))))
  <2>1. PICK m \in Nodes, index \in {Index(i, K(i))} :
            m = Node(i) /\ Outcome(i, NodeExternal(m, index))
    BY <1>9, NodeFound
  <2>2. /\ NodeExternal(m, index).external[n] = IF n = m THEN index ELSE cluster.external[n]
        /\ NodeExternal(m, index).mapped = cluster.mapped
    BY <1>0 DEF NodeExternal, Clusters
  <2> QED
    BY <1>1, <1>9, <2>1, <2>2 DEF Outcome
<1>10. CASE Outcome(i, NodeConnected(Node(i)))
  BY <1>0, <1>2, <1>10 DEF NodeConnected, Clusters
<1>11. CASE Outcome(i, WithGateway(Fact(i)))
  BY <1>0, <1>2, <1>11 DEF WithGateway, Clusters
<1>12. CASE Outcome(i, WithPort(Fact(i)))
  BY <1>0, <1>2, <1>12 DEF WithPort, Clusters
<1> QED
  BY <1>0, <1>3, <1>4, <1>5, <1>6, <1>7, <1>8, <1>9, <1>10, <1>11, <1>12, Outcomes

\* Only the iterations change the networks, the external hosts, the bridge
\* mappings and what was waited for.
LEMMA OthersKeepNetworks ==
  ASSUME TypeInv, [Next]_vars
  PROVE  \/ /\ phase = "run" /\ Run
            /\ \E i \in Iterations : Iterate(i)
         \/ /\ waited' = waited
            /\ cluster'.gateways = cluster.gateways /\ cluster'.ports = cluster.ports
            /\ cluster'.external = cluster.external /\ cluster'.mapped = cluster.mapped
<1>1. CASE cluster' = cluster /\ waited' = waited
  BY <1>1
<1>2. CASE \/ Command \/ StartTask \/ SetupMultihost \/ SetupSandbox \/ SetupDaemon
           \/ SetupDatabase \/ EndRun \/ Cleanup \/ UNCHANGED vars
  BY <1>1, <1>2 DEF Command, StartTask, SetupMultihost, SetupSandbox, SetupDaemon,
                    SetupDatabase, EndRun, Cleanup, vars, nodeVars
<1>3. CASE Run
  BY <1>1, <1>3 DEF Run, CreateOnFarm
<1>4. CASE Registration
  <2>1. PICK n \in Nodes : Registers(n)
    BY <1>4 DEF Registration
  <2>2. /\ cluster' = [cluster EXCEPT !.chassis[n] = "current"] /\ waited' = waited
        /\ cluster \in Clusters
    BY <2>1 DEF Registers, TypeInv, NodesTyped
  <2> QED
    BY <2>2 DEF Clusters
<1> QED
  BY <1>2, <1>3, <1>4 DEF Next, Task

TestbedInv == TypeInv /\ RunInv /\ FarmInv /\ NetInv

LEMMA NetStep ==
  ASSUME OneFarmEach, TestbedInv, [Next]_vars
  PROVE  NetInv'
<1>0. TypeInv /\ RunInv /\ FarmInv /\ NetInv /\ NodesTyped /\ NumFarms \in Nat
  BY Assumed DEF TestbedInv, TypeInv
<1>1. CASE /\ waited' = waited
           /\ cluster'.gateways = cluster.gateways /\ cluster'.ports = cluster.ports
           /\ cluster'.external = cluster.external /\ cluster'.mapped = cluster.mapped
  BY <1>0, <1>1 DEF NetInv
<1>2. CASE phase = "run" /\ \E i \in Iterations : Iterate(i)
  <2>1. PICK i \in Iterations : Iterate(i)
    BY <1>2
  <2>2. ASSUME NEW fact \in cluster'.gateways \cup cluster'.ports
        PROVE  /\ fact.node = fact.net + 1 /\ fact.ext = fact.net
               /\ <<fact.net, fact.node>> \in waited'
    <3>1. waited \subseteq waited'
      BY <1>0, <2>1, IterateFacts
    <3>2. CASE fact \in cluster.gateways \cup cluster.ports
      BY <1>0, <3>1, <3>2 DEF NetInv
    <3>3. CASE fact \notin cluster.gateways \cup cluster.ports
      <4>1. PICK do \in {"gateway", "bind"} : OnNode(i, do) /\ fact = Fact(i)
        BY <1>0, <2>1, <2>2, <3>3, IterateFacts
      <4>2. PICK index \in 0..(NumFarms - 1) :
               /\ Fact(i) = [net |-> index, node |-> index + 1, ext |-> index]
               /\ <<index, index + 1>> \in waited
        BY <1>0, <1>2, <4>1, Placed
      <4> QED
        BY <3>1, <4>1, <4>2
    <3> QED
      BY <3>2, <3>3
  <2>3. ASSUME NEW n \in Nodes
        PROVE  /\ cluster'.external[n] \in {None, n - 1}
               /\ cluster'.external[n] # None => n \in cluster'.mapped
    <3>1. cluster.external[n] \in {None, n - 1} /\ (cluster.external[n] # None => n \in cluster.mapped)
      BY <1>0 DEF NetInv
    <3>2. CASE \/ cluster'.external[n] = None
               \/ cluster'.external[n] = cluster.external[n] /\ n \in cluster'.mapped
      BY <3>1, <3>2
    <3>3. CASE /\ OnNode(i, "external") /\ n = Node(i) /\ cluster'.external[n] = Index(i, K(i))
               /\ cluster'.mapped = cluster.mapped
      <4>1. PICK index \in 0..(NumFarms - 1) :
               Index(i, K(i)) = index /\ Node(i) = index + 1 /\ index + 1 \in cluster.mapped
        BY <1>0, <1>2, <3>3, Placed
      <4> QED
        BY <3>3, <4>1
    <3> QED
      BY <1>0, <2>1, <3>1, <3>2, <3>3, IterateHosts
  <2> QED
    BY <2>2, <2>3 DEF NetInv
<1> QED
  BY <1>0, <1>1, <1>2, OthersKeepNetworks

LEMMA NetInvInit == Init => NetInv
<1> SUFFICES ASSUME Init PROVE NetInv
  OBVIOUS
<1>1. cluster \in {EmptyCluster, LeftCluster}
  BY DEF Init, NodesInit
<1>2. /\ EmptyCluster.gateways = {} /\ EmptyCluster.ports = {}
      /\ \A n \in Nodes : EmptyCluster.external[n] = None
  BY DEF EmptyCluster
<1>3. /\ LeftCluster.gateways = {} /\ LeftCluster.ports = {}
      /\ \A n \in Nodes : LeftCluster.external[n] = None
  BY DEF LeftCluster, EmptyCluster
<1>4. /\ cluster.gateways = {} /\ cluster.ports = {}
      /\ \A n \in Nodes : cluster.external[n] = None
  BY <1>1, <1>2, <1>3
<1> QED
  BY <1>4 DEF NetInv

LEMMA TestbedInvariance ==
  ASSUME OneFarmEach
  PROVE  Spec => []TestbedInv
<1>1. Init => TestbedInv
  BY TypeInvInit, RunInvInit, FarmInvInit, NetInvInit DEF TestbedInv
<1>2. TestbedInv /\ [Next]_vars => TestbedInv'
  <2>1. TypeInv /\ [Next]_vars => TypeInv'
    BY DeployStepInv, DaemonStepInv, TaskStep, NodesStep DEF TypeInv
  <2> QED
    BY <2>1, RunStep, FarmStep, NetStep DEF TestbedInv
<1> QED
  BY <1>1, <1>2, PTL DEF Spec

\* However many farms, iterations, batches, routers and failures there are:
\* if there is a farm for each index, then the node an iteration waited for,
\* the one its gateway and its port are on and the one whose external host
\* that port pings are the same (add_chassis_external_hosts,
\* connect_chassis_nodes, wait_chassis_nodes, _create_routed_network).
THEOREM AllOnOneNode ==
  ASSUME OneFarmEach
  PROVE  Spec => []PlacedWhereConnected
<1>1. ASSUME TestbedInv PROVE PlacedWhereConnected
  <2>1. NetInv /\ cluster \in Clusters
    BY <1>1 DEF TestbedInv, TypeInv, NodesTyped
  <2>2. ASSUME NEW fact \in cluster.gateways \cup cluster.ports
        PROVE  /\ <<fact.net, fact.node>> \in waited
               /\ cluster.external[fact.node] \in {None, fact.ext}
    <3>1. fact.node \in Nodes /\ fact.net \in Nat
      BY <2>1 DEF Clusters, Facts
    <3>2. fact.node - 1 = fact.ext /\ <<fact.net, fact.node>> \in waited
      BY <2>1, <3>1 DEF NetInv
    <3> QED
      BY <2>1, <3>1, <3>2 DEF NetInv
  <2> QED
    BY <2>1, <2>2 DEF NetInv, PlacedWhereConnected
<1> QED
  BY <1>1, TestbedInvariance, PTL

\* Under the same condition a network is never put on a node that has neither
\* registered nor been polled as often as max_timeout_s allows, unless records
\* of an earlier cluster are left (wait_chassis_nodes, _wait_chassis).
THEOREM OnlyOnRegistered ==
  ASSUME OneFarmEach
  PROVE  Spec => NetworksOnRegisteredNodes
<1> DEFINE New == (cluster'.gateways \cup cluster'.ports) \ (cluster.gateways \cup cluster.ports)
<1> DEFINE Step ==
      \A fact \in New :
          cluster.chassis[fact.node] = "current" \/ fact.node \in gaveUp \/ cluster.kept
<1>1. ASSUME TestbedInv, [Next]_vars PROVE [Step]_cluster
  <2>0. TypeInv /\ RunInv /\ FarmInv /\ NodesTyped
    BY <1>1 DEF TestbedInv, TypeInv
  <2>1. CASE cluster'.gateways = cluster.gateways /\ cluster'.ports = cluster.ports
    BY <2>1
  <2>2. CASE phase = "run" /\ \E i \in Iterations : Iterate(i)
    <3>1. PICK i \in Iterations : Iterate(i)
      BY <2>2
    <3>2. ASSUME NEW fact \in New
          PROVE  cluster.chassis[fact.node] = "current" \/ fact.node \in gaveUp \/ cluster.kept
      <4>1. PICK do \in {"gateway", "bind"} : OnNode(i, do) /\ fact = Fact(i)
        BY <2>0, <3>1, <3>2, IterateFacts
      <4>2. PICK index \in 0..(NumFarms - 1) :
               /\ Fact(i) = [net |-> index, node |-> index + 1, ext |-> index]
               /\ \/ cluster.chassis[index + 1] = "current" \/ index + 1 \in gaveUp
                  \/ cluster.kept
        BY <2>0, <2>2, <4>1, Placed
      <4> QED
        BY <4>1, <4>2
    <3> QED
      BY <3>2
  <2> QED
    BY <1>1, <2>0, <2>1, <2>2, OthersKeepNetworks
<1> QED
  BY <1>1, TestbedInvariance, PTL DEF Spec, NetworksOnRegisteredNodes
=============================================================================
