--------------------------- MODULE FakeMultinode ---------------------------
(***************************************************************************)
(* The ovn-fake-multinode workloads: a central node, a chassis node in a   *)
(* container on each farm, and a network for each node with a gateway      *)
(* router, an external host behind it and a port that pings that host.     *)
(* Each iteration works on a batch of consecutive indexes, and computes    *)
(* from an index a node, a sandbox and networks, in several methods that   *)
(* do not pass the result on to each other.                                *)
(*                                                                         *)
(* ovn_cluster.sh and OVN are not in the repository: the script refuses to *)
(* add what is there, a chassis that has the remote of a running central   *)
(* node registers with its southbound database some time later, and the    *)
(* record of a node that was stopped may stay there.                       *)
(*                                                                         *)
(* Nodes are numbers, those of their farms, from 1.  Operators named after *)
(* a mistake stand before the one they could replace.                      *)
(***************************************************************************)
EXTENDS Integers, Sequences, FiniteSets

CONSTANTS
    Nodes,          \* the chassis nodes, one in the container of each farm
    MaxIterations,  \* bound: iterations of a workload
    NumRouters,     \* the cluster routers of the datapath context
    PerRouter,      \* networks_per_router
    LeftNodes,      \* the nodes that an earlier task may have left running
    Polls,          \* max_timeout_s * 10
    MaxFailures     \* bound: sessions that break

ASSUME MultinodeAssumption ==
    /\ Nodes \subseteq Nat \ {0} /\ LeftNodes \subseteq Nodes
    /\ MaxIterations \in Nat /\ NumRouters \in Nat /\ PerRouter \in Nat
    /\ Polls \in Nat \ {0} /\ MaxFailures \in Nat

VARIABLES
    sandboxes,  \* context["sandboxes"] : the farm of each
    work,       \* the workload: its scenario, batch_size, and runner
    todo,       \* todo[i] : the calls left in iteration i
    polls,      \* the polls of its current wait
    cluster,    \* the nodes, and what the databases of the central node have
    waited,     \* history: <<index, node>> that a wait has returned for
    gaveUp,     \* history: the nodes a wait gave up on
    failures

nodeVars == <<sandboxes, work, todo, polls, cluster, waited, gaveUp, failures>>

Iterations == 0..(MaxIterations - 1)
None == -1

\* An empty test bed, or one where an earlier task left nodes running.
\* chassis is the southbound record of a node, "old" when the node that made
\* it is gone; external the number of the network of a node's external host;
\* a gateway or a port is a network, the node it is on, and the external
\* network it leads to; kept says that records of old nodes may be there.
EmptyCluster ==
    [central |-> FALSE, up |-> {}, remote |-> {}, mapped |-> {},
     chassis |-> [n \in Nodes |-> "none"], external |-> [n \in Nodes |-> None],
     gateways |-> {}, ports |-> {}, kept |-> FALSE]

LeftCluster ==
    [EmptyCluster EXCEPT !.central = TRUE, !.up = LeftNodes, !.remote = LeftNodes,
                         !.chassis = [n \in Nodes |-> IF n \in LeftNodes THEN "current" ELSE "none"],
                         !.kept = TRUE]

NoWork == [scenario |-> "none", batch |-> 1, times |-> 0, parallel |-> FALSE]

NodesInit ==
    /\ sandboxes = <<>> /\ work = NoWork
    /\ todo = [i \in Iterations |-> <<>>] /\ polls = [i \in Iterations |-> 0]
    /\ cluster \in {EmptyCluster, LeftCluster}
    /\ waited = {} /\ gaveUp = {} /\ failures = 0

-----------------------------------------------------------------------------
\* _sandboxes has one sandbox for each farm, whose names are numbered from 0.
FarmsUsed == {sandboxes[k] : k \in DOMAIN sandboxes}
NodeOf(index) == (index % Cardinality(FarmsUsed)) + 1
Found(index) == FarmsUsed # {} /\ NodeOf(index) \in FarmsUsed

Index(i, k) == i * work.batch + k

\* The networks of iteration i, and the sandboxes they are for, which
\* _create_routed_network takes from the list.
Network(i, k) == i * work.batch + k
SliceFromStart(i, k) == sandboxes[(k % Len(sandboxes)) + 1]
SliceOfList(i, k) == sandboxes[((i * work.batch + k) % Len(sandboxes)) + 1]

\* Each router takes the next PerRouter networks, and sandboxes along with them.
HasGateway(k) == k < NumRouters * PerRouter

Calls(w, do) == [j \in 1..w.batch |-> [do |-> do, k |-> j - 1]]
GatewayCalls(w) ==
    [j \in {j \in 1..w.batch : HasGateway(j - 1)} |-> [do |-> "gateway", k |-> j - 1]]

\* The scenarios, as sequences of calls.
Program(w) ==
    CASE w.scenario = "create_sandbox" -> Calls(w, "createSandbox")
      [] w.scenario = "add_central_node" -> <<[do |-> "addCentral", k |-> 0]>>
      [] w.scenario = "del_central_node" -> <<[do |-> "delCentral", k |-> 0]>>
      [] w.scenario = "del_chassis_nodes" -> Calls(w, "delete")
      [] w.scenario = "setup_switch_per_node_init" ->
            Calls(w, "add") \o Calls(w, "localnet") \o Calls(w, "external")
      [] w.scenario = "setup_switch_per_node" ->
            Calls(w, "connect") \o Calls(w, "wait") \o GatewayCalls(w) \o Calls(w, "bind")
      [] OTHER -> <<>>

Begin(w) ==
    /\ work' = w
    /\ todo' = [i \in Iterations |-> IF i < w.times THEN Program(w) ELSE <<>>]

-----------------------------------------------------------------------------
\* The serial runner starts an iteration when the previous ones have ended.
Turn(i) == work.parallel \/ \A j \in Iterations : j < i => todo[j] = <<>>
Now(i, do) == todo[i] # <<>> /\ Head(todo[i]).do = do /\ Turn(i)

K(i) == Head(todo[i]).k
Node(i) == NodeOf(Index(i, K(i)))

Continue(i) == todo' = [todo EXCEPT ![i] = Tail(@)]
Raise(i) == todo' = [todo EXCEPT ![i] = <<>>]
Fail == failures < MaxFailures /\ failures' = failures + 1

\* A session that does its work, is refused, or breaks before or after it.
Session(i, works, after) ==
    /\ \/ works /\ cluster' = after /\ Continue(i) /\ UNCHANGED failures
       \/ ~works /\ Raise(i) /\ UNCHANGED <<cluster, failures>>
       \/ /\ Fail /\ Raise(i)
          /\ cluster' \in {cluster, IF works THEN after ELSE cluster}
    /\ UNCHANGED <<sandboxes, work, polls, waited, gaveUp>>

NodeCalls == {"add", "delete", "localnet", "external", "connect", "wait", "gateway", "bind"}

\* A KeyError, or a division by zero: the farm of the index has no sandbox.
NotFound(i) ==
    /\ \E do \in NodeCalls : Now(i, do)
    /\ ~Found(Index(i, K(i)))
    /\ Raise(i)
    /\ UNCHANGED <<sandboxes, work, polls, cluster, waited, gaveUp, failures>>

OnNode(i, do) == Now(i, do) /\ Found(Index(i, K(i)))

\* ovn_cluster.sh start and stop.
AddCentral(i) ==
    /\ Now(i, "addCentral")
    /\ Session(i, ~cluster.central, [cluster EXCEPT !.central = TRUE])

DelCentral(i) ==
    /\ Now(i, "delCentral")
    /\ \E works \in {TRUE, cluster.central} :
          Session(i, works,
                  [cluster EXCEPT !.central = FALSE, !.kept = FALSE,
                                  !.chassis = [n \in Nodes |-> "none"],
                                  !.gateways = {}, !.ports = {}])

\* add-chassis, with an invalid remote.
AddChassis(i) ==
    /\ OnNode(i, "add")
    /\ Session(i, Node(i) \notin cluster.up,
               [cluster EXCEPT !.up = @ \cup {Node(i)}])

\* stop-chassis: the record of the node may stay.
DelChassis(i) ==
    /\ OnNode(i, "delete")
    /\ \E works \in {TRUE, Node(i) \in cluster.up} : \E stays \in {"none", "old"} :
          Session(i, works,
                  [cluster EXCEPT !.up = @ \ {Node(i)}, !.remote = @ \ {Node(i)},
                                  !.mapped = @ \ {Node(i)}, !.external[Node(i)] = None,
                                  !.chassis[Node(i)] = IF @ = "none" THEN @ ELSE stays,
                                  !.kept = @ \/ (stays = "old" /\ cluster.chassis[Node(i)] # "none")])

\* In the container of the node: ovn-bridge-mappings, and a namespace for the
\* external host, on the network with the node's index.  The lines that make
\* the host are one script: what a session that breaks in the middle of it
\* leaves is not modelled.
AddLocalnet(i) ==
    /\ OnNode(i, "localnet")
    /\ Session(i, Node(i) \in cluster.up, [cluster EXCEPT !.mapped = @ \cup {Node(i)}])

AddExternalHost(i) ==
    /\ OnNode(i, "external")
    /\ Session(i, Node(i) \in cluster.up /\ cluster.external[Node(i)] = None,
               [cluster EXCEPT !.external[Node(i)] = Index(i, K(i))])

\* set-chassis-ovn-remote.
ConnectChassis(i) ==
    /\ OnNode(i, "connect")
    /\ Session(i, Node(i) \in cluster.up, [cluster EXCEPT !.remote = @ \cup {Node(i)}])

Registers(n) ==
    /\ n \in cluster.remote /\ cluster.central /\ cluster.chassis[n] # "current"
    /\ cluster' = [cluster EXCEPT !.chassis[n] = "current"]
    /\ UNCHANGED <<sandboxes, work, todo, polls, waited, gaveUp, failures>>

\* _wait_chassis: it stops at the first answer that has the chassis, or after
\* its last poll.
AnyAnswer(n) == TRUE
Answers(n) == cluster.chassis[n] # "none"

OnePollMore(i) == polls[i] = Polls
LastPoll(i) == polls[i] + 1 = Polls

PollsForgotten(i) == 0
PollsCounted(i) == polls[i] + 1

PollChassis(i) ==
    /\ OnNode(i, "wait")
    /\ \/ /\ cluster.central /\ (Answers(Node(i)) \/ LastPoll(i))
          /\ Continue(i)
          /\ polls' = [polls EXCEPT ![i] = 0]
          /\ waited' = waited \cup {<<Index(i, K(i)), Node(i)>>}
          /\ gaveUp' = IF Answers(Node(i)) THEN gaveUp ELSE gaveUp \cup {Node(i)}
          /\ UNCHANGED failures
       \/ /\ cluster.central /\ ~Answers(Node(i)) /\ ~LastPoll(i)
          /\ polls' = [polls EXCEPT ![i] = PollsCounted(i)]
          /\ UNCHANGED <<todo, waited, gaveUp, failures>>
       \/ /\ ~cluster.central /\ Raise(i)
          /\ UNCHANGED <<polls, waited, gaveUp, failures>>
       \/ Fail /\ Raise(i) /\ UNCHANGED <<polls, waited, gaveUp>>
    /\ UNCHANGED <<sandboxes, work, cluster>>

\* _connect_gateway_router, and the port of a network with its binding.
Missing(net, facts) == \A fact \in facts : fact.net # net
Fact(i) == [net |-> Network(i, K(i)), node |-> SliceOfList(i, K(i)), ext |-> Network(i, K(i))]

ConnectGateway(i) ==
    /\ OnNode(i, "gateway")
    /\ Session(i, cluster.central /\ Missing(Network(i, K(i)), cluster.gateways),
               [cluster EXCEPT !.gateways = @ \cup {Fact(i)}])

BindPort(i) ==
    /\ OnNode(i, "bind")
    /\ Session(i, cluster.central /\ Missing(Network(i, K(i)), cluster.ports),
               [cluster EXCEPT !.ports = @ \cup {Fact(i)}])

Iterate(i) ==
    \/ NotFound(i) \/ AddCentral(i) \/ DelCentral(i) \/ AddChassis(i) \/ DelChassis(i)
    \/ AddLocalnet(i) \/ AddExternalHost(i) \/ ConnectChassis(i) \/ PollChassis(i)
    \/ ConnectGateway(i) \/ BindPort(i)

NodesNext == (\E i \in Iterations : Iterate(i)) \/ (\E n \in Nodes : Registers(n))

-----------------------------------------------------------------------------
\* The node that an iteration connected and waited for under an index, the
\* node its network's gateway is on, the one its port is bound to and the
\* external host that port pings are all the same one, although four methods
\* compute them from the index: add_chassis_external_hosts,
\* connect_chassis_nodes, wait_chassis_nodes and _create_routed_network.
PlacedWhereConnected ==
    /\ \A fact \in cluster.gateways \cup cluster.ports :
          /\ <<fact.net, fact.node>> \in waited
          /\ cluster.external[fact.node] \in {None, fact.ext}
    /\ \A n \in Nodes : cluster.external[n] # None => n \in cluster.mapped

\* A network is put only on a node that has registered, or that was polled as
\* often as max_timeout_s says without an answer; unless records of an
\* earlier cluster are still in the southbound database (_wait_chassis).
NetworksOnRegisteredNodes ==
    [][\A fact \in (cluster'.gateways \cup cluster'.ports) \ (cluster.gateways \cup cluster.ports) :
          cluster.chassis[fact.node] = "current" \/ fact.node \in gaveUp \/ cluster.kept]_cluster
=============================================================================
