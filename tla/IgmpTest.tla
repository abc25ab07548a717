------------------------------ MODULE IgmpTest ------------------------------
(***************************************************************************)
(* OvnIGMP.igmp_scale: multicast receivers (mcast-tester.c) in the network *)
(* namespaces of the ports, one for each port.  The scenario cuts what     *)
(* they shall join into rounds, writes each tester a file with its part of *)
(* every round, starts them, and for each round signals all of them and    *)
(* waits for the flows.  What is written for a host is batched and sent in *)
(* one session; a session that fails ends the scenario, not the testers.   *)
(*                                                                         *)
(* Assumed: joining a group works, and a tester has taken a signal when    *)
(* the next session reaches its host; signals of one session may merge.    *)
(* Flows are Open vSwitch's and OVN's: up to one for each group that a     *)
(* switch has a member of.                                                 *)
(***************************************************************************)
EXTENDS Integers, Sequences, FiniteSets, SequencesExt

CONSTANTS
    Ports,       \* bound: ports, numbered along the switches
    PerSwitch,   \* ports_per_network
    Setups,      \* the arguments: switches, group_count, receivers, mcast_batch
    HostOf,      \* HostOf[p] : the host with the sandbox of port p
    Extends,     \* the <<p, q>> where the name of q begins with that of p
    Error,       \* error: the flows that may be missing
    MaxPolls     \* 60

Hosts == {HostOf[p] : p \in Ports}

ASSUME IgmpAssumption ==
    /\ PerSwitch \in Nat \ {0} /\ Error \in Nat /\ MaxPolls \in Nat \ {0}
    /\ HostOf \in [Ports -> Hosts] /\ IsFiniteSet(Hosts)
    /\ Extends \subseteq Ports \X Ports
    /\ Setups \subseteq [switches : Nat, groups : Nat \ {0}, receivers : Nat \ {0}, batch : Nat \ {0}]
    /\ \A s \in Setups : Ports = 0..(s.switches * PerSwitch - 1)

VARIABLES
    setup, plan, \* the arguments; the rounds
    at,          \* what the scenario is doing
    round,       \* the number of the round
    left,        \* the hosts that its sessions have not reached yet
    polls,       \* the times it counted the flows in this round
    files,       \* files[p] : the rounds in the input file of p
    running,     \* the ports with a tester
    sem,         \* sem[p] : its semaphore
    joined       \* joined[p] : the rounds it has joined

vars == <<setup, plan, at, round, left, polls, files, running, sem, joined>>

-----------------------------------------------------------------------------
\* An assignment is a receiver of a group on a switch, numbered in the order of
\* the three loops.
PerNetwork(s) == s.groups * s.receivers
Assignments(s) == s.switches * PerNetwork(s)
SwitchOf(s, a) == a \div PerNetwork(s)
GroupOf(s, a) == (a % PerNetwork(s)) \div s.receivers

NoGroups == [p \in Ports |-> <<>>]

\* The ports of a switch take turns, from the first one on.
TurnGoesOn(s, a, turn) == turn
TurnOf(s, a, turn) == IF a % PerNetwork(s) = 0 THEN 0 ELSE turn

\* A round is full at the size of a batch; the last one may not be.
Assign(s, b, a) ==
    LET turn == TurnOf(s, a, b.turn)
        port == SwitchOf(s, a) * PerSwitch + turn
        current == [b.current EXCEPT ![port] = Append(@, GroupOf(s, a))]
        next == [b EXCEPT !.turn = (turn + 1) % PerSwitch, !.current = current, !.total = @ + 1]
    IN  IF next.total < s.batch THEN next
        ELSE [next EXCEPT !.rounds = Append(@, [total |-> s.batch, groups |-> current]),
                          !.current = NoGroups, !.total = 0]

FullRounds(b) == b.rounds
AllRounds(b) ==
    IF b.total = 0 THEN b.rounds
    ELSE Append(b.rounds, [total |-> b.total, groups |-> b.current])

BuildConfigTesters(s) ==
    AllRounds(FoldLeft(LAMBDA b, a : Assign(s, b, a),
                       [rounds |-> <<>>, current |-> NoGroups, total |-> 0, turn |-> 0],
                       [k \in 1..Assignments(s) |-> k - 1]))

Init ==
    /\ setup \in Setups /\ plan = BuildConfigTesters(setup)
    /\ at = "config" /\ round = 1 /\ left = Hosts /\ polls = 0
    /\ files = [p \in Ports |-> <<>>]
    /\ running = {} /\ sem = [p \in Ports |-> 0] /\ joined = [p \in Ports |-> 0]

-----------------------------------------------------------------------------
On(h) == {p \in Ports : HostOf[p] = h}
Goto(place, r) == at' = place /\ round' = r /\ left' = Hosts

\* What the sessions of _flush_conns do on their hosts.
Reached(place) == at = place /\ left = {}
Session(place, h) == at = place /\ h \in left
Sent(h) == left' = left \ {h} /\ UNCHANGED <<at, round>>
Raised == at' = "raised" /\ left' = {} /\ UNCHANGED round

\* The number of its groups in this round and the groups, for every port.
Configure(h) ==
    /\ Session("config", h)
    /\ files' = [p \in Ports |->
                    IF p \in On(h) THEN Append(files[p], plan[round].groups[p]) ELSE files[p]]
    /\ Sent(h)
    /\ UNCHANGED <<setup, plan, polls, running, sem, joined>>

Configured ==
    /\ Reached("config")
    /\ IF round < Len(plan) THEN Goto("config", round + 1) ELSE Goto("start", 0)
    /\ UNCHANGED <<setup, plan, polls, files, running, sem, joined>>

StartTesters(h) ==
    /\ Session("start", h)
    /\ running' = running \cup On(h)
    /\ \/ Sent(h)
       \/ Raised
    /\ UNCHANGED <<setup, plan, polls, files, sem, joined>>

Started ==
    /\ Reached("start")
    /\ Goto("trigger", 1)
    /\ UNCHANGED <<setup, plan, polls, files, running, sem, joined>>

\* kill -s SIGUSR1, for each port to every process whose command line has the
\* name of the port in it, as a pattern: the dots of a name match any character
\* too, which adds no process with the few networks of the instance.  Matches(q)
\* are the ports whose command reaches the tester of q.
Matches(q) == {p \in On(HostOf[q]) : p = q \/ <<p, q>> \in Extends}
OwnName(q) == Matches(q) = {q}

Arrive(h) ==
    {[q \in On(h) |-> IF OwnName(q) THEN 1 ELSE got[q]] :
        got \in {got \in [{q \in On(h) : ~OwnName(q)} -> 1..Cardinality(On(h))] :
                    \A q \in DOMAIN got : got[q] <= Cardinality(Matches(q))}}

TriggerTesters(h) ==
    /\ Session("trigger", h)
    /\ \E got \in Arrive(h) :
          sem' = [q \in Ports |-> IF q \in On(h) THEN sem[q] + got[q] ELSE sem[q]]
    /\ \/ Sent(h)
       \/ Raised
    /\ UNCHANGED <<setup, plan, polls, files, running, joined>>

Triggered ==
    /\ Reached("trigger")
    /\ Goto("poll", round) /\ polls' = 0
    /\ UNCHANGED <<setup, plan, files, running, sem, joined>>

\* A session that fails before it has done anything of importance.
SessionLost ==
    /\ \/ at \in {"config", "start", "trigger"} /\ left # {}
       \/ at = "poll"
    /\ Raised
    /\ UNCHANGED <<setup, plan, polls, files, running, sem, joined>>

-----------------------------------------------------------------------------
\* _run_mcast.
Joined(p, r) == {<<p \div PerSwitch, files[p][r][k]>> : k \in DOMAIN files[p][r]}
Members == UNION {UNION {Joined(p, r) : r \in 1..joined[p]} : p \in Ports}

Expected(r) == FoldLeft(LAMBDA n, x : n + x.total, 0, SubSeq(plan, 1, r))

NextRound ==
    IF round < Len(plan) THEN Goto("trigger", round + 1) ELSE Goto("returned", round)

\* Some of the flows there can be are counted: enough of them or not.
PollFlows ==
    /\ at = "poll"
    /\ \/ /\ Cardinality(Members) >= Expected(round) - Error \/ polls + 1 = MaxPolls
          /\ NextRound /\ UNCHANGED polls
       \/ /\ Expected(round) > Error /\ polls + 1 < MaxPolls
          /\ polls' = polls + 1 /\ UNCHANGED <<at, round, left>>
    /\ UNCHANGED <<setup, plan, files, running, sem, joined>>

\* A tester waits for its semaphore and joins the groups of its next round.
Join(p) ==
    /\ p \in running /\ joined[p] < Len(files[p]) /\ sem[p] > 0
    /\ sem' = [sem EXCEPT ![p] = @ - 1]
    /\ joined' = [joined EXCEPT ![p] = @ + 1]
    /\ UNCHANGED <<setup, plan, at, round, left, polls, files, running>>

Scenario ==
    \/ \E h \in Hosts : Configure(h) \/ StartTesters(h) \/ TriggerTesters(h)
    \/ Configured \/ Started \/ Triggered \/ SessionLost \/ PollFlows

Tester == \E p \in Ports : Join(p)

Next == Scenario \/ Tester

\* Python goes on, and the kernel lets every tester run.
Spec == Init /\ [][Next]_vars /\ WF_vars(Scenario) /\ WF_vars(Tester)

-----------------------------------------------------------------------------
TypeOK ==
    /\ setup \in Setups
    /\ at \in {"config", "start", "trigger", "poll", "returned", "raised"}
    /\ round \in Nat /\ left \subseteq Hosts /\ polls \in Nat
    /\ files \in [Ports -> Seq(Seq(Nat))]
    /\ running \subseteq Ports
    /\ sem \in [Ports -> Nat] /\ joined \in [Ports -> Nat]

\* The assignments of port p in round r, from their numbers alone.
RoundOf(a) == a \div setup.batch + 1
PortOf(a) == SwitchOf(setup, a) * PerSwitch + ((a % PerNetwork(setup)) % PerSwitch)
Planned(p, r) == {a \in 0..(Assignments(setup) - 1) : PortOf(a) = p /\ RoundOf(a) = r}

\* A tester joins a round after it was triggered, unless its name begins with
\* that of another one on its host; and then it joins what the three loops
\* assign to its port in that round, each group as often as there
\* (_build_config_testers, _config_mcast_testers, mcast-tester.c).
JoinsFollowThePlan ==
    [][\A p \in Ports : joined'[p] # joined[p] =>
          LET r == joined'[p]
          IN  /\ OwnName(p) => r <= round
              /\ \A g \in 0..(setup.groups - 1) :
                    Cardinality({k \in DOMAIN files[p][r] : files[p][r][k] = g})
                      = Cardinality({a \in Planned(p, r) : GroupOf(setup, a) = g})]_joined

\* The scenario ends, whatever the flows; and if nothing raised, every tester
\* goes through all rounds in which its port has a group, also when the waits
\* for the flows gave up while testers were behind.
EveryoneJoins ==
    <>(\/ at = "raised"
       \/ /\ at = "returned"
          /\ \A p \in Ports : \A r \in 1..Assignments(setup) :
                Planned(p, r) # {} => p \in running /\ joined[p] >= r)
=============================================================================
