---------------------------- MODULE FarmClients ----------------------------
(***************************************************************************)
(* Binding logical ports to sandboxes, and the farm clients it is done     *)
(* with.  An iteration has one ovs-vsctl and one ovs-ssh client for each   *)
(* farm, which all the sandboxes of the farm share: the client works on    *)
(* whatever sandbox set_sandbox() gave it last, and holds the commands of  *)
(* one batch.  Sandboxes and ports are numbers, in the order of their      *)
(* lists.                                                                  *)
(*                                                                         *)
(* One iteration of create_and_bind_ports: the ports are spread over the   *)
(* sandboxes, added to their Open vSwitch, given a network namespace when  *)
(* they are internal, pinged from it, and removed.  install_method is      *)
(* "sandbox" or "physical", with or without a container on the farm.       *)
(*                                                                         *)
(* Operators named after a mistake (StoredFirst, SandboxKept, ...) stand   *)
(* before the one they could replace; they are used by no definition.      *)
(***************************************************************************)
EXTENDS Naturals, SequencesExt

CONSTANTS
    Farms,         \* the farm hosts
    NumSandboxes,  \* the length of the list "sandboxes"
    FarmOf,        \* FarmOf[s] : sandbox["farm"]
    Setups,        \* the test beds and the arguments of the scenario
    Amounts,       \* the possible numbers of ports
    WaitTimeout,   \* wait_timeout_s
    Nowhere        \* no sandbox, or one that is not a name

Sandboxes == 1..NumSandboxes

\* install_method and the farms with a host_container; "internal" of
\* port_bind_args with "internal_vm", "wait_up" with "wait_sync": "ping", and
\* internal_ports_cleanup.  A sandbox has no device of its own to configure,
\* and a ping leaves from the port's namespace.
SetupType ==
    {s \in [method : {"sandbox", "physical"}, containers : SUBSET Farms,
            internal : BOOLEAN, ping : BOOLEAN, cleanup : BOOLEAN] :
        (s.internal => s.method = "physical") /\ (s.ping => s.internal)}

ASSUME FarmAssumption ==
    /\ NumSandboxes \in Nat \ {0} /\ FarmOf \in [Sandboxes -> Farms]
    /\ Setups \subseteq SetupType /\ Nowhere \notin Sandboxes \cup Farms
    /\ Amounts \subseteq Nat \ {0} /\ WaitTimeout \in Nat

VARIABLES
    setup,     \* the test bed and the arguments, of the Setups
    ports,     \* the number of logical ports
    chosen,    \* chosen[p] : the sandbox of port p (lport_sbs)
    phase,     \* the method the iteration is in
    todo,      \* the calls on clients that are left in it
    name,      \* name[c] : the sandbox of client c
    batch,     \* its batch mode
    cmds,      \* its commands, <<>> for None too
    world,     \* what exists on the hosts: {<<place, what, port>>}
    context,   \* context["ovs-internal-ports"], in order of insertion
    elapsed,   \* seconds since the start_time of the current wait
    script,    \* history: the lines of the last ssh.run()
    odd        \* history: the parity of the number of pings, which makes a
               \* failed one a step that is not a stutter

vars == <<setup, ports, chosen, phase, todo, name, batch, cmds, world, context, elapsed, script, odd>>

Clients == Farms \X {"vsctl", "ssh"}
Vsctl(s) == <<FarmOf[s], "vsctl">>
Ssh(s) == <<FarmOf[s], "ssh">>
Lports == 1..ports

-----------------------------------------------------------------------------
\* What a command does to port p at a place: the facts it needs, the fact it
\* must not find, those it adds and those it removes.
Facts == {"port", "iface", "netns", "link", "up"}

Effect(op) ==
    CASE op = "add"      -> [needs |-> {},              adds |-> {"port"},  removes |-> {}]
      [] op = "set"      -> [needs |-> {"port"},        adds |-> {"iface"}, removes |-> {}]
      [] op = "del"      -> [needs |-> {"port"},        adds |-> {},        removes |-> Facts \ {"netns"}]
      [] op = "ethtool"  -> [needs |-> {"port"},        adds |-> {},        removes |-> {}]
      [] op = "nsAdd"    -> [needs |-> {},              adds |-> {"netns"}, removes |-> {}]
      [] op = "moveIn"   -> [needs |-> {"port", "netns"}, adds |-> {"link"}, removes |-> {}]
      [] op = "configure" -> [needs |-> {"link"},       adds |-> {"up"},    removes |-> {}]
      [] op = "ping"     -> [needs |-> {"up"},          adds |-> {},        removes |-> {}]
      [] op = "nsDel"    -> [needs |-> {"netns"},       adds |-> {},        removes |-> {"netns"}]

Works(line, place, w) ==
    /\ \A what \in Effect(line.op).needs : <<place, what, line.on>> \in w
    /\ line.op = "nsAdd" => <<place, "netns", line.on>> \notin w

After(line, place, w) ==
    IF ~Works(line, place, w) THEN w
    ELSE (w \ {<<place, what, line.on>> : what \in Effect(line.op).removes})
         \cup {<<place, what, line.on>> : what \in Effect(line.op).adds}

\* What exists after each of the lines; a line that fails changes nothing.
Worlds(place, lines, w) ==
    LET world_after[i \in 0..Len(lines)] ==
            IF i = 0 THEN w ELSE After(lines[i], place, world_after[i - 1])
    IN  world_after

LineWorks(i, place, lines, w) == Works(lines[i], place, Worlds(place, lines, w)[i - 1])

\* The lines of a shell script are all run, and the last one is its status.
Shell(place, lines, w) ==
    [w  |-> Worlds(place, lines, w)[Len(lines)],
     ok |-> LineWorks(Len(lines), place, lines, w)]

\* One ovs-vsctl with several commands is one transaction.
Transaction(place, lines, w) ==
    IF \A i \in 1..Len(lines) : LineWorks(i, place, lines, w)
    THEN [w |-> Worlds(place, lines, w)[Len(lines)], ok |-> TRUE]
    ELSE [w |-> w, ok |-> FALSE]

\* How ssh.run() may end: never sent, run, or run and the answer lost.
Outcomes(r) == {[w |-> world, ok |-> FALSE], r, [w |-> r.w, ok |-> FALSE]}

-----------------------------------------------------------------------------
\* The calls the methods make.
Call(do, c, op, on) == [do |-> do, client |-> c, op |-> op, on |-> on]
SetSandbox(c, s) == Call("set", c, "", s)
BatchMode(c, value) == Call(IF value THEN "batch" ELSE "direct", c, "", Nowhere)
Run(c, op, p) == Call("run", c, op, p)
Flush(c) == Call("flush", c, "", Nowhere)

EachSandbox(Calls(_)) == FlattenSeq([s \in Sandboxes |-> Calls(s)])
EachPort(Calls(_)) == FlattenSeq([p \in Lports |-> Calls(p)])
EachPortOf(s, Calls(_)) == EachPort(LAMBDA p : IF chosen[p] = s THEN Calls(p) ELSE <<>>)
EachStored(Calls(_)) == FlattenSeq([i \in 1..Len(context) |-> Calls(context[i])])

\* lport_sbs has the sandboxes in the order of their first ports.
FirstOfSandbox(p) == \A q \in 1..(p - 1) : chosen[q] # chosen[p]
EachUsedSandbox(Calls(_)) ==
    EachPort(LAMBDA p : IF FirstOfSandbox(p) THEN Calls(chosen[p]) ELSE <<>>)

AddPort(s, p) == <<Run(Vsctl(s), "add", p), Run(Vsctl(s), "set", p)>>

AddPorts(s) ==
    <<SetSandbox(Vsctl(s), s), BatchMode(Vsctl(s), TRUE)>>
    \o EachPortOf(s, LAMBDA p : AddPort(s, p))

BindOvsPort(s) == AddPorts(s) \o <<Flush(Vsctl(s)), BatchMode(Vsctl(s), FALSE)>>

StorePort(p) == Call("store", Ssh(chosen[p]), "", p)

InternalVm(s, p) ==
    (IF FarmOf[s] \in setup.containers THEN <<>> ELSE <<Run(Ssh(s), "ethtool", p)>>)
    \o <<Run(Ssh(s), "nsAdd", p), Run(Ssh(s), "moveIn", p), Run(Ssh(s), "configure", p),
         Flush(Ssh(s))>>

StoredFirst(s) ==
    <<SetSandbox(Ssh(s), s)>>
    \o EachPortOf(s, LAMBDA p : <<StorePort(p)>> \o InternalVm(s, p))

StoredAtTheEnd(s) ==
    <<SetSandbox(Ssh(s), s)>>
    \o EachPortOf(s, LAMBDA p : InternalVm(s, p))
    \o EachPortOf(s, LAMBDA p : <<StorePort(p)>>)

BindInternalVm(s) ==
    <<SetSandbox(Ssh(s), s)>>
    \o EachPortOf(s, LAMBDA p : InternalVm(s, p) \o <<StorePort(p)>>)

\* set_sandbox() gets the sandbox, not its name, here and in the cleanup.
PingPort(p) ==
    LET c == Ssh(chosen[p])
    IN  <<SetSandbox(c, Nowhere), BatchMode(c, FALSE), Call("start", c, "", p),
          Call("ping", c, "ping", p)>>

DeleteInternalVm(p) ==
    <<Run(Vsctl(chosen[p]), "del", p), Run(Ssh(chosen[p]), "nsDel", p)>>

FlushVsctlOnly(s) == <<Flush(Vsctl(s))>>
FlushBoth(s) == <<Flush(Vsctl(s)), Flush(Ssh(s))>>

CleanupInternalPorts ==
    EachSandbox(LAMBDA s :
        <<SetSandbox(Ssh(s), s), BatchMode(Ssh(s), TRUE),
          SetSandbox(Vsctl(s), Nowhere), BatchMode(Vsctl(s), TRUE)>>)
    \o EachStored(DeleteInternalVm)
    \o EachSandbox(FlushBoth)

\* _bind_ports, _bind_ports_and_wait and create_and_bind_ports: the methods in
\* order, and the sandboxes each of them goes through.
PhaseAfter(ph) ==
    CASE ph = "bind" -> IF setup.internal THEN "vm" ELSE "cleanup"
      [] ph = "vm"   -> IF setup.ping THEN "wait" ELSE "cleanup"
      [] ph = "wait" -> "cleanup"
      [] ph = "cleanup" -> "returned"

ProgramOf(ph) ==
    CASE ph = "bind" -> EachUsedSandbox(BindOvsPort)
      [] ph = "vm"   -> EachUsedSandbox(BindInternalVm)
      [] ph = "wait" -> EachPort(PingPort)
      [] ph = "cleanup" -> IF setup.cleanup THEN CleanupInternalPorts ELSE <<>>
      [] ph = "returned" -> <<>>

-----------------------------------------------------------------------------
\* lport_per_sandbox, rounded up; the mistake is to round down.
RoundedDown(n) == n \div NumSandboxes
LportPerSandbox(n) == (n + NumSandboxes - 1) \div NumSandboxes

\* The i-th slice of the ports goes to the i-th sandbox.
SliceOf(p, n) == ((p - 1) \div LportPerSandbox(n)) + 1

Init ==
    /\ setup \in Setups
    /\ ports \in Amounts
    /\ chosen = <<>>
    /\ phase = "choose" /\ todo = <<>>
    /\ name = [c \in Clients |-> Nowhere]
    /\ batch = [c \in Clients |-> FALSE]
    /\ cmds = [c \in Clients |-> <<>>]
    /\ world = {} /\ context = <<>>
    /\ elapsed = 0 /\ script = <<>> /\ odd = FALSE

\* With fewer ports than sandboxes each port gets a random one.
BindPorts ==
    /\ phase = "choose"
    /\ chosen' \in IF ports < NumSandboxes THEN [Lports -> Sandboxes]
                   ELSE {[p \in Lports |-> SliceOf(p, ports)]}
    /\ phase' = "start"
    /\ UNCHANGED <<setup, ports, todo, name, batch, cmds, world, context, elapsed, script, odd>>

EnterPhase ==
    /\ phase \notin {"choose", "returned", "raised"} /\ todo = <<>>
    /\ phase' = IF phase = "start" THEN "bind" ELSE PhaseAfter(phase)
    /\ todo' = ProgramOf(phase')
    /\ UNCHANGED <<setup, ports, chosen, name, batch, cmds, world, context, elapsed, script, odd>>

Next1(do) == todo # <<>> /\ Head(todo).do = do
C == Head(todo).client
P == Head(todo).on
Continue == todo' = Tail(todo) /\ UNCHANGED phase
Raise == todo' = <<>> /\ phase' = "raised"

\* set_sandbox()
SandboxKept(c, s) == IF name[c] = Nowhere THEN s ELSE name[c]
SandboxGiven(c, s) == s

DoSetSandbox ==
    /\ Next1("set") /\ Continue
    /\ name' = [name EXCEPT ![C] = SandboxGiven(C, P)]
    /\ UNCHANGED <<setup, ports, chosen, batch, cmds, world, context, elapsed, script, odd>>

\* enable_batch_mode(): only the mode changes.
DoBatchMode ==
    /\ Next1("batch") \/ Next1("direct")
    /\ Continue
    /\ batch' = [batch EXCEPT ![C] = Head(todo).do = "batch"]
    /\ UNCHANGED <<setup, ports, chosen, name, cmds, world, context, elapsed, script, odd>>

\* OvsVsctl.run() leaves batch mode when there is a container.
Batched(c) == batch[c] /\ (c[2] = "vsctl" => c[1] \notin setup.containers)

\* Where a client's commands run: the ovs-vsctl of a sandbox reads its
\* sandbox.rc, everything else runs on the farm or in its container.
Place(c) == IF c[2] = "vsctl" /\ setup.method = "sandbox" THEN name[c] ELSE c[1]

Line == [op |-> Head(todo).op, on |-> P]

\* What is left in self.cmds when ssh.run() raised: OvsSsh empties it before
\* the call, OvsVsctl after it.
EmptiedAfterwards(c, lines) == lines
LeftWhenRaised(c, lines) == IF c[2] = "ssh" THEN <<>> ELSE lines

\* ssh.run() of lines: the iteration goes on, or gets an exception.
Send(c, lines, result, Except) ==
    \E r \in Outcomes(result) :
       /\ world' = r.w
       /\ script' = lines
       /\ cmds' = [cmds EXCEPT ![c] = IF r.ok THEN <<>> ELSE LeftWhenRaised(c, lines)]
       /\ IF r.ok THEN Continue ELSE Except

DoRun ==
    /\ Next1("run")
    /\ LET lines == Append(cmds[C], Line)
       IN  IF Batched(C)
           THEN /\ cmds' = [cmds EXCEPT ![C] = lines]
                /\ batch' = batch /\ Continue /\ UNCHANGED <<world, script>>
           ELSE /\ Send(C, lines, Shell(Place(C), lines, world), Raise)
                /\ batch' = [batch EXCEPT ![C] = FALSE]
    /\ UNCHANGED <<setup, ports, chosen, name, context, elapsed, odd>>

\* flush(): OvsVsctl builds a command for install_method "sandbox" only, and
\* sends an empty one for the others.
SentByFlush(c, w) ==
    IF c[2] = "ssh" THEN Shell(Place(c), cmds[c], w)
    ELSE IF setup.method = "sandbox" THEN Transaction(Place(c), cmds[c], w)
    ELSE [w |-> w, ok |-> TRUE]

DoFlush ==
    /\ Next1("flush")
    /\ IF cmds[C] = <<>> THEN Continue /\ UNCHANGED <<cmds, world, script>>
       ELSE Send(C, cmds[C], SentByFlush(C, world), Raise)
    /\ UNCHANGED <<setup, ports, chosen, name, batch, context, elapsed, odd>>

DoStore ==
    /\ Next1("store") /\ Continue
    /\ context' = Append(context, P)
    /\ UNCHANGED <<setup, ports, chosen, name, batch, cmds, world, elapsed, script, odd>>

-----------------------------------------------------------------------------
\* The loop of _ping_port.
DoStart ==
    /\ Next1("start") /\ Continue
    /\ elapsed' = 0
    /\ UNCHANGED <<setup, ports, chosen, name, batch, cmds, world, context, script, odd>>

NeverOver == FALSE
WaitOver == elapsed > WaitTimeout

\* A ping may fail whatever the port is like: the gateway may not answer yet.
\* Any exception is caught; the time is looked at after each failure.
DoPing ==
    /\ Next1("ping")
    /\ LET lines == Append(cmds[C], Line)
       IN  Send(C, lines, Shell(Place(C), lines, world),
                IF WaitOver THEN Raise ELSE UNCHANGED <<todo, phase>>)
    /\ odd' = ~odd
    /\ UNCHANGED <<setup, ports, chosen, name, batch, context, elapsed>>

Second ==
    /\ Next1("ping") /\ elapsed <= WaitTimeout
    /\ elapsed' = elapsed + 1
    /\ UNCHANGED <<setup, ports, chosen, phase, todo, name, batch, cmds, world, context, script, odd>>

Step == \/ BindPorts \/ EnterPhase \/ DoSetSandbox \/ DoBatchMode \/ DoRun
        \/ DoFlush \/ DoStore \/ DoStart \/ DoPing

Ended == phase \in {"returned", "raised"} /\ UNCHANGED vars

Next == Step \/ Second \/ Ended

Spec == Init /\ [][Next]_vars /\ WF_vars(Step) /\ WF_vars(Second)

-----------------------------------------------------------------------------
\* Every port is given one of the sandboxes of the list, whatever the numbers
\* of ports and sandboxes; a client is in one of its two modes.
TypeOK ==
    /\ setup \in Setups
    /\ ports \in Amounts
    /\ phase # "choose" => chosen \in [Lports -> Sandboxes]
    /\ \A c \in Clients : name[c] \in Sandboxes \cup {Nowhere}
    /\ batch \in [Clients -> BOOLEAN]
    /\ \A fact \in world : fact[1] \in Sandboxes \cup Farms /\ fact[2] \in Facts /\ fact[3] \in Lports
    /\ \A i \in DOMAIN context : context[i] \in Lports
    /\ elapsed \in 0..(WaitTimeout + 1)

\* Where the ports of a sandbox are expected: its own Open vSwitch, or that of
\* the farm or container it is on.
Home(s) == IF setup.method = "sandbox" THEN s ELSE FarmOf[s]

\* Whether the commands for every sandbox get to an Open vSwitch, in all the
\* test beds: flush() has none to send to a bare farm host.
SwitchEverywhere ==
    \A bed \in Setups : \A s \in Sandboxes :
        bed.method = "sandbox" \/ FarmOf[s] \in bed.containers

\* When the ports have been bound each of them is a configured interface of
\* the Open vSwitch of the sandbox it was given, and of no other: sharing the
\* client of the farm never sends a port to another sandbox (_bind_ovs_port).
BoundWhereChosen ==
    phase \in {"vm", "wait"} \/ (phase = "returned" /\ ~(setup.cleanup /\ setup.internal)) =>
        \A p \in Lports :
            /\ <<Home(chosen[p]), "iface", p>> \in world
            /\ \A fact \in world : fact[3] = p => fact[1] = Home(chosen[p])

\* What _bind_ovs_internal_vm and _ping_port leave, at each of their steps and
\* when one of their calls failed: a port that is in the context for a ping or
\* for the cleanup is up in its namespace, beside its Open vSwitch.  Only the
\* cleanup may leave a port in the context that is not.
InPlace(p) == {<<Home(chosen[p]), what, p>> : what \in Facts} \subseteq world
StoredAreConfigured == \A i \in DOMAIN context : InPlace(context[i])

ContextPortsConfigured ==
    [][(phase \in {"vm", "wait"}) => StoredAreConfigured']_vars

\* However the iteration ends, the context has all the ports with a namespace
\* on a host but at most one, the port _bind_ovs_internal_vm was at when a call
\* failed: what no cleanup can find is bounded, whatever the number of ports.
Forgotten(p) ==
    /\ \A i \in DOMAIN context : context[i] # p
    /\ \E fact \in world : fact[2] = "netns" /\ fact[3] = p

AtMostOneForgotten ==
    \A p, q \in Lports : Forgotten(p) /\ Forgotten(q) => p = q

\* Each attempt of the wait sends one ping, however many failed before it
\* (_ping_port).
AttemptSendsOnePing == phase = "wait" => Len(script) <= 1

\* An iteration that returned after its cleanup left nothing of its internal
\* ports on any host (_cleanup_ovs_internal_ports).
NothingLeft ==
    phase = "returned" /\ setup.cleanup =>
        \A i \in DOMAIN context : \A fact \in world : fact[3] # context[i]

\* The iteration ends: a wait for a port that never answers is given up.
WaitEnds == <>(phase \in {"returned", "raised"})
=============================================================================
