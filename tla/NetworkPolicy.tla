--------------------------- MODULE NetworkPolicy ---------------------------
(***************************************************************************)
(* OvnNorthbound.create_routed_lport: each iteration creates a batch of    *)
(* ports and puts each of them in four port groups: the two default deny   *)
(* groups, the group of its network policy and that of its name space.     *)
(* Ports are numbered across iterations, index = batch * iteration + i,    *)
(* and the number alone says which iteration creates a group, with its     *)
(* ACLs and address sets, and which ones only add to it.  Nothing else     *)
(* orders the iterations: the runner may run them at the same time.        *)
(*                                                                         *)
(* All of it is done by ovn-nbctl in direct mode, one transaction for each *)
(* call.  A port is named after its address and is that address here: its  *)
(* switch and its number in it.                                            *)
(*                                                                         *)
(* Operators named after a mistake (CreatesOnlyFirst, NoAcls, ...) stand   *)
(* before the one they could replace; they are used by no definition.      *)
(***************************************************************************)
EXTENDS Naturals, SequencesExt

CONSTANTS
    Iterations,     \* context["iteration"] of each iteration, from 0
    Batch,          \* "batch" of lport_create_args
    NumLswitches,   \* the length of context["ovn-nb"]
    IpOffset,       \* "ip_offset" of lport_create_args
    PolicySize,     \* network_policy_size
    NameSpaceSize   \* name_space_size

ASSUME PolicyAssumption ==
    /\ Iterations \subseteq Nat
    /\ {Batch, NumLswitches, PolicySize, NameSpaceSize} \subseteq Nat \ {0}
    /\ IpOffset \in Nat

VARIABLES
    db,    \* the northbound database
    at,    \* where an iteration is
    left   \* the calls it has left

vars == <<db, at, left>>

-----------------------------------------------------------------------------
\* create_routed_lport: the switch of an iteration, and its first address.
Lswitch(it) == it % NumLswitches
IpStartIndex(it) == (it * Batch) \div NumLswitches + IpOffset

Port(it, i) == <<Lswitch(it), IpStartIndex(it) + i>>
PortsOf(it) == {Port(it, i) : i \in 0..(Batch - 1)}

\* configure_routed_lport: "ipaddr" is the first address, for every port.
IpAddr(it, i) == Port(it, 0)

Index(it, i) == Batch * it + i

\* The port with this index creates the group of its policy or name space.
CreatesOnlyFirst(index, size) == index = 0
Creates(index, size) == index % size = 0

DefDeny == <<"portGroupDefDeny", 0>>
MultiDefDeny == <<"portGroupMultiDefDeny", 0>>
PolicyGroup(index) == <<"networkPolicy", index \div PolicySize>>
NameSpaceGroup(index) == <<"nameSpace", index \div NameSpaceSize>>
GroupsOf(index) == {DefDeny, MultiDefDeny, PolicyGroup(index), NameSpaceGroup(index)}

\* The address sets of a group, and the number of its ACLs.
AddressSets(group) ==
    CASE group[1] = "networkPolicy" -> <<<<"ingress", group[2]>>, <<"egress", group[2]>>>>
      [] group[1] = "nameSpace" -> <<<<"nameSpace", group[2]>>>>
      [] OTHER -> <<>>

NumAcls(group) == IF group[1] \in {"portGroupDefDeny", "networkPolicy"} THEN 4 ELSE 2

-----------------------------------------------------------------------------
\* The calls, one transaction each; "other" is a command that does not touch
\* the database (the command of ovn_run_command, the binding of the ports).
Call(op, on, x) == [op |-> op, on |-> on, x |-> x]
Other == Call("other", DefDeny, {})

OneAclTooMany(group) == [k \in 1..(NumAcls(group) + 1) |-> Call("acl-add", group, k)]
Acls(group) == [k \in 1..NumAcls(group) |-> Call("acl-add", group, k)]
OnSets(op, group, ip) ==
    [k \in DOMAIN AddressSets(group) |-> Call(op, AddressSets(group)[k], ip)]
CreateSets(group, ip) == OnSets("as-create", group, ip)
AddToSets(group, ip) == OnSets("as-add", group, ip)

\* _port_group_add_port: the port's uuid, then its addition.
AddPort(group, port) == <<Call("get", group, port), Call("pg-add-port", group, port)>>

DenyGroupAlreadyThere(group, index, port) ==
    IF index = 0 THEN <<Call("pg-add", group, port)>> \o Acls(group)
    ELSE <<Call("get", group, port)>>

DenyGroup(group, index, port) ==
    IF index = 0 THEN <<Call("pg-add", group, port)>> \o Acls(group)
    ELSE AddPort(group, port)

NetworkPolicyCalls(index, port, ip) ==
    LET group == PolicyGroup(index)
    IN  DenyGroup(DefDeny, index, port) \o DenyGroup(MultiDefDeny, index, port)
        \o IF Creates(index, PolicySize)
           THEN <<Call("pg-add", group, port)>> \o CreateSets(group, ip) \o Acls(group)
           ELSE AddPort(group, port) \o AddToSets(group, ip)

NoAcls(index, port, ip) ==
    LET group == NameSpaceGroup(index)
    IN  IF Creates(index, NameSpaceSize)
        THEN CreateSets(group, ip) \o <<Call("pg-add", group, port)>>
        ELSE AddToSets(group, ip) \o AddPort(group, port)

NameSpaceCalls(index, port, ip) ==
    LET group == NameSpaceGroup(index)
    IN  IF Creates(index, NameSpaceSize)
        THEN CreateSets(group, ip) \o <<Call("pg-add", group, port)>> \o Acls(group)
        ELSE AddToSets(group, ip) \o AddPort(group, port)

\* With create_acls.
CreateRoutedLport(it) ==
    <<Other, Call("lsp-add", DefDeny, PortsOf(it))>>
    \o FlattenSeq([k \in 1..Batch |->
           NetworkPolicyCalls(Index(it, k - 1), Port(it, k - 1), IpAddr(it, k - 1))
           \o NameSpaceCalls(Index(it, k - 1), Port(it, k - 1), IpAddr(it, k - 1))])
    \o <<Other>>

-----------------------------------------------------------------------------
\* The database: names are unique, and what a command is about must be there.
Accepts(c) ==
    CASE c.op = "lsp-add"     -> c.x \cap db.ports = {}
      [] c.op = "get"         -> c.x \in db.ports
      [] c.op = "pg-add"      -> c.on \notin db.groups /\ c.x \in db.ports
      [] c.op = "pg-add-port" -> c.on \in db.groups /\ c.x \in db.ports
      [] c.op = "acl-add"     -> c.on \in db.groups /\ <<c.on, c.x>> \notin db.acls
      [] c.op = "as-create"   -> c.on \notin db.sets
      [] c.op = "as-add"      -> c.on \in db.sets
      [] c.op = "other"       -> TRUE

Effect(c) ==
    CASE c.op = "lsp-add"     -> [db EXCEPT !.ports = @ \cup c.x]
      [] c.op = "pg-add"      -> [db EXCEPT !.groups = @ \cup {c.on},
                                            !.members = @ \cup {<<c.on, c.x>>}]
      [] c.op = "pg-add-port" -> [db EXCEPT !.members = @ \cup {<<c.on, c.x>>}]
      [] c.op = "acl-add"     -> [db EXCEPT !.acls = @ \cup {<<c.on, c.x>>}]
      [] c.op = "as-create"   -> [db EXCEPT !.sets = @ \cup {c.on},
                                            !.addresses = @ \cup {<<c.on, c.x>>}]
      [] c.op = "as-add"      -> [db EXCEPT !.addresses = @ \cup {<<c.on, c.x>>}]
      [] OTHER                -> db

Init ==
    /\ db = [ports |-> {}, groups |-> {}, members |-> {}, acls |-> {},
             sets |-> {}, addresses |-> {}]
    /\ at = [it \in Iterations |-> "running"]
    /\ left = [it \in Iterations |-> CreateRoutedLport(it)]

Ready(it) == at[it] = "running" /\ left[it] # <<>>

End(it, how) == at' = [at EXCEPT ![it] = how] /\ left' = [left EXCEPT ![it] = <<>>]

Executed(it) ==
    /\ Ready(it) /\ Accepts(Head(left[it]))
    /\ db' = Effect(Head(left[it]))
    /\ left' = [left EXCEPT ![it] = Tail(@)]
    /\ UNCHANGED at

\* ovn-nbctl reports an error: ssh.run() raises, which ends the iteration.
Refused(it) ==
    /\ Ready(it) /\ ~Accepts(Head(left[it]))
    /\ End(it, "refused")
    /\ UNCHANGED db

\* The connection breaks before or after the command is executed.
Lost(it) ==
    /\ Ready(it)
    /\ db' \in {db} \cup IF Accepts(Head(left[it])) THEN {Effect(Head(left[it]))} ELSE {}
    /\ End(it, "lost")

Return(it) ==
    /\ at[it] = "running" /\ left[it] = <<>>
    /\ End(it, "returned")
    /\ UNCHANGED db

Next == \E it \in Iterations : Executed(it) \/ Refused(it) \/ Lost(it) \/ Return(it)

Spec == Init /\ [][Next]_vars

-----------------------------------------------------------------------------
\* The iterations that create a group port i of an iteration belongs to.
CreatorOf(it, i, size) == ((Index(it, i) \div size) * size) \div Batch

Creators(it) ==
    {0} \cup {CreatorOf(it, i, size) : i \in 0..(Batch - 1), size \in {PolicySize, NameSpaceSize}}

\* A group has members, ACLs or an address set only when it exists, and only
\* ports that exist: what the iterations write always hangs together.
TypeOK ==
    /\ \A m \in db.members : m[1] \in db.groups /\ m[2] \in db.ports
    /\ \A acl \in db.acls : acl[1] \in db.groups /\ acl[2] \in 1..NumAcls(acl[1])
    /\ \A a \in db.addresses : a[1] \in db.sets
    /\ at \in [Iterations -> {"running", "returned", "refused", "lost"}]

\* When an iteration has returned each of its ports is in its four groups,
\* whichever iteration created them and whatever became of it
\* (create_or_update_network_policy, create_or_update_name_space).
MembersOfAllGroups ==
    \A it \in Iterations : at[it] = "returned" =>
        \A i \in 0..(Batch - 1) : \A group \in GroupsOf(Index(it, i)) :
            <<group, Port(it, i)>> \in db.members

\* When the creators of its groups have returned too, those groups have all
\* their ACLs: no port is left in a group that filters nothing
\* (create_port_group_acls and the _create_acl calls).
EnforcedAfterCreators ==
    \A it \in Iterations :
        (\A j \in {it} \cup (Creators(it) \cap Iterations) : at[j] = "returned") =>
            \A i \in 0..(Batch - 1) : \A group \in GroupsOf(Index(it, i)) :
                \A k \in 1..NumAcls(group) : <<group, k>> \in db.acls

\* A call is refused only to an iteration that is ahead of the creator of one
\* of its groups, or comes after that creator failed.  So with the serial
\* runner, which starts an iteration when the one before it has ended, nothing
\* is refused as long as no connection breaks (index, Creates).
RefusedOnlyWithoutCreator ==
    [][\A it \in Iterations : Refused(it) =>
          \E j \in (Creators(it) \cap Iterations) \ {it} : at[j] # "returned"]_vars

\* The address sets of a port's policy have the address of the port
\* (create_or_update_network_policy_address_sets, ovn_nb.py:40).
AddressesOfMembers ==
    \A it \in Iterations : at[it] = "returned" =>
        \A i \in 0..(Batch - 1) : \A s \in Range(AddressSets(PolicyGroup(Index(it, i)))) :
            <<s, Port(it, i)>> \in db.addresses
=============================================================================
