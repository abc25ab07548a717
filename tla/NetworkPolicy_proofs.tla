------------------------ MODULE NetworkPolicy_proofs ------------------------
(***************************************************************************)
(* The arithmetic of create_routed_lport and what its iterations leave in  *)
(* the database, for any number of switches and any size of a batch, a     *)
(* policy or a name space; and the arithmetic of AddressPlan.              *)
(***************************************************************************)
EXTENDS NetworkPolicy, AddressPlan, SequenceLemmas

\* Quotient and remainder.
LEMMA DivMod ==
  ASSUME NEW n \in Nat, NEW d \in Nat \ {0}
  PROVE  /\ n \div d \in Nat /\ n % d \in 0..(d - 1)
         /\ n = (n \div d) * d + (n % d)
  BY SMT

\* Adding k times the divisor adds k to the quotient.
LEMMA DivShift ==
  ASSUME NEW n \in Nat, NEW k \in Nat, NEW d \in Nat \ {0}
  PROVE  (n + k * d) \div d = (n \div d) + k
  BY SMT

\* A positive multiple is at least the number.
LEMMA ProductAtLeast ==
  ASSUME NEW k \in Nat \ {0}, NEW b \in Nat
  PROVE  k * b \in Nat /\ k * b >= b
  BY SMT

\* Iterations with the same switch are a number of rounds apart.
LEMMA SameLswitch ==
  ASSUME NEW i \in Nat, NEW j \in Nat, i < j, Lswitch(i) = Lswitch(j)
  PROVE  \E k \in Nat \ {0} : j = i + k * NumLswitches
<1> DEFINE d == NumLswitches
<1>0. d \in Nat \ {0} /\ i % d = j % d
  BY PolicyAssumption DEF PolicyAssumption, Lswitch
<1> HIDE DEF d
<1> DEFINE p == i \div d
<1> DEFINE q == j \div d
<1>1. p \in Nat /\ i % d \in Nat /\ i = p * d + (i % d)
  BY <1>0, SMT
<1>2. q \in Nat /\ j = q * d + (j % d)
  BY <1>0, SMT
<1> HIDE DEF p, q
<1>3. q > p
  <2>1. q <= p => q * d <= p * d
    BY <1>0, <1>1, <1>2, SMT
  <2> QED
    BY <2>1, <1>0, <1>1, <1>2, SMT
<1>4. q - p \in Nat \ {0} /\ j = i + (q - p) * d
  BY <1>0, <1>1, <1>2, <1>3, SMT
<1> QED
  BY <1>4 DEF d

\* Two iterations that are given the same switch start at least a batch apart
\* in it: going round the switches k times moves the start by k batches.
LEMMA StartsApart ==
  ASSUME NEW i \in Nat, NEW j \in Nat, i < j, Lswitch(i) = Lswitch(j)
  PROVE  /\ IpStartIndex(i) \in Nat /\ IpStartIndex(j) \in Nat
         /\ IpStartIndex(j) >= IpStartIndex(i) + Batch
<1>1. NumLswitches \in Nat \ {0} /\ Batch \in Nat \ {0} /\ IpOffset \in Nat
  BY PolicyAssumption DEF PolicyAssumption
<1>2. PICK k \in Nat \ {0} : j = i + k * NumLswitches
  BY SameLswitch
<1> DEFINE n == i * Batch
<1> DEFINE m == k * Batch
<1>3. n \in Nat /\ m \in Nat /\ m >= Batch
  BY <1>1, ProductAtLeast, SMT
<1>4. j * Batch = n + m * NumLswitches
  BY <1>1, <1>2, SMT
<1> HIDE DEF n, m
<1>5. (n + m * NumLswitches) \div NumLswitches = (n \div NumLswitches) + m
  BY <1>1, <1>3, DivShift
<1>6. n \div NumLswitches \in Nat
  BY <1>1, <1>3, SMT
<1>7. /\ IpStartIndex(i) = (n \div NumLswitches) + IpOffset
      /\ IpStartIndex(j) = ((n \div NumLswitches) + m) + IpOffset
  BY <1>4, <1>5 DEF IpStartIndex, n
<1> QED
  BY <1>1, <1>3, <1>6, <1>7, SMT

\* No two iterations give a port the same address, so none of them is refused
\* a name that another one took (ovn_nb.py:241, create_routed_lport).
THEOREM AddressesDistinct ==
  ASSUME NEW i \in Iterations, NEW j \in Iterations, i # j
  PROVE  PortsOf(i) \cap PortsOf(j) = {}
<1>1. ASSUME NEW x \in Nat, NEW y \in Nat, x < y
      PROVE  PortsOf(x) \cap PortsOf(y) = {}
  <2>1. CASE Lswitch(x) # Lswitch(y)
    BY <2>1 DEF PortsOf, Port
  <2>2. CASE Lswitch(x) = Lswitch(y)
    <3>1. /\ IpStartIndex(x) \in Nat /\ IpStartIndex(y) \in Nat
          /\ IpStartIndex(y) >= IpStartIndex(x) + Batch
      BY <1>1, <2>2, StartsApart
    <3>2. Batch \in Nat
      BY PolicyAssumption DEF PolicyAssumption
    <3>3. ASSUME NEW a \in 0..(Batch - 1), NEW b \in 0..(Batch - 1)
          PROVE  IpStartIndex(x) + a # IpStartIndex(y) + b
      BY <3>1, <3>2, SMT
    <3> QED
      BY <3>3 DEF PortsOf, Port
  <2> QED
    BY <2>1, <2>2
<1>2. i \in Nat /\ j \in Nat /\ (i < j \/ j < i)
  BY PolicyAssumption, SMT DEF PolicyAssumption
<1> QED
  BY <1>1, <1>2

\* The ports of two iterations, and two ports of one, have different indexes.
THEOREM IndexesDistinct ==
  ASSUME NEW i \in Iterations, NEW j \in Iterations,
         NEW a \in 0..(Batch - 1), NEW b \in 0..(Batch - 1), Index(i, a) = Index(j, b)
  PROVE  i = j /\ a = b
<1>1. i \in Nat /\ j \in Nat /\ Batch \in Nat \ {0}
  BY PolicyAssumption DEF PolicyAssumption
<1>2. Batch * i + a = Batch * j + b
  BY DEF Index
<1>3. ASSUME NEW x \in Nat, NEW y \in Nat, x < y
      PROVE  Batch * x + Batch <= Batch * y
  <2>1. y - x \in Nat \ {0} /\ Batch * y = Batch * x + (y - x) * Batch
    BY <1>1, <1>3, SMT
  <2>2. (y - x) * Batch >= Batch
    BY <2>1, <1>1, ProductAtLeast
  <2> QED
    BY <2>1, <2>2, <1>1, SMT
<1>4. i = j
  <2>1. ~(i < j)
    BY <1>1, <1>2, <1>3, SMT
  <2>2. ~(j < i)
    BY <1>1, <1>2, <1>3, SMT
  <2> QED
    BY <2>1, <2>2, <1>1, SMT
<1> QED
  BY <1>1, <1>2, <1>4, SMT

\* Every policy and every name space has exactly one port whose iteration
\* creates it, the first of its ports: no group is created twice, and none is
\* left for everybody to add to (ovn_nb.py:211-221).
THEOREM OneCreator ==
  ASSUME NEW index \in Nat, NEW size \in Nat \ {0}
  PROVE  \A c \in Nat : c \div size = index \div size =>
            (Creates(c, size) <=> c = (index \div size) * size)
<1>1. SUFFICES ASSUME NEW c \in Nat, c \div size = index \div size
               PROVE  Creates(c, size) <=> c = (index \div size) * size
  OBVIOUS
<1>2. /\ c \div size \in Nat /\ c % size \in 0..(size - 1)
      /\ c = (c \div size) * size + (c % size)
  BY DivMod
<1> QED
  BY <1>1, <1>2, SMT DEF Creates

-----------------------------------------------------------------------------
(* The calls of an iteration *)

Ops == {"lsp-add", "get", "pg-add", "pg-add-port", "acl-add", "as-create", "as-add", "other"}
Labels == {"portGroupDefDeny", "portGroupMultiDefDeny", "networkPolicy", "nameSpace",
           "ingress", "egress"}
Ports == Nat \X Nat
Calls ==
    {c \in [op : Ops, on : Labels \X Nat, x : Ports \cup Nat \cup SUBSET Ports] :
        c.op = "acl-add" => c.x \in 1..NumAcls(c.on)}

LEMMA PortTyped ==
  ASSUME NEW it \in Iterations, NEW i \in Nat
  PROVE  Port(it, i) \in Ports /\ Index(it, i) \in Nat
<1>1. /\ it \in Nat /\ Batch \in Nat \ {0} /\ NumLswitches \in Nat \ {0} /\ IpOffset \in Nat
  BY PolicyAssumption DEF PolicyAssumption
<1>2. PICK n \in Nat : n = it * Batch
  BY <1>1
<1>3. it % NumLswitches \in Nat /\ n \div NumLswitches \in Nat
  BY <1>1, DivMod
<1> QED
  BY <1>1, <1>2, <1>3 DEF Port, Ports, Index, Lswitch, IpStartIndex

\* A group is given by the index of its first port.
LEMMA GroupTyped ==
  ASSUME NEW index \in Nat
  PROVE  /\ DefDeny \in Labels \X Nat /\ MultiDefDeny \in Labels \X Nat
         /\ PolicyGroup(index) \in Labels \X Nat /\ NameSpaceGroup(index) \in Labels \X Nat
<1>1. index \div PolicySize \in Nat /\ index \div NameSpaceSize \in Nat
  BY PolicyAssumption, DivMod DEF PolicyAssumption
<1> QED
  BY <1>1 DEF DefDeny, MultiDefDeny, PolicyGroup, NameSpaceGroup, Labels

LEMMA InOne ==
  ASSUME NEW e, NEW c
  PROVE  In(c, <<e>>) <=> c = e
BY DEF In

LEMMA InTwo ==
  ASSUME NEW d, NEW e, NEW c
  PROVE  In(c, <<d, e>>) <=> c = d \/ c = e
BY DEF In

\* s puts the port in the group: it creates the group with its port and all
\* its ACLs, or adds the port to it.
Serves(s, group, port, creates) ==
    /\ s \in Seq(Calls)
    /\ creates => /\ In(Call("pg-add", group, port), s)
                  /\ \A k \in 1..NumAcls(group) : In(Call("acl-add", group, k), s)
    /\ ~creates => In(Call("pg-add-port", group, port), s)
    /\ \A c : In(c, s) /\ c.op = "pg-add" => creates /\ c.on = group

LEMMA CallTyped ==
  ASSUME NEW op \in Ops \ {"acl-add"}, NEW on \in Labels \X Nat,
         NEW x \in Ports \cup Nat \cup SUBSET Ports
  PROVE  Call(op, on, x) \in Calls /\ Call(op, on, x).op = op /\ Call(op, on, x).on = on
BY DEF Call, Calls

LEMMA AclsTyped ==
  ASSUME NEW group \in Labels \X Nat
  PROVE  /\ Acls(group) \in Seq(Calls)
         /\ \A k \in 1..NumAcls(group) : In(Call("acl-add", group, k), Acls(group))
         /\ \A c : In(c, Acls(group)) => c.op = "acl-add"
<1>1. NumAcls(group) \in Nat
  BY DEF NumAcls
<1>2. Len(Acls(group)) = NumAcls(group)
  BY <1>1 DEF Acls
<1>3. \A k \in 1..NumAcls(group) : Call("acl-add", group, k) \in Calls
  BY <1>1 DEF Call, Calls, Ops
<1> QED
  BY <1>1, <1>2, <1>3 DEF Acls, In, Call

LEMMA SetsTyped ==
  ASSUME NEW group \in Labels \X Nat, NEW op \in {"as-create", "as-add"}, NEW ip \in Ports
  PROVE  /\ OnSets(op, group, ip) \in Seq(Calls)
         /\ \A c : In(c, OnSets(op, group, ip)) => c.op = op
<1>1. AddressSets(group) \in Seq(Labels \X Nat)
  <2>1. PICK n \in Nat : n = group[2]
    OBVIOUS
  <2>2. /\ <<"ingress", n>> \in Labels \X Nat /\ <<"egress", n>> \in Labels \X Nat
        /\ <<"nameSpace", n>> \in Labels \X Nat
    BY DEF Labels
  <2>3. \A a, b \in Labels \X Nat : <<a, b>> \in Seq(Labels \X Nat) /\ <<a>> \in Seq(Labels \X Nat)
    OBVIOUS
  <2>4. <<>> \in Seq(Labels \X Nat)
    OBVIOUS
  <2> QED
    BY <2>1, <2>2, <2>3, <2>4 DEF AddressSets
<1>2. \A k \in DOMAIN AddressSets(group) : Call(op, AddressSets(group)[k], ip) \in Calls
  BY <1>1, CallTyped DEF Ops
<1>3. PICK n \in Nat : DOMAIN AddressSets(group) = 1..n
  BY <1>1
<1>4. OnSets(op, group, ip) = [k \in 1..n |-> Call(op, AddressSets(group)[k], ip)]
  BY <1>3 DEF OnSets
<1>5. OnSets(op, group, ip) \in Seq(Calls) /\ Len(OnSets(op, group, ip)) = n
  BY <1>2, <1>3, <1>4
<1> QED
  BY <1>4, <1>5 DEF In, Call

\* In which order the calls that serve a port come is of no account here.
LEMMA InThree ==
  ASSUME NEW S, NEW r \in Seq(S), NEW s \in Seq(S), NEW t \in Seq(S), NEW e
  PROVE  /\ (r \o s) \o t \in Seq(S)
         /\ In(e, (r \o s) \o t) <=> In(e, r) \/ In(e, s) \/ In(e, t)
<1>1. PICK q \in Seq(S) : q = r \o s
  BY CatTyped DEF Cat
<1>2. In(e, q \o t) <=> In(e, q) \/ In(e, t)
  BY InConcat
<1>3. In(e, r \o s) <=> In(e, r) \/ In(e, s)
  BY InConcat
<1>4. q \o t \in Seq(S)
  BY CatTyped DEF Cat
<1> QED
  BY <1>1, <1>2, <1>3, <1>4

LEMMA ServesNew ==
  ASSUME NEW group \in Labels \X Nat, NEW port \in Ports, NEW w \in Seq(Calls), NEW rest,
         \A c : In(c, rest) => c.op # "pg-add",
         \A c : In(c, w) <=> \/ c = Call("pg-add", group, port)
                             \/ In(c, Acls(group)) \/ In(c, rest)
  PROVE  Serves(w, group, port, TRUE)
<1>1. \A c : In(c, w) /\ c.op = "pg-add" => c.on = group
  <2> SUFFICES ASSUME NEW c, In(c, w), c.op = "pg-add" PROVE c.on = group
    OBVIOUS
  <2>1. ~In(c, rest) /\ ~In(c, Acls(group))
    BY AclsTyped
  <2>2. c = Call("pg-add", group, port)
    BY <2>1
  <2> QED
    BY <2>2 DEF Call
<1>2. In(Call("pg-add", group, port), w)
  OBVIOUS
<1>3. \A k \in 1..NumAcls(group) : In(Call("acl-add", group, k), w)
  BY AclsTyped
<1> QED
  BY <1>1, <1>2, <1>3 DEF Serves

LEMMA ServesAdded ==
  ASSUME NEW group \in Labels \X Nat, NEW port \in Ports, NEW w \in Seq(Calls), NEW rest,
         \A c : In(c, rest) => c.op # "pg-add",
         \A c : In(c, w) <=> In(c, AddPort(group, port)) \/ In(c, rest)
  PROVE  Serves(w, group, port, FALSE)
<1>1. \A c : In(c, AddPort(group, port)) <=>
                c = Call("get", group, port) \/ c = Call("pg-add-port", group, port)
  BY InTwo DEF AddPort
<1>2. \A c : In(c, AddPort(group, port)) => c.op # "pg-add"
  BY <1>1 DEF Call
<1> QED
  BY <1>1, <1>2 DEF Serves

LEMMA AddPortTyped ==
  ASSUME NEW group \in Labels \X Nat, NEW port \in Ports
  PROVE  AddPort(group, port) \in Seq(Calls) /\ <<Call("pg-add", group, port)>> \in Seq(Calls)
<1>1. /\ Call("get", group, port) \in Calls /\ Call("pg-add-port", group, port) \in Calls
      /\ Call("pg-add", group, port) \in Calls
  BY CallTyped DEF Ops
<1> QED
  BY <1>1 DEF AddPort

LEMMA DenyServes ==
  ASSUME NEW group \in Labels \X Nat, NEW port \in Ports, NEW index \in Nat
  PROVE  Serves(DenyGroup(group, index, port), group, port, index = 0)
<1>1. PICK first \in Seq(Calls) : first = <<Call("pg-add", group, port)>>
  BY AddPortTyped
<1>2. PICK acls \in Seq(Calls) : acls = Acls(group)
  BY AclsTyped
<1>3. PICK add \in Seq(Calls) : add = AddPort(group, port)
  BY AddPortTyped
<1>4. \A c : ~In(c, <<>>)
  BY DEF In
<1>5. CASE index = 0
  <2>1. PICK w \in Seq(Calls) : w = first \o acls
    BY CatTyped DEF Cat
  <2>2. DenyGroup(group, index, port) = w
    BY <1>1, <1>2, <1>5, <2>1 DEF DenyGroup
  <2>3. \A c : In(c, first \o acls) <=> In(c, first) \/ In(c, acls)
    BY InConcat
  <2>4. \A c : In(c, w) <=> \/ c = Call("pg-add", group, port)
                            \/ In(c, Acls(group)) \/ In(c, <<>>)
    BY <1>1, <1>2, <1>4, <2>1, <2>3, InOne
  <2>5. Serves(w, group, port, TRUE)
    BY <1>4, <2>4, ServesNew
  <2> QED
    BY <1>5, <2>2, <2>5
<1>6. CASE index # 0
  <2>1. DenyGroup(group, index, port) = add
    BY <1>3, <1>6 DEF DenyGroup
  <2>2. Serves(add, group, port, FALSE)
    BY <1>3, <1>4, ServesAdded
  <2> QED
    BY <1>6, <2>1, <2>2
<1> QED
  BY <1>5, <1>6

\* The calls for the group of a policy and for that of a name space.
PolicyCalls(index, port, ip) ==
    LET group == PolicyGroup(index)
    IN  IF Creates(index, PolicySize)
        THEN <<Call("pg-add", group, port)>> \o CreateSets(group, ip) \o Acls(group)
        ELSE AddPort(group, port) \o AddToSets(group, ip)

LEMMA PolicyServes ==
  ASSUME NEW index \in Nat, NEW port \in Ports, NEW ip \in Ports
  PROVE  Serves(PolicyCalls(index, port, ip), PolicyGroup(index), port, Creates(index, PolicySize))
<1>1. PICK group \in Labels \X Nat : group = PolicyGroup(index)
  BY GroupTyped
<1>2. PICK first \in Seq(Calls) : first = <<Call("pg-add", group, port)>>
  BY AddPortTyped
<1>3. PICK acls \in Seq(Calls) : acls = Acls(group)
  BY AclsTyped
<1>4. PICK add \in Seq(Calls) : add = AddPort(group, port)
  BY AddPortTyped
<1>5. PICK sets \in Seq(Calls) : sets = CreateSets(group, ip) /\ \A c : In(c, sets) => c.op # "pg-add"
  BY SetsTyped DEF CreateSets
<1>6. PICK more \in Seq(Calls) : more = AddToSets(group, ip) /\ \A c : In(c, more) => c.op # "pg-add"
  BY SetsTyped DEF AddToSets
<1>7. CASE Creates(index, PolicySize)
  <2>1. PICK w \in Seq(Calls) : w = (first \o sets) \o acls
    BY InThree
  <2>2. PolicyCalls(index, port, ip) = w
    BY <1>1, <1>2, <1>3, <1>5, <1>7, <2>1 DEF PolicyCalls
  <2>3. \A c : In(c, (first \o sets) \o acls) <=> In(c, first) \/ In(c, sets) \/ In(c, acls)
    BY InThree
  <2>4. \A c : In(c, w) <=> \/ c = Call("pg-add", group, port)
                            \/ In(c, Acls(group)) \/ In(c, sets)
    BY <1>2, <1>3, <2>1, <2>3, InOne
  <2>5. Serves(w, group, port, TRUE)
    BY <1>5, <2>4, ServesNew
  <2> QED
    BY <1>1, <1>7, <2>2, <2>5
<1>8. CASE ~Creates(index, PolicySize)
  <2>1. PICK w \in Seq(Calls) : w = add \o more
    BY CatTyped DEF Cat
  <2>2. PolicyCalls(index, port, ip) = w
    BY <1>1, <1>4, <1>6, <1>8, <2>1 DEF PolicyCalls
  <2>3. \A c : In(c, add \o more) <=> In(c, add) \/ In(c, more)
    BY InConcat
  <2>4. \A c : In(c, w) <=> In(c, AddPort(group, port)) \/ In(c, more)
    BY <1>4, <2>1, <2>3
  <2>5. Serves(w, group, port, FALSE)
    BY <1>6, <2>4, ServesAdded
  <2>6. Creates(index, PolicySize) = FALSE
    BY <1>8 DEF Creates
  <2> QED
    BY <1>1, <2>2, <2>5, <2>6
<1> QED
  BY <1>7, <1>8

LEMMA NameSpaceServes ==
  ASSUME NEW index \in Nat, NEW port \in Ports, NEW ip \in Ports
  PROVE  Serves(NameSpaceCalls(index, port, ip), NameSpaceGroup(index), port,
                Creates(index, NameSpaceSize))
<1>1. PICK group \in Labels \X Nat : group = NameSpaceGroup(index)
  BY GroupTyped
<1>2. PICK first \in Seq(Calls) : first = <<Call("pg-add", group, port)>>
  BY AddPortTyped
<1>3. PICK acls \in Seq(Calls) : acls = Acls(group)
  BY AclsTyped
<1>4. PICK add \in Seq(Calls) : add = AddPort(group, port)
  BY AddPortTyped
<1>5. PICK sets \in Seq(Calls) : sets = CreateSets(group, ip) /\ \A c : In(c, sets) => c.op # "pg-add"
  BY SetsTyped DEF CreateSets
<1>6. PICK more \in Seq(Calls) : more = AddToSets(group, ip) /\ \A c : In(c, more) => c.op # "pg-add"
  BY SetsTyped DEF AddToSets
<1>7. CASE Creates(index, NameSpaceSize)
  <2>1. PICK w \in Seq(Calls) : w = (sets \o first) \o acls
    BY InThree
  <2>2. NameSpaceCalls(index, port, ip) = w
    BY <1>1, <1>2, <1>3, <1>5, <1>7, <2>1 DEF NameSpaceCalls
  <2>3. \A c : In(c, (sets \o first) \o acls) <=> In(c, sets) \/ In(c, first) \/ In(c, acls)
    BY InThree
  <2>4. \A c : In(c, w) <=> \/ c = Call("pg-add", group, port)
                            \/ In(c, Acls(group)) \/ In(c, sets)
    BY <1>2, <1>3, <2>1, <2>3, InOne
  <2>5. Serves(w, group, port, TRUE)
    BY <1>5, <2>4, ServesNew
  <2> QED
    BY <1>1, <1>7, <2>2, <2>5
<1>8. CASE ~Creates(index, NameSpaceSize)
  <2>1. PICK w \in Seq(Calls) : w = more \o add
    BY CatTyped DEF Cat
  <2>2. NameSpaceCalls(index, port, ip) = w
    BY <1>1, <1>4, <1>6, <1>8, <2>1 DEF NameSpaceCalls
  <2>3. \A c : In(c, more \o add) <=> In(c, more) \/ In(c, add)
    BY InConcat
  <2>4. \A c : In(c, w) <=> In(c, AddPort(group, port)) \/ In(c, more)
    BY <1>4, <2>1, <2>3
  <2>5. Serves(w, group, port, FALSE)
    BY <1>6, <2>4, ServesAdded
  <2>6. Creates(index, NameSpaceSize) = FALSE
    BY <1>8 DEF Creates
  <2> QED
    BY <1>1, <2>2, <2>5, <2>6
<1> QED
  BY <1>7, <1>8

PortCalls(index, port, ip) ==
    NetworkPolicyCalls(index, port, ip) \o NameSpaceCalls(index, port, ip)

CreatesGroup(index, group) ==
    \/ group \in {DefDeny, MultiDefDeny} /\ index = 0
    \/ group = PolicyGroup(index) /\ Creates(index, PolicySize)
    \/ group = NameSpaceGroup(index) /\ Creates(index, NameSpaceSize)

Put(calls, group, port, creates) ==
    /\ creates => /\ In(Call("pg-add", group, port), calls)
                  /\ \A k \in 1..NumAcls(group) : In(Call("acl-add", group, k), calls)
    /\ ~creates => In(Call("pg-add-port", group, port), calls)

\* A port is put in its four groups, and only those are created that the
\* index says.
LEMMA PortCallsServe ==
  ASSUME NEW index \in Nat, NEW port \in Ports, NEW ip \in Ports
  PROVE  LET calls == PortCalls(index, port, ip)
         IN  /\ calls \in Seq(Calls)
             /\ \A group \in GroupsOf(index) : Put(calls, group, port, CreatesGroup(index, group))
             /\ \A c : In(c, calls) /\ c.op = "pg-add" =>
                   c.on \in GroupsOf(index) /\ CreatesGroup(index, c.on)
<1>1. PICK deny \in Seq(Calls) : /\ deny = DenyGroup(DefDeny, index, port)
                                 /\ Serves(deny, DefDeny, port, index = 0)
  <2>1. DefDeny \in Labels \X Nat
    BY GroupTyped
  <2>2. Serves(DenyGroup(DefDeny, index, port), DefDeny, port, index = 0)
    BY <2>1, DenyServes
  <2> QED
    BY <2>2 DEF Serves
<1>2. PICK multi \in Seq(Calls) : /\ multi = DenyGroup(MultiDefDeny, index, port)
                                  /\ Serves(multi, MultiDefDeny, port, index = 0)
  <2>1. MultiDefDeny \in Labels \X Nat
    BY GroupTyped
  <2>2. Serves(DenyGroup(MultiDefDeny, index, port), MultiDefDeny, port, index = 0)
    BY <2>1, DenyServes
  <2> QED
    BY <2>2 DEF Serves
<1>3. PICK policy \in Seq(Calls) :
         /\ policy = PolicyCalls(index, port, ip)
         /\ Serves(policy, PolicyGroup(index), port, Creates(index, PolicySize))
  BY PolicyServes DEF Serves
<1>4. PICK space \in Seq(Calls) :
         /\ space = NameSpaceCalls(index, port, ip)
         /\ Serves(space, NameSpaceGroup(index), port, Creates(index, NameSpaceSize))
  BY NameSpaceServes DEF Serves
<1>5. PICK three \in Seq(Calls) : three = (deny \o multi) \o policy
  BY InThree
<1>6. NetworkPolicyCalls(index, port, ip) = three
  BY <1>1, <1>2, <1>3, <1>5 DEF NetworkPolicyCalls, PolicyCalls
<1>7. PICK calls \in Seq(Calls) : calls = three \o space
  BY CatTyped DEF Cat
<1>8. PortCalls(index, port, ip) = calls
  BY <1>4, <1>6, <1>7 DEF PortCalls
<1>9. \A c : In(c, calls) <=> In(c, deny) \/ In(c, multi) \/ In(c, policy) \/ In(c, space)
  <2>1. \A c : In(c, three \o space) <=> In(c, three) \/ In(c, space)
    BY InConcat
  <2>2. \A c : In(c, (deny \o multi) \o policy) <=> In(c, deny) \/ In(c, multi) \/ In(c, policy)
    BY InThree
  <2> QED
    BY <1>5, <1>7, <2>1, <2>2
<1>11. /\ DefDeny # MultiDefDeny /\ DefDeny # PolicyGroup(index)
       /\ DefDeny # NameSpaceGroup(index) /\ MultiDefDeny # PolicyGroup(index)
       /\ MultiDefDeny # NameSpaceGroup(index) /\ PolicyGroup(index) # NameSpaceGroup(index)
  BY DEF DefDeny, MultiDefDeny, PolicyGroup, NameSpaceGroup
<1>12. /\ CreatesGroup(index, DefDeny) <=> index = 0
       /\ CreatesGroup(index, MultiDefDeny) <=> index = 0
       /\ CreatesGroup(index, PolicyGroup(index)) <=> Creates(index, PolicySize)
       /\ CreatesGroup(index, NameSpaceGroup(index)) <=> Creates(index, NameSpaceSize)
  BY <1>11 DEF CreatesGroup
<1> HIDE DEF CreatesGroup
<1>13. /\ Put(calls, DefDeny, port, index = 0) /\ Put(calls, MultiDefDeny, port, index = 0)
       /\ Put(calls, PolicyGroup(index), port, Creates(index, PolicySize))
       /\ Put(calls, NameSpaceGroup(index), port, Creates(index, NameSpaceSize))
  <2>1. Put(calls, DefDeny, port, index = 0)
    BY <1>1, <1>9 DEF Put, Serves
  <2>2. Put(calls, MultiDefDeny, port, index = 0)
    BY <1>2, <1>9 DEF Put, Serves
  <2>3. Put(calls, PolicyGroup(index), port, Creates(index, PolicySize))
    BY <1>3, <1>9 DEF Put, Serves
  <2>4. Put(calls, NameSpaceGroup(index), port, Creates(index, NameSpaceSize))
    BY <1>4, <1>9 DEF Put, Serves
  <2> QED
    BY <2>1, <2>2, <2>3, <2>4
<1>14. \A group \in GroupsOf(index) : Put(calls, group, port, CreatesGroup(index, group))
  BY <1>12, <1>13 DEF Put, GroupsOf
<1>15. \A c : In(c, calls) /\ c.op = "pg-add" =>
          c.on \in GroupsOf(index) /\ CreatesGroup(index, c.on)
  <2> SUFFICES ASSUME NEW c, In(c, calls), c.op = "pg-add"
               PROVE  c.on \in GroupsOf(index) /\ CreatesGroup(index, c.on)
    OBVIOUS
  <2>1. CASE In(c, deny)
    BY <1>1, <1>12, <2>1 DEF Serves, GroupsOf
  <2>2. CASE In(c, multi)
    BY <1>2, <1>12, <2>2 DEF Serves, GroupsOf
  <2>3. CASE In(c, policy)
    BY <1>3, <1>12, <2>3 DEF Serves, GroupsOf
  <2>4. CASE In(c, space)
    BY <1>4, <1>12, <2>4 DEF Serves, GroupsOf
  <2> QED
    BY <1>9, <2>1, <2>2, <2>3, <2>4
<1> QED
  BY <1>8, <1>14, <1>15

\* The calls of an iteration are those of its ports, after the creation of all
\* of them.
LEMMA Program ==
  ASSUME NEW it \in Iterations
  PROVE  /\ CreateRoutedLport(it) \in Seq(Calls)
         /\ \A c : In(c, CreateRoutedLport(it)) <=>
               \/ c = Other \/ c = Call("lsp-add", DefDeny, PortsOf(it))
               \/ \E i \in 0..(Batch - 1) :
                     In(c, PortCalls(Index(it, i), Port(it, i), IpAddr(it, i)))
<1>0. Other \in Calls
  <2>1. DefDeny \in Labels \X Nat
    BY GroupTyped
  <2>2. Call("other", DefDeny, {}) \in Calls
    BY <2>1, CallTyped DEF Ops
  <2> QED
    BY <2>2 DEF Other
<1>1. Batch \in Nat \ {0}
  BY PolicyAssumption DEF PolicyAssumption
<1>2. \A i \in Nat : /\ Port(it, i) \in Ports /\ Index(it, i) \in Nat
                     /\ IpAddr(it, i) \in Ports
  BY PortTyped DEF IpAddr
<1>3. PICK seqs : seqs = [k \in 1..Batch |->
                             PortCalls(Index(it, k - 1), Port(it, k - 1), IpAddr(it, k - 1))]
  OBVIOUS
<1>4. \A k \in 1..Batch :
         PortCalls(Index(it, k - 1), Port(it, k - 1), IpAddr(it, k - 1)) \in Seq(Calls)
  <2> SUFFICES ASSUME NEW k \in 1..Batch
               PROVE  PortCalls(Index(it, k - 1), Port(it, k - 1), IpAddr(it, k - 1)) \in Seq(Calls)
    OBVIOUS
  <2>1. k - 1 \in Nat
    BY <1>1
  <2> QED
    BY <1>2, <2>1, PortCallsServe
<1>5. seqs \in Seq(Seq(Calls)) /\ Len(seqs) = Batch
  BY <1>1, <1>3, <1>4
<1>6. PICK flat \in Seq(Calls) : flat = FlattenSeq(seqs)
  BY <1>5, FlattenTyped
<1>7. PICK first \in Seq(Calls) :
         /\ first = <<Other, Call("lsp-add", DefDeny, PortsOf(it))>>
  <2>1. PortsOf(it) \in SUBSET Ports
    BY <1>1, <1>2 DEF PortsOf
  <2>2. Call("lsp-add", DefDeny, PortsOf(it)) \in Calls
    BY <2>1, CallTyped, GroupTyped DEF Ops
  <2>3. PICK d \in Calls : d = Call("lsp-add", DefDeny, PortsOf(it))
    BY <2>2
  <2>4. PICK e \in Calls : e = Other
    BY <1>0
  <2>5. <<e, d>> \in Seq(Calls)
    OBVIOUS
  <2> QED
    BY <2>3, <2>4, <2>5
<1>8. PICK last \in Seq(Calls) : last = <<Other>>
  <2>1. PICK e \in Calls : e = Other
    BY <1>0
  <2>2. <<e>> \in Seq(Calls)
    OBVIOUS
  <2> QED
    BY <2>1, <2>2
<1>9. PICK all \in Seq(Calls) : all = (first \o flat) \o last
  BY InThree
<1>10. CreateRoutedLport(it) = all
  BY <1>3, <1>6, <1>7, <1>8, <1>9 DEF CreateRoutedLport, PortCalls
<1>11. \A c : In(c, (first \o flat) \o last) <=> In(c, first) \/ In(c, flat) \/ In(c, last)
  BY InThree
<1>12. \A c : In(c, flat) <=> \E n \in 1..Len(seqs) : In(c, seqs[n])
  BY <1>5, <1>6, InFlatten
<1>13. \A c : In(c, flat) <=> \E i \in 0..(Batch - 1) :
                     In(c, PortCalls(Index(it, i), Port(it, i), IpAddr(it, i)))
  <2> SUFFICES ASSUME NEW c
               PROVE  In(c, flat) <=> \E i \in 0..(Batch - 1) :
                     In(c, PortCalls(Index(it, i), Port(it, i), IpAddr(it, i)))
    OBVIOUS
  <2>1. ASSUME In(c, flat)
        PROVE  \E i \in 0..(Batch - 1) :
                     In(c, PortCalls(Index(it, i), Port(it, i), IpAddr(it, i)))
    <3>1. PICK n \in 1..Batch : In(c, seqs[n])
      BY <1>5, <1>12, <2>1
    <3>2. n - 1 \in 0..(Batch - 1)
      BY <1>1
    <3>3. In(c, PortCalls(Index(it, n - 1), Port(it, n - 1), IpAddr(it, n - 1)))
      BY <1>3, <3>1
    <3> QED
      BY <3>2, <3>3
  <2>2. ASSUME NEW i \in 0..(Batch - 1),
               In(c, PortCalls(Index(it, i), Port(it, i), IpAddr(it, i)))
        PROVE  In(c, flat)
    <3>1. i + 1 \in 1..Batch /\ (i + 1) - 1 = i
      BY <1>1
    <3>2. seqs[i + 1] = PortCalls(Index(it, i), Port(it, i), IpAddr(it, i))
      BY <1>3, <3>1
    <3>3. In(c, seqs[i + 1])
      BY <2>2, <3>2
    <3> QED
      BY <1>5, <1>12, <3>1, <3>3
  <2> QED
    BY <2>1, <2>2
<1>14. \A c : In(c, first) <=> c = Other \/ c = Call("lsp-add", DefDeny, PortsOf(it))
  BY <1>7, InTwo
<1>15. \A c : In(c, last) <=> c = Other
  BY <1>8, InOne
<1> QED
  BY <1>9, <1>10, <1>11, <1>13, <1>14, <1>15

-----------------------------------------------------------------------------
(* What the iterations write, as an invariant *)

\* The database has its tables, and what they hold hangs together.
Tables ==
    db = [ports |-> db.ports, groups |-> db.groups, members |-> db.members,
          acls |-> db.acls, sets |-> db.sets, addresses |-> db.addresses]

HangsTogether ==
    /\ \A m \in db.members : m[1] \in db.groups /\ m[2] \in db.ports
    /\ \A acl \in db.acls : acl[1] \in db.groups /\ acl[2] \in 1..NumAcls(acl[1])
    /\ \A a \in db.addresses : a[1] \in db.sets

Wellformed ==
    /\ Tables
    /\ HangsTogether
    /\ at \in [Iterations -> {"running", "returned", "refused", "lost"}]
    /\ left \in [Iterations -> Seq(Calls)]

\* What a call was for is in the database.
Achieved(c) ==
    /\ c.op \in {"pg-add", "pg-add-port"} => <<c.on, c.x>> \in db.members
    /\ c.op = "acl-add" => <<c.on, c.x>> \in db.acls

\* An iteration that was not cut short has each of its calls before it or done.
LeftOrDone(it) ==
    /\ \A c : In(c, left[it]) => In(c, CreateRoutedLport(it))
    /\ at[it] = "returned" => left[it] = <<>>
    /\ at[it] \in {"running", "returned"} =>
          \A c : In(c, CreateRoutedLport(it)) => In(c, left[it]) \/ Achieved(c)

\* Every group was created by a call of some iteration.
CreatedBySomeone ==
    \A g \in db.groups : \E it \in Iterations :
        \E c : In(c, CreateRoutedLport(it)) /\ c.op = "pg-add" /\ c.on = g

PolicyInv ==
    /\ Wellformed
    /\ \A it \in Iterations : LeftOrDone(it)
    /\ CreatedBySomeone

\* What an accepted call leaves in the database.
LEMMA EffectOfCall ==
  ASSUME NEW c \in Calls, Tables, HangsTogether, Accepts(c), db' = Effect(c)
  PROVE  /\ Tables' /\ HangsTogether' /\ Achieved(c)'
         /\ db.members \subseteq db'.members /\ db.acls \subseteq db'.acls
         /\ \A g \in db'.groups : g \in db.groups \/ (c.op = "pg-add" /\ c.on = g)
<1>0. c.op \in Ops
  BY DEF Calls
<1>1. CASE c.op = "lsp-add"
  <2>1. db' = [db EXCEPT !.ports = @ \cup c.x]
    BY <1>1 DEF Effect
  <2>2. /\ db'.ports = db.ports \cup c.x /\ db'.groups = db.groups
        /\ db'.members = db.members /\ db'.acls = db.acls /\ db'.sets = db.sets
        /\ db'.addresses = db.addresses /\ Tables'
    BY <2>1 DEF Tables
  <2> QED
    BY <1>1, <2>2 DEF HangsTogether, Achieved
<1>2. CASE c.op \in {"get", "other"}
  <2>1. db' = db
    BY <1>2 DEF Effect
  <2> QED
    BY <1>2, <2>1 DEF Tables, HangsTogether, Achieved
<1>3. CASE c.op = "pg-add"
  <2>1. db' = [db EXCEPT !.groups = @ \cup {c.on}, !.members = @ \cup {<<c.on, c.x>>}]
    BY <1>3 DEF Effect
  <2>2. /\ db'.ports = db.ports /\ db'.groups = db.groups \cup {c.on}
        /\ db'.members = db.members \cup {<<c.on, c.x>>} /\ db'.acls = db.acls
        /\ db'.sets = db.sets /\ db'.addresses = db.addresses /\ Tables'
    BY <2>1 DEF Tables
  <2>3. c.x \in db.ports
    BY <1>3 DEF Accepts
  <2> QED
    BY <1>3, <2>2, <2>3 DEF HangsTogether, Achieved
<1>4. CASE c.op = "pg-add-port"
  <2>1. db' = [db EXCEPT !.members = @ \cup {<<c.on, c.x>>}]
    BY <1>4 DEF Effect
  <2>2. /\ db'.ports = db.ports /\ db'.groups = db.groups
        /\ db'.members = db.members \cup {<<c.on, c.x>>} /\ db'.acls = db.acls
        /\ db'.sets = db.sets /\ db'.addresses = db.addresses /\ Tables'
    BY <2>1 DEF Tables
  <2>3. c.on \in db.groups /\ c.x \in db.ports
    BY <1>4 DEF Accepts
  <2> QED
    BY <1>4, <2>2, <2>3 DEF HangsTogether, Achieved
<1>5. CASE c.op = "acl-add"
  <2>1. db' = [db EXCEPT !.acls = @ \cup {<<c.on, c.x>>}]
    BY <1>5 DEF Effect
  <2>2. /\ db'.ports = db.ports /\ db'.groups = db.groups
        /\ db'.members = db.members /\ db'.acls = db.acls \cup {<<c.on, c.x>>}
        /\ db'.sets = db.sets /\ db'.addresses = db.addresses /\ Tables'
    BY <2>1 DEF Tables
  <2>3. c.on \in db.groups /\ c.x \in 1..NumAcls(c.on)
    BY <1>5 DEF Accepts, Calls
  <2> QED
    BY <1>5, <2>2, <2>3 DEF HangsTogether, Achieved
<1>6. CASE c.op \in {"as-create", "as-add"}
  <2>1. /\ db'.ports = db.ports /\ db'.groups = db.groups
        /\ db'.members = db.members /\ db'.acls = db.acls
        /\ db'.sets = db.sets \cup {c.on}
        /\ db'.addresses = db.addresses \cup {<<c.on, c.x>>} /\ Tables'
    <3>1. CASE c.op = "as-create"
      <4>1. db' = [db EXCEPT !.sets = @ \cup {c.on}, !.addresses = @ \cup {<<c.on, c.x>>}]
        BY <3>1 DEF Effect
      <4> QED
        BY <4>1 DEF Tables
    <3>2. CASE c.op = "as-add"
      <4>1. db' = [db EXCEPT !.addresses = @ \cup {<<c.on, c.x>>}]
        BY <3>2 DEF Effect
      <4>2. db.sets = db.sets \cup {c.on}
        BY <3>2 DEF Accepts
      <4> QED
        BY <4>1, <4>2 DEF Tables
    <3> QED
      BY <1>6, <3>1, <3>2
  <2> QED
    BY <1>6, <2>1 DEF HangsTogether, Achieved
<1> QED
  BY <1>0, <1>1, <1>2, <1>3, <1>4, <1>5, <1>6 DEF Ops

LEMMA PolicyInit == Init => PolicyInv
<1> SUFFICES ASSUME Init PROVE PolicyInv
  OBVIOUS
<1>1. Wellformed
  BY Program DEF Init, Wellformed, Tables, HangsTogether
<1>2. ASSUME NEW it \in Iterations PROVE LeftOrDone(it)
  BY DEF Init, LeftOrDone
<1>3. CreatedBySomeone
  BY DEF Init, CreatedBySomeone
<1> QED
  BY <1>1, <1>2, <1>3 DEF PolicyInv

\* A call that was achieved stays so.
LEMMA StaysAchieved ==
  ASSUME NEW c, Achieved(c), db.members \subseteq db'.members, db.acls \subseteq db'.acls
  PROVE  Achieved(c)'
BY DEF Achieved

\* An iteration that does nothing loses nothing when the database grows.
LEMMA OthersKeep ==
  ASSUME NEW j \in Iterations, LeftOrDone(j), at'[j] = at[j], left'[j] = left[j],
         db.members \subseteq db'.members, db.acls \subseteq db'.acls
  PROVE  LeftOrDone(j)'
<1>1. \A c : Achieved(c) => Achieved(c)'
  BY StaysAchieved
<1> QED
  BY <1>1 DEF LeftOrDone

LEMMA ExecutedKeeps ==
  ASSUME PolicyInv, NEW it \in Iterations, Executed(it)
  PROVE  PolicyInv'
<1>1. PICK c \in Calls : /\ c = Head(left[it]) /\ Accepts(c) /\ db' = Effect(c)
                         /\ In(c, left[it]) /\ Tail(left[it]) \in Seq(Calls)
                         /\ \A d : In(d, left[it]) <=> d = c \/ In(d, Tail(left[it]))
  <2>1. left[it] \in Seq(Calls) /\ left[it] # <<>>
    BY DEF Executed, Ready, PolicyInv, Wellformed
  <2>2. \A d : /\ Head(left[it]) \in Calls /\ Tail(left[it]) \in Seq(Calls)
               /\ In(d, left[it]) <=> d = Head(left[it]) \/ In(d, Tail(left[it]))
    BY <2>1, InHeadTail
  <2> QED
    BY <2>2 DEF Executed
<1>2. /\ Tables' /\ HangsTogether' /\ Achieved(c)'
      /\ db.members \subseteq db'.members /\ db.acls \subseteq db'.acls
      /\ \A g \in db'.groups : g \in db.groups \/ (c.op = "pg-add" /\ c.on = g)
  BY <1>1, EffectOfCall DEF PolicyInv, Wellformed
<1>3. at' = at /\ left' = [left EXCEPT ![it] = Tail(@)]
  BY DEF Executed
<1>4. Wellformed'
  BY <1>1, <1>2, <1>3 DEF PolicyInv, Wellformed
<1>5. at[it] = "running" /\ left'[it] = Tail(left[it])
  BY <1>3 DEF Executed, Ready, PolicyInv, Wellformed
<1>6. ASSUME NEW j \in Iterations PROVE LeftOrDone(j)'
  <2>1. CASE j # it
    <3>1. LeftOrDone(j) /\ at'[j] = at[j] /\ left'[j] = left[j]
      BY <1>3, <2>1 DEF PolicyInv, Wellformed
    <3> QED
      BY <1>2, <3>1, OthersKeep
  <2>2. CASE j = it
    <3>1. LeftOrDone(it)
      BY DEF PolicyInv
    <3>2. \A d : In(d, left'[it]) => In(d, CreateRoutedLport(it))
      BY <1>1, <1>5, <3>1 DEF LeftOrDone
    <3>3. ASSUME NEW d, In(d, CreateRoutedLport(it))
          PROVE  In(d, left'[it]) \/ Achieved(d)'
      <4>1. In(d, left[it]) \/ Achieved(d)
        BY <1>5, <3>1, <3>3 DEF LeftOrDone
      <4>2. CASE Achieved(d)
        BY <1>2, <4>2, StaysAchieved
      <4>3. CASE In(d, left[it])
        BY <1>1, <1>2, <1>5, <4>3
      <4> QED
        BY <4>1, <4>2, <4>3
    <3>4. at'[it] = "running"
      BY <1>3, <1>5
    <3> QED
      BY <2>2, <3>2, <3>3, <3>4 DEF LeftOrDone
  <2> QED
    BY <2>1, <2>2
<1>7. CreatedBySomeone'
  <2>1. In(c, CreateRoutedLport(it))
    BY <1>1 DEF PolicyInv, LeftOrDone
  <2> QED
    BY <1>2, <2>1 DEF PolicyInv, CreatedBySomeone
<1> QED
  BY <1>4, <1>6, <1>7 DEF PolicyInv

\* An iteration that is cut short, before or after its next call is executed.
LEMMA LostKeeps ==
  ASSUME PolicyInv, NEW it \in Iterations, Lost(it)
  PROVE  PolicyInv'
<1>1. PICK c \in Calls : /\ c = Head(left[it]) /\ In(c, left[it])
                         /\ db' = db \/ (Accepts(c) /\ db' = Effect(c))
  <2>1. left[it] \in Seq(Calls) /\ left[it] # <<>>
    BY DEF Lost, Ready, PolicyInv, Wellformed
  <2>2. \A d : /\ Head(left[it]) \in Calls
               /\ In(d, left[it]) <=> d = Head(left[it]) \/ In(d, Tail(left[it]))
    BY <2>1, InHeadTail
  <2> QED
    BY <2>2 DEF Lost
<1>2. /\ Tables' /\ HangsTogether'
      /\ db.members \subseteq db'.members /\ db.acls \subseteq db'.acls
      /\ \A g \in db'.groups : g \in db.groups \/ (c.op = "pg-add" /\ c.on = g)
  <2>1. CASE db' = db
    BY <2>1 DEF PolicyInv, Wellformed, Tables, HangsTogether
  <2>2. CASE Accepts(c) /\ db' = Effect(c)
    BY <2>2, EffectOfCall DEF PolicyInv, Wellformed
  <2> QED
    BY <1>1, <2>1, <2>2
<1>3. at' = [at EXCEPT ![it] = "lost"] /\ left' = [left EXCEPT ![it] = <<>>]
  BY DEF Lost, End
<1>4. Wellformed'
  BY <1>2, <1>3 DEF PolicyInv, Wellformed
<1>5. ASSUME NEW j \in Iterations PROVE LeftOrDone(j)'
  <2>1. CASE j # it
    <3>1. LeftOrDone(j) /\ at'[j] = at[j] /\ left'[j] = left[j]
      BY <1>3, <2>1 DEF PolicyInv, Wellformed
    <3> QED
      BY <1>2, <3>1, OthersKeep
  <2>2. CASE j = it
    <3>1. at'[it] = "lost" /\ left'[it] = <<>>
      BY <1>3 DEF PolicyInv, Wellformed
    <3> QED
      BY <2>2, <3>1 DEF LeftOrDone, In
  <2> QED
    BY <2>1, <2>2
<1>6. CreatedBySomeone'
  <2>1. In(c, CreateRoutedLport(it))
    BY <1>1 DEF PolicyInv, LeftOrDone
  <2> QED
    BY <1>2, <2>1 DEF PolicyInv, CreatedBySomeone
<1> QED
  BY <1>4, <1>5, <1>6 DEF PolicyInv

\* An iteration that ends, refused or at the end of its calls.
LEMMA EndKeeps ==
  ASSUME PolicyInv, NEW it \in Iterations, Refused(it) \/ Return(it)
  PROVE  PolicyInv'
<1>1. PICK how \in {"refused", "returned"} :
         /\ at' = [at EXCEPT ![it] = how] /\ left' = [left EXCEPT ![it] = <<>>]
         /\ how = "returned" => at[it] = "running" /\ left[it] = <<>>
  BY DEF Refused, Return, End
<1>2. db' = db
  BY DEF Refused, Return
<1>3. Wellformed'
  BY <1>1, <1>2 DEF PolicyInv, Wellformed, Tables, HangsTogether
<1>4. ASSUME NEW j \in Iterations PROVE LeftOrDone(j)'
  <2>1. CASE j # it
    <3>1. LeftOrDone(j) /\ at'[j] = at[j] /\ left'[j] = left[j]
      BY <1>1, <2>1 DEF PolicyInv, Wellformed
    <3> QED
      BY <1>2, <3>1, OthersKeep
  <2>2. CASE j = it
    <3>1. at'[it] = how /\ left'[it] = <<>>
      BY <1>1 DEF PolicyInv, Wellformed
    <3>2. \A d : ~In(d, <<>>)
      BY DEF In
    <3>3. LeftOrDone(it)
      BY DEF PolicyInv
    <3>4. how = "returned" => \A d : In(d, CreateRoutedLport(it)) => Achieved(d)'
      BY <1>1, <1>2, <3>2, <3>3 DEF LeftOrDone, Achieved
    <3> QED
      BY <2>2, <3>1, <3>2, <3>4 DEF LeftOrDone
  <2> QED
    BY <2>1, <2>2
<1>5. CreatedBySomeone'
  BY <1>2 DEF PolicyInv, CreatedBySomeone
<1> QED
  BY <1>3, <1>4, <1>5 DEF PolicyInv

LEMMA PolicyInvariance == Spec => []PolicyInv
<1>1. Init => PolicyInv
  BY PolicyInit
<1>2. PolicyInv /\ [Next]_vars => PolicyInv'
  <2> SUFFICES ASSUME PolicyInv, [Next]_vars PROVE PolicyInv'
    OBVIOUS
  <2>1. CASE Next
    BY <2>1, ExecutedKeeps, LostKeeps, EndKeeps DEF Next
  <2>2. CASE UNCHANGED vars
    BY <2>2 DEF vars, PolicyInv, Wellformed, Tables, HangsTogether, LeftOrDone, Achieved,
                CreatedBySomeone
  <2> QED
    BY <2>1, <2>2
<1> QED
  BY <1>1, <1>2, PTL DEF Spec

\* Whatever the iterations write hangs together, for every batch and every
\* number of iterations, even when one of them is refused or cut short.
THEOREM TypeCorrect == Spec => []TypeOK
<1>1. PolicyInv => TypeOK
  BY DEF PolicyInv, Wellformed, HangsTogether, TypeOK
<1> QED
  BY <1>1, PolicyInvariance, PTL

\* A port of an iteration that has returned, in one of its groups.
LEMMA ReturnedPut ==
  ASSUME PolicyInv, NEW it \in Iterations, at[it] = "returned",
         NEW i \in 0..(Batch - 1), NEW group \in GroupsOf(Index(it, i))
  PROVE  /\ <<group, Port(it, i)>> \in db.members
         /\ CreatesGroup(Index(it, i), group) =>
               \A k \in 1..NumAcls(group) : <<group, k>> \in db.acls
<1>1. \A c : In(c, CreateRoutedLport(it)) => Achieved(c)
  BY DEF PolicyInv, LeftOrDone, In
<1>2. i \in Nat
  BY PolicyAssumption DEF PolicyAssumption
<1>3. PICK calls : calls = PortCalls(Index(it, i), Port(it, i), IpAddr(it, i))
  OBVIOUS
<1>4. Put(calls, group, Port(it, i), CreatesGroup(Index(it, i), group))
  <2>1. /\ Port(it, i) \in Ports /\ Index(it, i) \in Nat /\ IpAddr(it, i) \in Ports
    BY <1>2, PortTyped DEF IpAddr
  <2> QED
    BY <1>3, <2>1, PortCallsServe
<1>5. \A c : In(c, calls) => Achieved(c)
  BY <1>1, <1>3, Program
<1>6. CASE CreatesGroup(Index(it, i), group)
  <2>1. /\ Achieved(Call("pg-add", group, Port(it, i)))
        /\ \A k \in 1..NumAcls(group) : Achieved(Call("acl-add", group, k))
    BY <1>4, <1>5, <1>6 DEF Put
  <2> QED
    BY <2>1 DEF Achieved, Call
<1>7. CASE ~CreatesGroup(Index(it, i), group)
  <2>1. Achieved(Call("pg-add-port", group, Port(it, i)))
    BY <1>4, <1>5, <1>7 DEF Put
  <2> QED
    BY <1>7, <2>1 DEF Achieved, Call
<1> QED
  BY <1>6, <1>7

\* When an iteration has returned each of its ports is in its four groups,
\* whichever iteration created them (create_or_update_network_policy,
\* create_or_update_name_space).
THEOREM Members == Spec => []MembersOfAllGroups
<1>1. PolicyInv => MembersOfAllGroups
  BY ReturnedPut DEF MembersOfAllGroups
<1> QED
  BY <1>1, PolicyInvariance, PTL

\* The port whose index is a multiple of the size is one of CreatorOf.
LEMMA CreatorIs ==
  ASSUME NEW it \in Iterations, NEW j \in Iterations,
         NEW i \in 0..(Batch - 1), NEW h \in 0..(Batch - 1), NEW size \in Nat \ {0},
         Index(it, i) \div size = Index(j, h) \div size, Creates(Index(j, h), size)
  PROVE  j = CreatorOf(it, i, size)
<1>1. it \in Nat /\ j \in Nat /\ Batch \in Nat \ {0} /\ i \in Nat /\ h \in Nat
  BY PolicyAssumption DEF PolicyAssumption
<1>2. Index(it, i) \in Nat /\ Index(j, h) \in Nat
  BY <1>1, PortTyped
<1>3. Index(j, h) = (Index(it, i) \div size) * size
  BY <1>2, OneCreator
<1>4. Index(j, h) = h + j * Batch
  BY <1>1 DEF Index
<1>5. (h + j * Batch) \div Batch = (h \div Batch) + j
  BY <1>1, DivShift
<1>6. h \div Batch = 0
  BY <1>1
<1> QED
  BY <1>1, <1>3, <1>4, <1>5, <1>6 DEF CreatorOf

\* Whoever creates a group of one of its ports is a creator of the iteration.
LEMMA CreatorFound ==
  ASSUME NEW it \in Iterations, NEW j \in Iterations,
         NEW i \in 0..(Batch - 1), NEW h \in 0..(Batch - 1),
         NEW group \in GroupsOf(Index(it, i)), CreatesGroup(Index(j, h), group)
  PROVE  j \in Creators(it)
<1>1. PolicySize \in Nat \ {0} /\ NameSpaceSize \in Nat \ {0}
  BY PolicyAssumption DEF PolicyAssumption
<1>2. CASE group \in {DefDeny, MultiDefDeny}
  <2>1. Index(j, h) = 0
    BY <1>2 DEF CreatesGroup, PolicyGroup, NameSpaceGroup, DefDeny, MultiDefDeny
  <2>2. j \in Nat /\ Batch \in Nat \ {0} /\ h \in Nat /\ Batch * j + h = 0
    BY <2>1, PolicyAssumption DEF PolicyAssumption, Index
  <2>3. j = 0
    BY <2>2, SMT
  <2> QED
    BY <2>3 DEF Creators
<1>3. CASE group = PolicyGroup(Index(it, i))
  <2>1. /\ Index(it, i) \div PolicySize = Index(j, h) \div PolicySize
        /\ Creates(Index(j, h), PolicySize)
    BY <1>3 DEF CreatesGroup, PolicyGroup, NameSpaceGroup, DefDeny, MultiDefDeny
  <2>2. j = CreatorOf(it, i, PolicySize)
    BY <1>1, <2>1, CreatorIs
  <2> QED
    BY <2>2 DEF Creators
<1>4. CASE group = NameSpaceGroup(Index(it, i))
  <2>1. /\ Index(it, i) \div NameSpaceSize = Index(j, h) \div NameSpaceSize
        /\ Creates(Index(j, h), NameSpaceSize)
    BY <1>4 DEF CreatesGroup, PolicyGroup, NameSpaceGroup, DefDeny, MultiDefDeny
  <2>2. j = CreatorOf(it, i, NameSpaceSize)
    BY <1>1, <2>1, CreatorIs
  <2> QED
    BY <2>2 DEF Creators
<1> QED
  BY <1>2, <1>3, <1>4 DEF GroupsOf

\* A group that exists was created for a port of some iteration.
LEMMA GroupHasCreator ==
  ASSUME PolicyInv, NEW group \in db.groups
  PROVE  \E j \in Iterations, h \in 0..(Batch - 1) :
            group \in GroupsOf(Index(j, h)) /\ CreatesGroup(Index(j, h), group)
<1>1. PICK j \in Iterations : \E c : In(c, CreateRoutedLport(j)) /\ c.op = "pg-add" /\ c.on = group
  BY DEF PolicyInv, CreatedBySomeone
<1>2. PICK c : In(c, CreateRoutedLport(j)) /\ c.op = "pg-add" /\ c.on = group
  BY <1>1
<1>3. PICK h \in 0..(Batch - 1) :
         In(c, PortCalls(Index(j, h), Port(j, h), IpAddr(j, h)))
  BY <1>2, Program DEF Call, Other
<1>4. Port(j, h) \in Ports /\ Index(j, h) \in Nat /\ IpAddr(j, h) \in Ports
  BY PolicyAssumption, PortTyped DEF IpAddr, PolicyAssumption
<1> QED
  BY <1>2, <1>3, <1>4, PortCallsServe

\* When the creators of the groups of an iteration have returned too, those
\* groups have all their ACLs: no port is left in a group that filters nothing,
\* although nothing orders the iterations (create_port_group_acls).
THEOREM Enforced == Spec => []EnforcedAfterCreators
<1>1. ASSUME PolicyInv PROVE EnforcedAfterCreators
  <2> SUFFICES ASSUME NEW it \in Iterations,
                      \A j \in {it} \cup (Creators(it) \cap Iterations) : at[j] = "returned",
                      NEW i \in 0..(Batch - 1), NEW group \in GroupsOf(Index(it, i)),
                      NEW k \in 1..NumAcls(group)
               PROVE  <<group, k>> \in db.acls
    BY DEF EnforcedAfterCreators
  <2>1. <<group, Port(it, i)>> \in db.members
    BY <1>1, ReturnedPut
  <2>2. group \in db.groups
    BY <1>1, <2>1 DEF PolicyInv, Wellformed, HangsTogether
  <2>3. PICK j \in Iterations, h \in 0..(Batch - 1) :
           group \in GroupsOf(Index(j, h)) /\ CreatesGroup(Index(j, h), group)
    BY <1>1, <2>2, GroupHasCreator
  <2>4. at[j] = "returned"
    BY <2>3, CreatorFound
  <2> QED
    BY <1>1, <2>3, <2>4, ReturnedPut
<1> QED
  BY <1>1, PolicyInvariance, PTL

-----------------------------------------------------------------------------
(* What the checks of the scenarios on their networks are worth, for every *)
(* network, amount and shift.                                              *)

\* The k-th network after a network is one again, of the same size.
LEMMA NextIsNetwork ==
  ASSUME NEW net \in Networks, NEW k \in Nat
  PROVE  /\ NextNetwork(net, k) \in Networks
         /\ NextNetwork(net, k).first = net.first + k * net.size
         /\ NextNetwork(net, k).size = net.size
<1>1. net.first \in Nat /\ net.size \in Nat \ {0}
  BY DEF Networks
<1>2. k * net.size \in Nat
  BY <1>1, SMT
<1>3. NextNetwork(net, k) = [first |-> net.first + k * net.size, size |-> net.size]
  BY DEF NextNetwork, Networks
<1> QED
  BY <1>1, <1>2, <1>3 DEF Networks

\* The check of _create_switch_lports keeps the addresses of all ports in the
\* network and off its last address, so the range they are taken from does not
\* run out (ovn.py:128-135).
THEOREM PortsInNetwork ==
  ASSUME NEW net \in Networks, NEW amount \in Nat, NEW shift \in Nat,
         BigEnough(net, amount, shift), NEW i \in 0..(amount - 1)
  PROVE  PortIp(net, shift, i) \in Addresses(net) \ {LastAddress(net)}
<1>1. net.first \in Nat /\ net.size \in Nat
  BY DEF Networks
<1> QED
  BY <1>1, SMT DEF BigEnough, PortIp, Addresses, LastAddress

\* A port can have the address of its gateway: the last port, if the network
\* is just big enough for the check.  Of no other network or port is that so
\* (ovn.py:128, ovnclients.py:48).
THEOREM OnlyLastPortMeetsGateway ==
  ASSUME NEW net \in Networks, NEW amount \in Nat, NEW shift \in Nat,
         BigEnough(net, amount, shift), NEW i \in 0..(amount - 1)
  PROVE  PortIp(net, shift, i) = GwIp(net, 1) <=>
           i = amount - 1 /\ net.first + amount + shift = LastAddress(net)
<1>1. net.first \in Nat /\ net.size \in Nat
  BY DEF Networks
<1> QED
  BY <1>1, SMT DEF BigEnough, PortIp, Addresses, LastAddress, GwIp

\* A block of amount numbers for each iteration: blocks do not overlap.
LEMMA BlocksDisjoint ==
  ASSUME NEW i \in Nat, NEW j \in Nat, NEW amount \in Nat,
         NEW k \in 0..(amount - 1), NEW l \in 0..(amount - 1), i < j
  PROVE  i * amount + k < j * amount + l
<1>1. PICK d \in Nat : j = (i + 1) + d
  BY SMT
<1>2. j * amount = i * amount + amount + d * amount
  BY <1>1, SMT
<1>3. d * amount \in Nat /\ i * amount \in Nat
  BY <1>1, SMT
<1> QED
  BY <1>2, <1>3, SMT

\* Networks whose numbers differ have no address in common.
LEMMA NetworksApart ==
  ASSUME NEW net \in Networks, NEW m \in Nat, NEW n \in Nat, m < n
  PROVE  Addresses(NextNetwork(net, m)) \cap Addresses(NextNetwork(net, n)) = {}
<1>1. net.first \in Nat /\ net.size \in Nat \ {0}
  BY DEF Networks
<1>2. PICK d \in Nat : n = (m + 1) + d
  BY SMT
<1> DEFINE s == net.size
<1>3. n * s = m * s + s + d * s /\ m * s \in Nat /\ d * s \in Nat
  BY <1>1, <1>2, SMT
<1>4. /\ NextNetwork(net, m).first = net.first + m * s /\ NextNetwork(net, m).size = s
      /\ NextNetwork(net, n).first = net.first + n * s /\ NextNetwork(net, n).size = s
  BY NextIsNetwork
<1> DEFINE P == m * s
<1> DEFINE Q == n * s
<1>5. P \in Nat /\ Q \in Nat /\ Q >= P + s /\ s \in Nat
  BY <1>1, <1>3, SMT
<1>6. /\ Addresses(NextNetwork(net, m)) = (net.first + P)..(net.first + P + s - 1)
      /\ Addresses(NextNetwork(net, n)) = (net.first + Q)..(net.first + Q + s - 1)
  BY <1>4 DEF Addresses, LastAddress
<1> HIDE DEF s, P, Q
<1> QED
  BY <1>1, <1>5, <1>6, SMT

\* The networks of all switches of all iterations are disjoint, when every
\* iteration creates the same amount (ovn.py:369-374, ovnclients.py:77).
THEOREM SwitchesHaveOwnNetworks ==
  ASSUME NEW net \in Networks, NEW amount \in Nat,
         NEW i \in Nat, NEW k \in 0..(amount - 1), NEW j \in Nat, NEW l \in 0..(amount - 1),
         <<i, k>> # <<j, l>>
  PROVE  Addresses(LswitchCidr(net, i, amount, k))
           \cap Addresses(LswitchCidr(net, j, amount, l)) = {}
<1>1. /\ i * amount \in Nat /\ j * amount \in Nat
      /\ i * amount + k \in Nat /\ j * amount + l \in Nat
  BY SMT
<1>2. /\ LswitchCidr(net, i, amount, k) = NextNetwork(net, i * amount + k)
      /\ LswitchCidr(net, j, amount, l) = NextNetwork(net, j * amount + l)
  <2>1. ASSUME NEW a \in Nat, NEW b \in Nat
        PROVE  NextNetwork(NextNetwork(net, a), b) = NextNetwork(net, a + b)
    <3>1. net.first \in Nat /\ net.size \in Nat \ {0}
      BY DEF Networks
    <3>2. (net.first + a * net.size) + b * net.size = net.first + (a + b) * net.size
      BY <3>1, SMT
    <3> QED
      BY <3>2, NextIsNetwork DEF NextNetwork, Networks
  <2> QED
    BY <1>1, <2>1 DEF LswitchCidr
<1>3. i * amount + k < j * amount + l \/ j * amount + l < i * amount + k
  <2>1. CASE i < j
    BY <2>1, BlocksDisjoint
  <2>2. CASE j < i
    BY <2>2, BlocksDisjoint
  <2>3. CASE i = j
    BY <2>3, <1>1, SMT
  <2> QED
    BY <2>1, <2>2, <2>3, SMT
<1> QED
  BY <1>1, <1>2, <1>3, NetworksApart
=============================================================================
