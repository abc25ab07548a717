------------------------- MODULE FarmClients_proofs -------------------------
(***************************************************************************)
(* The slices of _bind_ports, for any number of sandboxes and of ports;    *)
(* and the invariants of create_and_bind_ports, for any sandboxes, farms,  *)
(* ports and test beds, from an inductive invariant.  It says how far the  *)
(* program of the present method has been followed, what the calls made so *)
(* far have prepared, queued and delivered, and how the facts about a port *)
(* depend on each other.                                                   *)
(***************************************************************************)
EXTENDS FarmClients, SequenceLemmas

\* The size of a slice is positive, and the slices of all the sandboxes have
\* room for every port.
LEMMA SlicesHaveRoom ==
  ASSUME NEW n \in Nat \ {0}
  PROVE  /\ LportPerSandbox(n) \in Nat \ {0}
         /\ LportPerSandbox(n) * NumSandboxes >= n
<1> DEFINE m == NumSandboxes
<1> DEFINE q == LportPerSandbox(n)
<1>1. m \in Nat \ {0}
  BY FarmAssumption DEF FarmAssumption
<1>2. q = (n + m - 1) \div m
  BY DEF LportPerSandbox
<1> HIDE DEF m, q
<1>3. /\ q \in Nat /\ (n + m - 1) % m \in 0..(m - 1)
      /\ n + m - 1 = q * m + ((n + m - 1) % m)
  BY <1>1, <1>2, SMT
<1>4. q * m >= n
  BY <1>1, <1>3, SMT
<1>5. q # 0
  BY <1>1, <1>3, <1>4, SMT
<1> QED
  BY <1>3, <1>4, <1>5 DEF m, q

\* However the numbers divide, every port falls in the slice of a sandbox that
\* is in the list: "sandboxes[j]" is never out of range (ovn.py:563-571).
THEOREM SliceHasSandbox ==
  ASSUME NEW n \in Nat \ {0}, NEW p \in 1..n
  PROVE  SliceOf(p, n) \in Sandboxes
<1> DEFINE q == LportPerSandbox(n)
<1> DEFINE j == (p - 1) \div q
<1> DEFINE m == NumSandboxes
<1>1. q \in Nat \ {0} /\ q * m >= n /\ m \in Nat \ {0}
  BY SlicesHaveRoom, FarmAssumption DEF FarmAssumption
<1>2. SliceOf(p, n) = j + 1
  BY DEF SliceOf
<1> HIDE DEF q
<1>3. j \in Nat /\ q * j <= p - 1
  BY <1>1, SMT
<1> HIDE DEF j, m
<1>4. j < m
  <2>1. j >= m => q * j >= q * m
    BY <1>1, <1>3, SMT
  <2> QED
    BY <2>1, <1>1, <1>3, SMT
<1> QED
  BY <1>1, <1>2, <1>3, <1>4, SMT DEF Sandboxes, m

\* No sandbox is given more than its share: two ports of one sandbox are less
\* than a slice apart.
THEOREM SliceIsBounded ==
  ASSUME NEW n \in Nat \ {0}, NEW p \in 1..n, NEW r \in 1..n,
         p <= r, SliceOf(p, n) = SliceOf(r, n)
  PROVE  r - p < LportPerSandbox(n)
<1> DEFINE q == LportPerSandbox(n)
<1> DEFINE j == (p - 1) \div q
<1> DEFINE k == (r - 1) \div q
<1>1. q \in Nat \ {0}
  BY SlicesHaveRoom
<1>2. SliceOf(p, n) = j + 1 /\ SliceOf(r, n) = k + 1
  BY DEF SliceOf
<1> HIDE DEF q
<1>3. j \in Nat /\ q * j <= p - 1
  BY <1>1, SMT
<1>4. k \in Nat /\ r - 1 < q * k + q
  BY <1>1, SMT
<1> HIDE DEF j, k
<1>5. j = k
  <2>1. j + 1 = k + 1
    BY <1>2, Zenon
  <2> QED
    BY <2>1, <1>3, <1>4, SMT
<1> QED
  BY <1>1, <1>3, <1>4, <1>5, SMT DEF q

-----------------------------------------------------------------------------
(***************************************************************************)
(* The invariant.  "At" calls of the program of the phase have been made;  *)
(* what it says of the state is about the calls made so far.               *)
(***************************************************************************)
Phases == {"choose", "start", "bind", "vm", "wait", "cleanup", "returned", "raised"}
Running == {"bind", "vm", "wait", "cleanup"}
VmOps == {"ethtool", "nsAdd", "moveIn", "configure"}
Ops == {"add", "set", "del", "nsDel", "ping"} \cup VmOps
Lines == [op : Ops, on : Lports]
CallSet == [do : {"set", "batch", "direct", "run", "flush", "store", "start", "ping"},
            client : Clients, op : Ops \cup {""}, on : Sandboxes \cup Lports \cup {Nowhere}]
ALine(op, p) == [op |-> op, on |-> p]

At == Len(ProgramOf(phase)) - Len(todo)

OnTrack ==
    IF phase \in Running
    THEN /\ Len(todo) <= Len(ProgramOf(phase))
         /\ \A j \in 1..Len(todo) : todo[j] = ProgramOf(phase)[At + j]
    ELSE todo = <<>>

TypeInv ==
    /\ setup \in Setups /\ ports \in Amounts /\ phase \in Phases
    /\ phase # "choose" => chosen \in [Lports -> Sandboxes]
    /\ todo \in Seq(CallSet)
    /\ name \in [Clients -> Sandboxes \cup {Nowhere}] /\ batch \in [Clients -> BOOLEAN]
    /\ cmds \in [Clients -> Seq(Lines)]
    /\ context \in Seq(Lports) /\ script \in Seq(Lines)
    /\ elapsed \in 0..(WaitTimeout + 1)

\* Every fact is about a port, and at its home.
HomeFacts == {<<Home(chosen[q]), what, q>> : q \in Lports, what \in Facts}

AtHome ==
    IF phase = "choose" THEN world = {}
    ELSE world \subseteq HomeFacts

\* Whether what is run for the Open vSwitch of a sandbox gets there.
Reached(s) == setup.method = "sandbox" \/ FarmOf[s] \in setup.containers

Has(what, p) == <<Home(chosen[p]), what, p>> \in world
Bound(p) == Reached(chosen[p]) => Has("port", p) /\ Has("iface", p)
AllBound == \A p \in Lports : Bound(p)
Configured(p) == \A what \in Facts : Has(what, p)
StoredConfigured == \A i \in 1..Len(context) : Configured(context[i])
Beside ==
    \A p \in Lports :
        /\ Has("port", p) => Reached(chosen[p])
        /\ Has("link", p) => Has("port", p) /\ Has("netns", p)

NothingQueued == \A c \in Clients : cmds[c] = <<>>
DirectSsh == \A c \in Clients : c[2] = "ssh" => ~batch[c] /\ cmds[c] = <<>>

\* The last set_sandbox() and enable_batch_mode() count.
Prepared(prog, i) ==
    /\ \A k \in 1..i : prog[k].do = "set" /\ (\A m \in (k + 1)..i : prog[m].do # "set")
                          => name[prog[k].client] = prog[k].on
    /\ \A k \in 1..i : prog[k].do = "batch" /\ (\A m \in (k + 1)..i : prog[m].do # "direct")
                          => batch[prog[k].client] \/ prog[k].client[1] \in setup.containers

\* What is queued has been so by the latest calls, for the present sandbox.
Queued(prog, i) ==
    \A c \in Clients : cmds[c] # <<>> =>
        /\ c[2] = "vsctl" /\ c[1] \notin setup.containers
        /\ \E k \in 1..i : /\ prog[k].do = "run" /\ prog[k].client = c
                           /\ \A m \in (k + 1)..i : prog[m].do = "run"
        /\ name[c] \in Sandboxes
        /\ \A j \in 1..Len(cmds[c]) :
              cmds[c][j].op \in {"add", "set"} /\ chosen[cmds[c][j].on] = name[c]

SetCall(p) == Run(Vsctl(chosen[p]), "set", p)

Delivered(prog, i) ==
    \A p \in Lports : \A k \in 1..i :
        prog[k] = SetCall(p) => Bound(p) \/ In(ALine("set", p), cmds[Vsctl(chosen[p])])

BindAt(prog, i) ==
    context = <<>> /\ DirectSsh /\ Prepared(prog, i) /\ Queued(prog, i) /\ Delivered(prog, i)

VmAt(prog, i) ==
    /\ setup.internal /\ NothingQueued /\ DirectSsh /\ AllBound /\ StoredConfigured
    /\ i >= 1 /\ prog[i].do = "run" /\ prog[i].op = "configure" => Configured(prog[i].on)
    /\ i >= 2 /\ prog[i].do = "flush" /\ prog[i - 1].do = "run" /\ prog[i - 1].op = "configure"
          => Configured(prog[i - 1].on)
    /\ (\E k \in 1..i : prog[k].do = "run") => Len(script) <= 1

WaitAt == setup.internal /\ NothingQueued /\ AllBound /\ StoredConfigured /\ Len(script) <= 1

\* The cleanup.
OnlyNetns(p) == \A what \in Facts \ {"netns"} : ~Has(what, p)

CleanAt(prog, i) ==
    /\ context # <<>> => setup.internal
    /\ (setup.cleanup /\ setup.internal) \/ AllBound
    /\ \A j \in 1..Len(context) : Reached(chosen[context[j]])
    /\ \A c \in Clients : cmds[c] # <<>> =>
          /\ c[2] = "ssh"
          /\ \E k \in 1..i : /\ prog[k].do = "run" /\ prog[k].client = c
                             /\ \A m \in (k + 1)..i : prog[m] # Flush(c)
          /\ \A j \in 1..Len(cmds[c]) :
                cmds[c][j].op = "nsDel" /\ Ssh(chosen[cmds[c][j].on]) = c
    /\ \A p \in Lports : \A k \in 1..i :
          /\ prog[k] = Run(Vsctl(chosen[p]), "del", p) => OnlyNetns(p)
          /\ prog[k] = Run(Ssh(chosen[p]), "nsDel", p) =>
                ~Has("netns", p) \/ In(ALine("nsDel", p), cmds[Ssh(chosen[p])])

PhaseInv ==
    /\ phase \in {"choose", "start"} =>
          world = {} /\ NothingQueued /\ DirectSsh /\ context = <<>>
    /\ phase \in {"bind", "vm", "wait"} => Beside
    /\ phase = "bind" => BindAt(ProgramOf("bind"), At)
    /\ phase = "vm" => VmAt(ProgramOf("vm"), At)
    /\ phase = "wait" => WaitAt
    /\ phase = "cleanup" => CleanAt(ProgramOf("cleanup"), At)
    /\ phase = "returned" =>
          /\ (setup.cleanup /\ setup.internal) \/ AllBound
          /\ setup.cleanup => NothingLeft

IInv == TypeInv /\ OnTrack /\ AtHome /\ PhaseInv

-----------------------------------------------------------------------------
(* What the lines of a script do *)

\* f holds the worlds after the first 0, ..., n lines.
Succession(f, place, lines, w, n) ==
  /\ f = [i \in 0..n |-> f[i]]
  /\ \A i \in 0..n : f[i] = IF i = 0 THEN w ELSE After(lines[i], place, f[i - 1])

LEMMA SuccessionExists ==
  ASSUME NEW place, NEW lines, NEW w
  PROVE  \A n \in Nat : \E f : Succession(f, place, lines, w, n)
<1> DEFINE T == {n \in Nat : \E f : Succession(f, place, lines, w, n)}
<1>1. 0 \in T
  <2> DEFINE g == [i \in 0..0 |-> w]
  <2>1. Succession(g, place, lines, w, 0)
    BY DEF Succession
  <2> QED
    BY <2>1
<1>2. ASSUME NEW n \in Nat, n \in T
      PROVE  n + 1 \in T
  <2>1. PICK f : Succession(f, place, lines, w, n)
    BY <1>2
  <2> DEFINE last == After(lines[n + 1], place, f[n])
  <2> DEFINE g == [i \in 0..(n + 1) |-> IF i = n + 1 THEN last ELSE f[i]]
  <2>2. \A i \in 0..(n + 1) : g[i] = IF i = 0 THEN w ELSE After(lines[i], place, g[i - 1])
    <3> SUFFICES ASSUME NEW i \in 0..(n + 1)
                 PROVE  g[i] = IF i = 0 THEN w ELSE After(lines[i], place, g[i - 1])
      OBVIOUS
    <3>1. CASE i = n + 1
      <4>1. g[i] = last /\ i # 0 /\ g[i - 1] = f[n]
        BY <3>1
      <4> QED
        BY <3>1, <4>1
    <3>2. CASE i # n + 1
      <4>1. i \in 0..n /\ (i # 0 => i - 1 \in 0..n /\ i - 1 # n + 1)
        BY <3>2
      <4>2. f[i] = IF i = 0 THEN w ELSE After(lines[i], place, f[i - 1])
        BY <2>1, <4>1 DEF Succession
      <4>3. g[i] = f[i] /\ (i # 0 => g[i - 1] = f[i - 1])
        BY <3>2, <4>1
      <4> QED
        BY <4>2, <4>3
    <3> QED
      BY <3>1, <3>2
  <2>3. g = [i \in 0..(n + 1) |-> g[i]]
    OBVIOUS
  <2> HIDE DEF g
  <2>4. Succession(g, place, lines, w, n + 1)
    BY <2>2, <2>3 DEF Succession
  <2> QED
    BY <2>4
<1>3. Nat \subseteq T
  BY <1>1, <1>2, AllNumbers
<1> QED
  BY <1>3

\* Worlds is such a function.
LEMMA WorldsSucceed ==
  ASSUME NEW place, NEW lines, NEW w, Len(lines) \in Nat
  PROVE  /\ Worlds(place, lines, w)[0] = w
         /\ \A i \in 1..Len(lines) :
               Worlds(place, lines, w)[i] = After(lines[i], place, Worlds(place, lines, w)[i - 1])
<1> DEFINE Succeeds(f) == f = [i \in 0..Len(lines) |->
                          IF i = 0 THEN w ELSE After(lines[i], place, f[i - 1])]
<1>1. PICK f : Succession(f, place, lines, w, Len(lines))
  BY SuccessionExists
<1>2. Succeeds(f)
  BY <1>1 DEF Succession
<1>3. Succeeds(CHOOSE g : Succeeds(g))
  BY <1>2, Zenon
<1>4. Worlds(place, lines, w) = CHOOSE g : Succeeds(g)
  BY Zenon DEF Worlds
<1>5. Succeeds(Worlds(place, lines, w))
  BY <1>3, <1>4
<1> HIDE DEF Succeeds
<1>a. PICK ws : ws = Worlds(place, lines, w) /\ Succeeds(ws)
  BY <1>5
<1>6. \A i \in 0..Len(lines) : ws[i] = IF i = 0 THEN w ELSE After(lines[i], place, ws[i - 1])
  BY <1>a DEF Succeeds
<1>7. /\ ws[0] = w
      /\ \A i \in 1..Len(lines) : ws[i] = After(lines[i], place, ws[i - 1])
  BY <1>6
<1> QED
  BY <1>7, <1>a

\* A set of worlds that no line from the k-th leaves.
LEMMA WorldsStay ==
  ASSUME NEW place, NEW lines, NEW w, Len(lines) \in Nat,
         NEW T, NEW k \in 0..Len(lines), Worlds(place, lines, w)[k] \in T,
         \A i \in (k + 1)..Len(lines) : \A v \in T : After(lines[i], place, v) \in T
  PROVE  \A i \in k..Len(lines) : Worlds(place, lines, w)[i] \in T
<1>a. PICK ws : ws = Worlds(place, lines, w)
  OBVIOUS
<1> DEFINE R == {i \in Nat : i \in k..Len(lines) => ws[i] \in T}
<1>1. 0 \in R
  BY <1>a
<1>2. ASSUME NEW i \in Nat, i \in R
      PROVE  i + 1 \in R
  <2>1. SUFFICES ASSUME i + 1 \in k..Len(lines), i + 1 # k
                 PROVE  ws[i + 1] \in T
    BY <1>a
  <2>2. i \in k..Len(lines) /\ i + 1 \in 1..Len(lines) /\ i + 1 \in (k + 1)..Len(lines) /\ (i + 1) - 1 = i
    BY <2>1
  <2>3. ws[i + 1] = After(lines[i + 1], place, ws[i])
    BY <1>a, <2>2, WorldsSucceed
  <2> QED
    BY <1>2, <2>2, <2>3
<1>3. Nat \subseteq R
  BY <1>1, <1>2, AllNumbers
<1> QED
  BY <1>a, <1>3

\* A script of one line.
LEMMA OneLine ==
  ASSUME NEW place, NEW line, NEW w
  PROVE  Shell(place, <<line>>, w) = [w |-> After(line, place, w), ok |-> Works(line, place, w)]
<1>1. Len(<<line>>) = 1 /\ <<line>>[1] = line /\ Len(<<line>>) \in Nat
  OBVIOUS
<1>a. PICK lines : lines = <<line>>
  OBVIOUS
<1>2. Worlds(place, lines, w)[0] = w /\ Worlds(place, lines, w)[1] = After(line, place, Worlds(place, lines, w)[0])
  BY <1>1, <1>a, WorldsSucceed
<1>3. LineWorks(1, place, lines, w) = Works(line, place, w)
  BY <1>1, <1>2, <1>a DEF LineWorks
<1> QED
  BY <1>1, <1>2, <1>3, <1>a DEF Shell

\* What each command needs, adds and removes.
LEMMA Effects ==
  /\ Effect("add").adds = {"port"} /\ Effect("add").removes = {}
  /\ Effect("set").needs = {"port"} /\ Effect("set").adds = {"iface"} /\ Effect("set").removes = {}
  /\ Effect("del").needs = {"port"} /\ Effect("del").adds = {} /\ Effect("del").removes = Facts \ {"netns"}
  /\ Effect("ethtool").adds = {} /\ Effect("ethtool").removes = {}
  /\ Effect("nsAdd").adds = {"netns"} /\ Effect("nsAdd").removes = {}
  /\ Effect("moveIn").needs = {"port", "netns"} /\ Effect("moveIn").adds = {"link"}
  /\ Effect("moveIn").removes = {}
  /\ Effect("configure").needs = {"link"} /\ Effect("configure").adds = {"up"}
  /\ Effect("configure").removes = {}
  /\ Effect("ping").adds = {} /\ Effect("ping").removes = {}
  /\ Effect("nsDel").needs = {"netns"} /\ Effect("nsDel").adds = {} /\ Effect("nsDel").removes = {"netns"}
BY DEF Effect, Facts

LEMMA AfterFacts ==
  ASSUME NEW line, NEW place, NEW v, NEW fact, fact \in After(line, place, v)
  PROVE  \/ fact \in v
         \/ /\ Works(line, place, v)
            /\ \E what \in Effect(line.op).adds : fact = <<place, what, line.on>>
BY DEF After

LEMMA AddsFacts ==
  /\ \A op \in Ops : Effect(op).adds \subseteq Facts
  /\ \A op \in {"del", "nsDel", "ethtool", "ping"} : Effect(op).adds = {}
BY Effects DEF Ops, VmOps, Facts

\* What is added at home is at home.
LEMMA AfterAtHome ==
  ASSUME NEW line \in Lines, NEW place, NEW v, v \subseteq HomeFacts,
         line.op \in {"del", "nsDel", "ethtool", "ping"} \/ place = Home(chosen[line.on])
  PROVE  After(line, place, v) \subseteq HomeFacts
<1> SUFFICES ASSUME NEW fact \in After(line, place, v), fact \notin v
             PROVE  fact \in HomeFacts
  OBVIOUS
<1>1. PICK what \in Effect(line.op).adds : fact = <<place, what, line.on>>
  BY AfterFacts
<1>2. line.op \in Ops /\ line.on \in Lports
  BY DEF Lines
<1>3. what \in Facts /\ place = Home(chosen[line.on])
  BY <1>1, <1>2, AddsFacts
<1> QED
  BY <1>1, <1>2, <1>3 DEF HomeFacts

LEMMA KeepsAll ==
  ASSUME NEW line, NEW place, NEW v, Effect(line.op).removes = {}
  PROVE  v \subseteq After(line, place, v)
BY DEF After

LEMMA WorksAdds ==
  ASSUME NEW line, NEW place, NEW v, Works(line, place, v)
  PROVE  /\ \A what \in Effect(line.op).adds : <<place, what, line.on>> \in After(line, place, v)
         /\ \A what \in Effect(line.op).needs : <<place, what, line.on>> \in v
BY DEF After, Works

\* Ports added and set in one transaction: all of them, or an exception.
LEMMA TransactionDelivers ==
  ASSUME NEW lines \in Seq(Lines), NEW s, NEW w \in SUBSET HomeFacts,
         \A j \in 1..Len(lines) : lines[j].op \in {"add", "set"} /\ chosen[lines[j].on] = s,
         NEW r, r = Transaction(Home(s), lines, w)
  PROVE  /\ r.w \subseteq HomeFacts /\ w \subseteq r.w
         /\ \A fact \in r.w : fact \in w \/ fact[2] \in {"port", "iface"}
         /\ r.ok => \A j \in 1..Len(lines) : lines[j].op = "set" =>
                        /\ <<Home(s), "port", lines[j].on>> \in r.w
                        /\ <<Home(s), "iface", lines[j].on>> \in r.w
<1>a. PICK ws : ws = Worlds(Home(s), lines, w)
  OBVIOUS
<1> DEFINE n == Len(lines)
<1>1. n \in Nat /\ \A j \in 1..n : lines[j] \in Lines
  OBVIOUS
<1>2. ws[0] = w /\ \A i \in 1..n : ws[i] = After(lines[i], Home(s), ws[i - 1])
  BY <1>1, <1>a, WorldsSucceed
<1> DEFINE Above(u) == {v \in SUBSET HomeFacts : u \subseteq v
                          /\ \A fact \in v : fact \in w \/ fact[2] \in {"port", "iface"}}
<1>3. ASSUME NEW u, NEW i \in 1..n, NEW v \in Above(u)
      PROVE  After(lines[i], Home(s), v) \in Above(u)
  <2>1. lines[i] \in Lines /\ lines[i].op \in {"add", "set"} /\ chosen[lines[i].on] = s
    BY <1>1
  <2>2. After(lines[i], Home(s), v) \subseteq HomeFacts
    BY <2>1, AfterAtHome
  <2>3. Effect(lines[i].op).removes = {} /\ Effect(lines[i].op).adds \subseteq {"port", "iface"}
    BY <2>1, Effects
  <2>4. v \subseteq After(lines[i], Home(s), v)
    BY <2>3, KeepsAll
  <2>5. ASSUME NEW fact \in After(lines[i], Home(s), v), fact \notin v
        PROVE  fact[2] \in {"port", "iface"}
    BY <2>3, <2>5, AfterFacts
  <2> QED
    BY <2>2, <2>4, <2>5
<1> HIDE DEF Above
<1>4. ASSUME NEW k \in 0..n, NEW u, ws[k] \in Above(u)
      PROVE  \A i \in k..n : ws[i] \in Above(u)
  <2>2. \A i \in (k + 1)..n : \A v \in Above(u) : After(lines[i], Home(s), v) \in Above(u)
    BY <1>1, <1>3
  <2> QED
    BY <1>1, <1>4, <1>a, <2>2, WorldsStay
<1>5. ws[0] \in Above(w)
  BY <1>2 DEF Above
<1>6. \A i \in 0..n : ws[i] \in Above(w)
  BY <1>1, <1>4, <1>5
<1>b. \A i \in 0..n : ws[i] \in Above(ws[i])
  BY <1>6 DEF Above
<1>7. ws[n] \in Above(w)
  BY <1>1, <1>6
<1>8. CASE \A i \in 1..n : LineWorks(i, Home(s), lines, w)
  <2>1. r.w = ws[n]
    BY <1>8, <1>a DEF Transaction
  <2>2. ASSUME NEW j \in 1..n, lines[j].op = "set"
        PROVE  /\ <<Home(s), "port", lines[j].on>> \in ws[n]
               /\ <<Home(s), "iface", lines[j].on>> \in ws[n]
    <3>1. Works(lines[j], Home(s), ws[j - 1])
      BY <1>8, <1>a DEF LineWorks
    <3>2. /\ <<Home(s), "port", lines[j].on>> \in ws[j - 1]
          /\ <<Home(s), "iface", lines[j].on>> \in After(lines[j], Home(s), ws[j - 1])
      BY <2>2, <3>1, WorksAdds, Effects
    <3>3. j - 1 \in 0..n /\ j \in 0..n /\ n \in (j - 1)..n /\ n \in j..n
      BY <1>1
    <3>4. ws[n] \in Above(ws[j - 1]) /\ ws[n] \in Above(ws[j])
      BY <1>4, <1>b, <3>3
    <3>5. ws[j] = After(lines[j], Home(s), ws[j - 1])
      BY <1>2
    <3> QED
      BY <3>2, <3>4, <3>5 DEF Above
  <2> QED
    BY <1>7, <2>1, <2>2 DEF Above
<1>9. CASE ~ \A i \in 1..n : LineWorks(i, Home(s), lines, w)
  <2>1. r.w = w /\ r.ok = FALSE
    BY <1>9 DEF Transaction
  <2> QED
    BY <2>1
<1> QED
  BY <1>8, <1>9

\* Namespaces deleted by a script: none is left, whatever its status.
LEMMA ShellSweeps ==
  ASSUME NEW lines \in Seq(Lines), NEW place, NEW w,
         \A j \in 1..Len(lines) : lines[j].op = "nsDel"
  PROVE  /\ Shell(place, lines, w).w \subseteq w
         /\ \A j \in 1..Len(lines) : <<place, "netns", lines[j].on>> \notin Shell(place, lines, w).w
<1>a. PICK ws : ws = Worlds(place, lines, w)
  OBVIOUS
<1> DEFINE n == Len(lines)
<1>1. n \in Nat
  OBVIOUS
<1>2. ws[0] = w /\ \A i \in 1..n : ws[i] = After(lines[i], place, ws[i - 1])
  BY <1>1, <1>a, WorldsSucceed
<1> DEFINE Below(u) == {v \in SUBSET w : v \cap u = {}}
<1>3. ASSUME NEW i \in 1..n, NEW v
      PROVE  /\ After(lines[i], place, v) \subseteq v
             /\ <<place, "netns", lines[i].on>> \notin After(lines[i], place, v)
  <2>1. /\ Effect(lines[i].op).adds = {} /\ Effect(lines[i].op).needs = {"netns"}
        /\ Effect(lines[i].op).removes = {"netns"} /\ lines[i].op # "nsAdd"
    BY Effects
  <2>2. Works(lines[i], place, v) <=> <<place, "netns", lines[i].on>> \in v
    BY <2>1 DEF Works
  <2> QED
    BY <2>1, <2>2 DEF After
<1>b. \A u : \A i \in 1..n : \A v \in Below(u) : After(lines[i], place, v) \in Below(u)
  BY <1>3
<1> HIDE DEF Below
<1>4. ASSUME NEW k \in 0..n, NEW u, ws[k] \in Below(u)
      PROVE  \A i \in k..n : ws[i] \in Below(u)
  <2>1. \A i \in (k + 1)..n : \A v \in Below(u) : After(lines[i], place, v) \in Below(u)
    <3>1. \A i \in (k + 1)..n : i \in 1..n
      BY <1>1
    <3> QED
      BY <3>1, <1>b
  <2> QED
    BY <1>1, <1>4, <1>a, <2>1, WorldsStay
<1>5. Shell(place, lines, w).w = ws[n]
  BY <1>a DEF Shell
<1>c. ws[0] \in Below({})
  BY <1>2 DEF Below
<1>6. \A i \in 0..n : ws[i] \in Below({})
  BY <1>1, <1>c, <1>4
<1>7. ASSUME NEW j \in 1..n
      PROVE  <<place, "netns", lines[j].on>> \notin ws[n]
  <2>1. ws[j] = After(lines[j], place, ws[j - 1]) /\ j \in 0..n
    BY <1>1, <1>2
  <2>2. <<place, "netns", lines[j].on>> \notin ws[j]
    BY <1>3, <2>1
  <2>3. ws[j] \subseteq w
    BY <1>6, <2>1 DEF Below
  <2>4. ws[j] \in Below({<<place, "netns", lines[j].on>>})
    BY <2>2, <2>3 DEF Below
  <2>5. n \in j..n
    BY <1>1
  <2>6. ws[n] \in Below({<<place, "netns", lines[j].on>>})
    BY <1>4, <2>1, <2>4, <2>5
  <2> QED
    BY <2>6 DEF Below
<1>8. ws[n] \subseteq w
  BY <1>1, <1>6 DEF Below
<1> QED
  BY <1>5, <1>7, <1>8

-----------------------------------------------------------------------------
(* The programs *)

Constants ==
  /\ setup \in SetupType /\ ports \in Nat \ {0} /\ chosen \in [Lports -> Sandboxes]
  /\ NumSandboxes \in Nat \ {0} /\ FarmOf \in [Sandboxes -> Farms]

LEMMA ConstantsHold ==
  ASSUME TypeInv, phase # "choose"
  PROVE  Constants
BY FarmAssumption DEF TypeInv, Constants, FarmAssumption

LEMMA ClientsTyped ==
  ASSUME Constants, NEW s \in Sandboxes
  PROVE  /\ FarmOf[s] \in Farms /\ Vsctl(s) \in Clients /\ Ssh(s) \in Clients
         /\ Vsctl(s)[1] = FarmOf[s] /\ Vsctl(s)[2] = "vsctl"
         /\ Ssh(s)[1] = FarmOf[s] /\ Ssh(s)[2] = "ssh"
BY DEF Constants, Vsctl, Ssh, Clients

LEMMA CallsTyped ==
  ASSUME Constants, NEW s \in Sandboxes, NEW p \in Lports, NEW c \in {Vsctl(s), Ssh(s)}
  PROVE  /\ SetSandbox(c, s) \in CallSet /\ SetSandbox(c, Nowhere) \in CallSet
         /\ BatchMode(c, TRUE) \in CallSet /\ BatchMode(c, FALSE) \in CallSet
         /\ Flush(c) \in CallSet /\ Call("store", c, "", p) \in CallSet
         /\ Call("start", c, "", p) \in CallSet /\ Call("ping", c, "ping", p) \in CallSet
         /\ \A op \in Ops : Run(c, op, p) \in CallSet
<1>1. c \in Clients
  BY ClientsTyped
<1>2. "ping" \in Ops
  BY DEF Ops
<1> QED
  BY <1>1, <1>2 DEF CallSet, SetSandbox, BatchMode, Flush, Run, Call

\* A program with one part for each port.
LEMMA PortParts ==
  ASSUME Constants, NEW f \in [Lports -> Seq(CallSet)]
  PROVE  f \in Seq(Seq(CallSet)) /\ Len(f) = ports
BY DEF Constants, Lports

PartsOf(s) == [p \in Lports |-> IF chosen[p] = s THEN AddPort(s, p) ELSE <<>>]
Adds(s) == EachPortOf(s, LAMBDA p : AddPort(s, p))

\* What _bind_ovs_port queues for a sandbox: all its ports.
LEMMA AddsOf ==
  ASSUME Constants, NEW s \in Sandboxes
  PROVE  /\ Adds(s) \in Seq(CallSet)
         /\ \A j \in 1..Len(Adds(s)) : \E p \in Lports, op \in {"add", "set"} :
               Adds(s)[j] = Run(Vsctl(s), op, p) /\ chosen[p] = s
         /\ \A p \in Lports : chosen[p] = s => In(Run(Vsctl(s), "set", p), Adds(s))
<1>1. Adds(s) = FlattenSeq(PartsOf(s))
  BY DEF Adds, EachPortOf, EachPort, PartsOf
<1>2. ASSUME NEW p \in Lports
      PROVE  /\ AddPort(s, p) \in Seq(CallSet) /\ Len(AddPort(s, p)) = 2
             /\ AddPort(s, p)[1] = Run(Vsctl(s), "add", p)
             /\ AddPort(s, p)[2] = Run(Vsctl(s), "set", p)
  <2>1. Run(Vsctl(s), "add", p) \in CallSet /\ Run(Vsctl(s), "set", p) \in CallSet
    BY CallsTyped DEF Ops
  <2> QED
    BY <2>1 DEF AddPort
<1>3. PartsOf(s) \in [Lports -> Seq(CallSet)]
  <2>1. <<>> \in Seq(CallSet)
    OBVIOUS
  <2> QED
    BY <1>2, <2>1 DEF PartsOf
<1>4. PartsOf(s) \in Seq(Seq(CallSet)) /\ Len(PartsOf(s)) = ports
  BY <1>3, PortParts
<1>5. Adds(s) \in Seq(CallSet)
  BY <1>1, <1>4, FlattenTyped
<1>6. ASSUME NEW j \in 1..Len(Adds(s))
      PROVE  \E p \in Lports, op \in {"add", "set"} :
                Adds(s)[j] = Run(Vsctl(s), op, p) /\ chosen[p] = s
  <2>1. PICK n \in 1..ports : \E d \in Nat :
           BlockAt(PartsOf(s), n, d) /\ j - d \in 1..Len(PartsOf(s)[n])
    BY <1>1, <1>4, FlattenWhere
  <2>2. PICK d \in Nat : BlockAt(PartsOf(s), n, d) /\ j - d \in 1..Len(PartsOf(s)[n])
    BY <2>1
  <2>3. n \in Lports /\ PartsOf(s)[n] = IF chosen[n] = s THEN AddPort(s, n) ELSE <<>>
    BY <2>1 DEF PartsOf, Lports
  <2>4. chosen[n] = s /\ j - d \in 1..2
    <3>1. Len(<<>>) = 0 /\ 1..0 = {}
      OBVIOUS
    <3>2. chosen[n] = s
      BY <2>2, <2>3, <3>1
    <3>3. Len(PartsOf(s)[n]) = 2
      BY <1>2, <2>3, <3>2
    <3> QED
      BY <2>2, <3>2, <3>3
  <2>5. Adds(s)[d + (j - d)] = PartsOf(s)[n][j - d]
    BY <1>1, <2>2 DEF BlockAt
  <2>6. d + (j - d) = j
    BY <1>5, <2>2
  <2> QED
    BY <1>2, <2>3, <2>4, <2>5, <2>6
<1>7. ASSUME NEW p \in Lports, chosen[p] = s
      PROVE  In(Run(Vsctl(s), "set", p), Adds(s))
  <2>1. p \in 1..Len(PartsOf(s)) /\ PartsOf(s)[p] = AddPort(s, p)
    BY <1>4, <1>7 DEF PartsOf, Lports
  <2>2. In(Run(Vsctl(s), "set", p), PartsOf(s)[p])
    <3>1. 2 \in 1..Len(AddPort(s, p)) /\ AddPort(s, p)[2] = Run(Vsctl(s), "set", p)
      BY <1>2
    <3> QED
      BY <2>1, <3>1 DEF In
  <2> QED
    BY <1>1, <1>4, <2>1, <2>2, InFlatten
<1> QED
  BY <1>5, <1>6, <1>7

\* The program of _bind_ovs_port: what is run for a sandbox stands between its
\* set_sandbox() with enable_batch_mode(), and the flush() of its client.
BindShape(prog, n) ==
  /\ \A j \in 1..n :
        \/ prog[j].do = "set" /\ \E s \in Sandboxes : prog[j] = SetSandbox(Vsctl(s), s)
        \/ prog[j].do \in {"batch", "direct", "flush"} /\ prog[j].client[2] = "vsctl"
        \/ \E p \in Lports, op \in {"add", "set"} : prog[j] = Run(Vsctl(chosen[p]), op, p)
  /\ \A j \in 1..n : prog[j].do = "run" =>
        /\ \E k \in 1..(j - 2) :
              /\ prog[k] = SetSandbox(prog[j].client, chosen[prog[j].on])
              /\ prog[k + 1] = BatchMode(prog[j].client, TRUE)
              /\ \A m \in (k + 2)..(j - 1) : prog[m].do = "run"
        /\ \E k \in (j + 1)..n :
              /\ prog[k] = Flush(prog[j].client)
              /\ \A m \in (j + 1)..(k - 1) : prog[m].do = "run"

LEMMA BindBlock ==
  ASSUME Constants, NEW s \in Sandboxes
  PROVE  /\ BindOvsPort(s) \in Seq(CallSet)
         /\ BindShape(BindOvsPort(s), Len(BindOvsPort(s)))
         /\ \A p \in Lports : chosen[p] = s => In(Run(Vsctl(s), "set", p), BindOvsPort(s))
<1> DEFINE c == Vsctl(s)
<1>1. /\ Adds(s) \in Seq(CallSet)
      /\ \A j \in 1..Len(Adds(s)) : \E p \in Lports, op \in {"add", "set"} :
            Adds(s)[j] = Run(c, op, p) /\ chosen[p] = s
      /\ \A p \in Lports : chosen[p] = s => In(Run(c, "set", p), Adds(s))
  BY AddsOf
<1>2. /\ SetSandbox(c, s) \in CallSet /\ BatchMode(c, TRUE) \in CallSet
      /\ Flush(c) \in CallSet /\ BatchMode(c, FALSE) \in CallSet
  <2>1. \E p : p \in Lports
    BY DEF Constants, Lports
  <2> QED
    BY <2>1, CallsTyped
<1>3. BindOvsPort(s) = <<SetSandbox(c, s), BatchMode(c, TRUE)>> \o Adds(s)
                       \o <<Flush(c), BatchMode(c, FALSE)>>
  BY DEF BindOvsPort, AddPorts, Adds
<1>a. PICK R \in Seq(CallSet) : R = Adds(s)
  BY <1>1
<1>b. PICK first \in CallSet : first = SetSandbox(c, s)
  BY <1>2
<1>c. PICK second \in CallSet : second = BatchMode(c, TRUE)
  BY <1>2
<1>d. PICK third \in CallSet : third = Flush(c)
  BY <1>2
<1>e. PICK fourth \in CallSet : fourth = BatchMode(c, FALSE)
  BY <1>2
<1>f. PICK B : B = <<first, second>> \o R \o <<third, fourth>>
  OBVIOUS
<1>4. /\ B \in Seq(CallSet) /\ Len(R) \in Nat /\ Len(B) = Len(R) + 4
      /\ B[1] = first /\ B[2] = second /\ B[Len(R) + 3] = third /\ B[Len(R) + 4] = fourth
      /\ \A j \in 1..Len(R) : B[j + 2] = R[j]
  BY <1>f
<1>5. \A j \in 3..(Len(R) + 2) : B[j] = R[j - 2] /\ j - 2 \in 1..Len(R)
  BY <1>4
<1>6. ASSUME NEW j \in 3..(Len(R) + 2)
      PROVE  /\ \E p \in Lports, op \in {"add", "set"} : B[j] = Run(Vsctl(chosen[p]), op, p)
             /\ B[j].do = "run" /\ B[j].client = c /\ chosen[B[j].on] = s
  <2>1. PICK p \in Lports, op \in {"add", "set"} : B[j] = Run(c, op, p) /\ chosen[p] = s
    BY <1>1, <1>5, <1>a
  <2> QED
    BY <2>1 DEF Run, Call
<1>7. /\ first.do = "set" /\ second.do = "batch" /\ third.do = "flush" /\ fourth.do = "direct"
      /\ second.client = c /\ third.client = c /\ fourth.client = c
  BY <1>b, <1>c, <1>d, <1>e DEF SetSandbox, BatchMode, Flush, Call
<1>8. c[2] = "vsctl"
  BY ClientsTyped
<1>9. ASSUME NEW j \in 1..Len(B)
      PROVE  j = 1 \/ j = 2 \/ j \in 3..(Len(R) + 2) \/ j = Len(R) + 3 \/ j = Len(R) + 4
  BY <1>4
<1>10. ASSUME NEW j \in 1..Len(B)
       PROVE  \/ B[j].do = "set" /\ \E t \in Sandboxes : B[j] = SetSandbox(Vsctl(t), t)
              \/ B[j].do \in {"batch", "direct", "flush"} /\ B[j].client[2] = "vsctl"
              \/ \E p \in Lports, op \in {"add", "set"} : B[j] = Run(Vsctl(chosen[p]), op, p)
  BY <1>4, <1>6, <1>7, <1>8, <1>9, <1>b
<1>11. ASSUME NEW j \in 1..Len(B), B[j].do = "run"
       PROVE  /\ \E k \in 1..(j - 2) :
                    /\ B[k] = SetSandbox(B[j].client, chosen[B[j].on])
                    /\ B[k + 1] = BatchMode(B[j].client, TRUE)
                    /\ \A m \in (k + 2)..(j - 1) : B[m].do = "run"
              /\ \E k \in (j + 1)..Len(B) :
                    /\ B[k] = Flush(B[j].client)
                    /\ \A m \in (j + 1)..(k - 1) : B[m].do = "run"
  <2>1. j \in 3..(Len(R) + 2)
    BY <1>4, <1>7, <1>9, <1>11
  <2>2. B[j].client = c /\ chosen[B[j].on] = s
    BY <1>6, <2>1
  <2>3. \A m \in 3..(Len(R) + 2) : B[m].do = "run"
    BY <1>6
  <2>4. /\ B[1] = SetSandbox(B[j].client, chosen[B[j].on])
        /\ B[1 + 1] = BatchMode(B[j].client, TRUE)
        /\ 1 \in 1..(j - 2) /\ \A m \in (1 + 2)..(j - 1) : B[m].do = "run"
    <3>1. B[1] = SetSandbox(B[j].client, chosen[B[j].on]) /\ B[1 + 1] = BatchMode(B[j].client, TRUE)
      <4>1. B[1] = SetSandbox(c, s) /\ B[2] = BatchMode(c, TRUE)
        BY <1>4, <1>b, <1>c, Zenon
      <4>2. 1 + 1 = 2
        OBVIOUS
      <4> QED
        BY <2>2, <4>1, <4>2, Zenon
    <3>2. 1 \in 1..(j - 2) /\ \A m \in (1 + 2)..(j - 1) : m \in 3..(Len(R) + 2)
      BY <1>4, <2>1
    <3> QED
      BY <2>3, <3>1, <3>2
  <2>5. /\ B[Len(R) + 3] = Flush(B[j].client) /\ Len(R) + 3 \in (j + 1)..Len(B)
        /\ \A m \in (j + 1)..((Len(R) + 3) - 1) : B[m].do = "run"
    BY <1>4, <1>d, <2>1, <2>2, <2>3
  <2> QED
    BY <2>4, <2>5
<1>12. BindShape(B, Len(B))
  BY <1>10, <1>11 DEF BindShape
<1>13. ASSUME NEW p \in Lports, chosen[p] = s
       PROVE  In(Run(c, "set", p), B)
  <2>1. PICK j \in 1..Len(R) : R[j] = Run(c, "set", p)
    BY <1>1, <1>13, <1>a DEF In
  <2>2. j + 2 \in 1..Len(B) /\ B[j + 2] = Run(c, "set", p)
    BY <1>4, <2>1
  <2> QED
    BY <2>2 DEF In
<1>14. BindOvsPort(s) = B
  BY <1>3, <1>a, <1>b, <1>c, <1>d, <1>e, <1>f
<1> QED
  BY <1>4, <1>12, <1>13, <1>14

\* The calls for one sandbox after those for another.
LEMMA BindShapes ==
  ASSUME NEW seqs \in Seq(Seq(CallSet)), NEW prog, prog = FlattenSeq(seqs),
         \A n \in 1..Len(seqs) : BindShape(seqs[n], Len(seqs[n]))
  PROVE  BindShape(prog, Len(prog))
<1>1. prog \in Seq(CallSet) /\ Len(prog) \in Nat
  <2>1. prog \in Seq(CallSet)
    BY FlattenTyped
  <2> QED
    BY <2>1
<1>2. ASSUME NEW j \in 1..Len(prog)
      PROVE  \E b \in Seq(CallSet), d \in Nat :
                /\ BindShape(b, Len(b)) /\ j - d \in 1..Len(b) /\ d + Len(b) <= Len(prog)
                /\ \A m \in 1..Len(b) : prog[d + m] = b[m]
  <2>1. PICK n \in 1..Len(seqs) : \E d \in Nat : BlockAt(seqs, n, d) /\ j - d \in 1..Len(seqs[n])
    BY FlattenWhere
  <2>2. PICK d \in Nat : BlockAt(seqs, n, d) /\ j - d \in 1..Len(seqs[n])
    BY <2>1
  <2>3. seqs[n] \in Seq(CallSet)
    OBVIOUS
  <2> QED
    BY <2>2, <2>3 DEF BlockAt
<1>3. ASSUME NEW j \in 1..Len(prog)
      PROVE  /\ \/ prog[j].do = "set" /\ \E s \in Sandboxes : prog[j] = SetSandbox(Vsctl(s), s)
                \/ prog[j].do \in {"batch", "direct", "flush"} /\ prog[j].client[2] = "vsctl"
                \/ \E p \in Lports, op \in {"add", "set"} : prog[j] = Run(Vsctl(chosen[p]), op, p)
             /\ prog[j].do = "run" =>
                  /\ \E k \in 1..(j - 2) :
                        /\ prog[k] = SetSandbox(prog[j].client, chosen[prog[j].on])
                        /\ prog[k + 1] = BatchMode(prog[j].client, TRUE)
                        /\ \A m \in (k + 2)..(j - 1) : prog[m].do = "run"
                  /\ \E k \in (j + 1)..Len(prog) :
                        /\ prog[k] = Flush(prog[j].client)
                        /\ \A m \in (j + 1)..(k - 1) : prog[m].do = "run"
  <2>1. PICK b \in Seq(CallSet), d \in Nat :
                /\ BindShape(b, Len(b)) /\ j - d \in 1..Len(b) /\ d + Len(b) <= Len(prog)
                /\ \A m \in 1..Len(b) : prog[d + m] = b[m]
    BY <1>2
  <2>2. PICK i \in 1..Len(b) : i = j - d
    BY <2>1
  <2>3. Len(b) \in Nat /\ d + i = j /\ prog[j] = b[i]
    <3>1. d + i = j /\ Len(b) \in Nat
      BY <2>2
    <3>2. prog[d + i] = b[i]
      BY <2>1
    <3> QED
      BY <3>1, <3>2
  <2>4. \/ prog[j].do = "set" /\ \E s \in Sandboxes : prog[j] = SetSandbox(Vsctl(s), s)
        \/ prog[j].do \in {"batch", "direct", "flush"} /\ prog[j].client[2] = "vsctl"
        \/ \E p \in Lports, op \in {"add", "set"} : prog[j] = Run(Vsctl(chosen[p]), op, p)
    BY <2>1, <2>3 DEF BindShape
  <2>5. SUFFICES ASSUME prog[j].do = "run"
                 PROVE  /\ \E k \in 1..(j - 2) :
                              /\ prog[k] = SetSandbox(prog[j].client, chosen[prog[j].on])
                              /\ prog[k + 1] = BatchMode(prog[j].client, TRUE)
                              /\ \A m \in (k + 2)..(j - 1) : prog[m].do = "run"
                        /\ \E k \in (j + 1)..Len(prog) :
                              /\ prog[k] = Flush(prog[j].client)
                              /\ \A m \in (j + 1)..(k - 1) : prog[m].do = "run"
    BY <2>4
  <2>6. PICK k \in 1..(i - 2) :
           /\ b[k] = SetSandbox(b[i].client, chosen[b[i].on])
           /\ b[k + 1] = BatchMode(b[i].client, TRUE)
           /\ \A m \in (k + 2)..(i - 1) : b[m].do = "run"
    BY <2>1, <2>3, <2>5 DEF BindShape
  <2>7. PICK f \in (i + 1)..Len(b) :
           /\ b[f] = Flush(b[i].client)
           /\ \A m \in (i + 1)..(f - 1) : b[m].do = "run"
    BY <2>1, <2>3, <2>5 DEF BindShape
  <2>a. /\ j \in Nat /\ i \in Nat /\ d \in Nat /\ k \in Nat /\ f \in Nat
        /\ Len(b) \in Nat /\ Len(prog) \in Nat
        /\ i = j - d /\ 1 <= i /\ i <= Len(b) /\ d + Len(b) <= Len(prog)
        /\ 1 <= k /\ k <= i - 2 /\ i + 1 <= f /\ f <= Len(b)
    BY <1>1, <2>1, <2>2, <2>3, <2>6, <2>7
  <2>8. /\ d + k \in 1..(j - 2) /\ prog[d + k] = b[k] /\ prog[(d + k) + 1] = b[k + 1]
        /\ \A m \in ((d + k) + 2)..(j - 1) : prog[m].do = "run"
    <3>1. d + k \in 1..(j - 2) /\ k \in 1..Len(b) /\ k + 1 \in 1..Len(b) /\ (d + k) + 1 = d + (k + 1)
      BY <2>a
    <3>2. ASSUME NEW m \in ((d + k) + 2)..(j - 1)
          PROVE  prog[m].do = "run"
      <4>1. m - d \in (k + 2)..(i - 1) /\ m - d \in 1..Len(b) /\ d + (m - d) = m
        BY <2>a
      <4>2. prog[d + (m - d)] = b[m - d]
        BY <2>1, <4>1
      <4> QED
        BY <2>6, <4>1, <4>2
    <3> QED
      BY <2>1, <3>1, <3>2
  <2>9. /\ d + f \in (j + 1)..Len(prog) /\ prog[d + f] = b[f]
        /\ \A m \in (j + 1)..((d + f) - 1) : prog[m].do = "run"
    <3>1. d + f \in (j + 1)..Len(prog) /\ f \in 1..Len(b)
      BY <2>a
    <3>2. ASSUME NEW m \in (j + 1)..((d + f) - 1)
          PROVE  prog[m].do = "run"
      <4>1. m - d \in (i + 1)..(f - 1) /\ m - d \in 1..Len(b) /\ d + (m - d) = m
        BY <2>a
      <4>2. prog[d + (m - d)] = b[m - d]
        BY <2>1, <4>1
      <4> QED
        BY <2>7, <4>1, <4>2
    <3> QED
      BY <2>1, <3>1, <3>2
  <2> QED
    BY <2>3, <2>6, <2>7, <2>8, <2>9
<1> QED
  BY <1>3 DEF BindShape

\* Every sandbox with a port has a first one.
LEMMA FirstPort ==
  ASSUME Constants, NEW p \in Lports
  PROVE  \E q \in Lports : FirstOfSandbox(q) /\ chosen[q] = chosen[p]
<1> DEFINE T == {q \in Lports : chosen[q] = chosen[p]}
<1>1. T \subseteq Nat /\ T # {}
  BY DEF Lports, Constants
<1>2. PICK q \in T : \A r \in T : q <= r
  BY <1>1, LeastNumber
<1>3. ASSUME NEW r \in 1..(q - 1)
      PROVE  chosen[r] # chosen[q]
  <2>1. r \in Lports /\ ~(q <= r)
    BY DEF Lports, Constants
  <2> QED
    BY <1>2, <2>1
<1> QED
  BY <1>2, <1>3 DEF FirstOfSandbox

BindParts == [p \in Lports |-> IF FirstOfSandbox(p) THEN BindOvsPort(chosen[p]) ELSE <<>>]

LEMMA BindProgram ==
  ASSUME Constants, NEW prog, prog = ProgramOf("bind")
  PROVE  /\ prog \in Seq(CallSet) /\ BindShape(prog, Len(prog))
         /\ \A p \in Lports : In(SetCall(p), prog)
<1>1. prog = FlattenSeq(BindParts)
  BY DEF ProgramOf, EachUsedSandbox, EachPort, BindParts
<1>2. <<>> \in Seq(CallSet) /\ BindShape(<<>>, Len(<<>>))
  BY DEF BindShape
<1>3. \A p \in Lports : chosen[p] \in Sandboxes
  BY DEF Constants
<1>4. BindParts \in [Lports -> Seq(CallSet)]
  BY <1>2, <1>3, BindBlock DEF BindParts
<1>5. BindParts \in Seq(Seq(CallSet)) /\ Len(BindParts) = ports
  BY <1>4, PortParts
<1>6. \A n \in 1..Len(BindParts) : BindShape(BindParts[n], Len(BindParts[n]))
  <2>1. \A n \in Lports : BindParts[n] = IF FirstOfSandbox(n) THEN BindOvsPort(chosen[n]) ELSE <<>>
    BY DEF BindParts
  <2>2. \A n \in Lports : BindShape(BindParts[n], Len(BindParts[n]))
    BY <1>2, <1>3, <2>1, BindBlock
  <2> QED
    BY <1>5, <2>2 DEF Lports
<1>7. prog \in Seq(CallSet)
  BY <1>1, <1>5, FlattenTyped
<1>8. BindShape(prog, Len(prog))
  BY <1>1, <1>5, <1>6, BindShapes
<1>9. ASSUME NEW p \in Lports
      PROVE  In(SetCall(p), prog)
  <2>1. PICK q \in Lports : FirstOfSandbox(q) /\ chosen[q] = chosen[p]
    BY FirstPort
  <2>2. In(SetCall(p), BindOvsPort(chosen[q]))
    BY <1>3, <2>1, BindBlock DEF SetCall
  <2>3. q \in 1..Len(BindParts) /\ BindParts[q] = BindOvsPort(chosen[q])
    BY <1>5, <2>1 DEF BindParts, Lports
  <2> QED
    BY <1>1, <1>5, <2>2, <2>3, InFlatten
<1> QED
  BY <1>7, <1>8, <1>9

\* The program of _bind_ovs_internal_vm: a port is stored when its last
\* command, and the flush() after it, have gone well.
VmCall(call) ==
  \/ call.do = "set" /\ call.on \in Sandboxes
  \/ call.do = "flush"
  \/ \E p \in Lports, op \in VmOps : call = Run(Ssh(chosen[p]), op, p)
  \/ \E p \in Lports : call = StorePort(p)

VmShape(prog, n) ==
  /\ \A j \in 1..n : VmCall(prog[j])
  /\ \A j \in 1..n : prog[j].do = "store" =>
        /\ j >= 3 /\ prog[j - 1].do = "flush"
        /\ prog[j - 2] = Run(Ssh(chosen[prog[j].on]), "configure", prog[j].on)

LEMMA VmShapes ==
  ASSUME NEW seqs \in Seq(Seq(CallSet)), NEW prog, prog = FlattenSeq(seqs),
         \A n \in 1..Len(seqs) : VmShape(seqs[n], Len(seqs[n]))
  PROVE  VmShape(prog, Len(prog))
<1>1. prog \in Seq(CallSet) /\ Len(prog) \in Nat
  <2>1. prog \in Seq(CallSet)
    BY FlattenTyped
  <2> QED
    BY <2>1
<1>2. ASSUME NEW j \in 1..Len(prog)
      PROVE  /\ VmCall(prog[j])
             /\ prog[j].do = "store" =>
                  /\ j >= 3 /\ prog[j - 1].do = "flush"
                  /\ prog[j - 2] = Run(Ssh(chosen[prog[j].on]), "configure", prog[j].on)
  <2>1. PICK n \in 1..Len(seqs) : \E d \in Nat : BlockAt(seqs, n, d) /\ j - d \in 1..Len(seqs[n])
    BY FlattenWhere
  <2>2. PICK d \in Nat : BlockAt(seqs, n, d) /\ j - d \in 1..Len(seqs[n])
    BY <2>1
  <2>3. PICK b \in Seq(CallSet) : b = seqs[n]
    OBVIOUS
  <2>4. VmShape(b, Len(b)) /\ \A m \in 1..Len(b) : prog[d + m] = b[m]
    BY <2>2, <2>3 DEF BlockAt
  <2>5. PICK i \in Nat : i = j - d /\ i \in 1..Len(b) /\ Len(b) \in Nat /\ d + i = j
    BY <2>2, <2>3
  <2>6. prog[j] = b[i]
    BY <2>4, <2>5
  <2>7. ASSUME prog[j].do = "store"
        PROVE  /\ j >= 3 /\ prog[j - 1].do = "flush"
               /\ prog[j - 2] = Run(Ssh(chosen[prog[j].on]), "configure", prog[j].on)
    <3>1. /\ i >= 3 /\ b[i - 1].do = "flush"
          /\ b[i - 2] = Run(Ssh(chosen[b[i].on]), "configure", b[i].on)
      BY <2>4, <2>5, <2>6, <2>7 DEF VmShape
    <3>2. /\ j >= 3 /\ i - 1 \in 1..Len(b) /\ i - 2 \in 1..Len(b)
          /\ d + (i - 1) = j - 1 /\ d + (i - 2) = j - 2
      BY <2>5, <3>1
    <3>3. prog[j - 1] = b[i - 1] /\ prog[j - 2] = b[i - 2]
      <4>1. prog[d + (i - 1)] = b[i - 1] /\ prog[d + (i - 2)] = b[i - 2]
        BY <2>4, <3>2
      <4> QED
        BY <3>2, <4>1
    <3> QED
      BY <2>6, <3>1, <3>2, <3>3
  <2>8. VmCall(prog[j])
    BY <2>4, <2>5, <2>6 DEF VmShape
  <2> QED
    BY <2>7, <2>8
<1> QED
  BY <1>2 DEF VmShape

Vm(p) == InternalVm(chosen[p], p) \o <<StorePort(p)>>
Configure(p) == Run(Ssh(chosen[p]), "configure", p)

\* The calls for one port.
LEMMA VmOfPort ==
  ASSUME Constants, NEW p \in Lports
  PROVE  Vm(p) \in Seq(CallSet) /\ VmShape(Vm(p), Len(Vm(p))) /\ In(Configure(p), Vm(p))
<1> DEFINE s == chosen[p]
<1> DEFINE c == Ssh(s)
<1>1. s \in Sandboxes
  BY DEF Constants
<1>2. /\ \A op \in VmOps : Run(c, op, p) \in CallSet
      /\ Flush(c) \in CallSet /\ StorePort(p) \in CallSet
  BY <1>1, CallsTyped DEF StorePort, Ops
<1>a. PICK l1 \in CallSet : l1 = Run(c, "ethtool", p)
  BY <1>2 DEF VmOps
<1>b. PICK l2 \in CallSet : l2 = Run(c, "nsAdd", p)
  BY <1>2 DEF VmOps
<1>c. PICK l3 \in CallSet : l3 = Run(c, "moveIn", p)
  BY <1>2 DEF VmOps
<1>d. PICK l4 \in CallSet : l4 = Run(c, "configure", p)
  BY <1>2 DEF VmOps
<1>e. PICK l5 \in CallSet : l5 = Flush(c)
  BY <1>2
<1>f. PICK l6 \in CallSet : l6 = StorePort(p)
  BY <1>2
<1>3. Vm(p) = (IF FarmOf[s] \in setup.containers THEN <<>> ELSE <<l1>>) \o <<l2, l3, l4, l5>> \o <<l6>>
  BY <1>a, <1>b, <1>c, <1>d, <1>e, <1>f DEF Vm, InternalVm
<1>4. VmCall(l1) /\ VmCall(l2) /\ VmCall(l3) /\ VmCall(l4)
  BY <1>a, <1>b, <1>c, <1>d DEF VmCall, VmOps
<1>5. VmCall(l5) /\ l5.do = "flush"
  BY <1>e DEF VmCall, Flush, Call
<1>6. VmCall(l6) /\ l6.do = "store" /\ l6.on = p
  BY <1>f DEF VmCall, StorePort, Call
<1>7. l1.do = "run" /\ l2.do = "run" /\ l3.do = "run" /\ l4.do = "run"
  BY <1>a, <1>b, <1>c, <1>d DEF Run, Call
<1>8. l4 = Run(Ssh(chosen[l6.on]), "configure", l6.on) /\ l4 = Configure(p)
  BY <1>6, <1>d DEF Configure
<1>9. CASE FarmOf[s] \in setup.containers
  <2>1. PICK b : b = <<>> \o <<l2, l3, l4, l5>> \o <<l6>>
    OBVIOUS
  <2>2. Vm(p) = b
    BY <1>3, <1>9, <2>1
  <2>3. /\ b \in Seq(CallSet) /\ Len(b) = 5
        /\ b[1] = l2 /\ b[2] = l3 /\ b[3] = l4 /\ b[4] = l5 /\ b[5] = l6
    BY <2>1
  <2>4. \A j \in 1..5 : j = 1 \/ j = 2 \/ j = 3 \/ j = 4 \/ j = 5
    OBVIOUS
  <2>5. \A j \in 1..5 : VmCall(b[j])
    BY <1>4, <1>5, <1>6, <2>3, <2>4
  <2>6. \A j \in 1..5 : b[j].do = "store" => j = 5
    BY <1>5, <1>6, <1>7, <2>3, <2>4
  <2>7. 5 - 1 = 4 /\ 5 - 2 = 3 /\ 5 >= 3 /\ 3 \in 1..5
    OBVIOUS
  <2>8. VmShape(b, Len(b))
    BY <1>5, <1>8, <2>3, <2>5, <2>6, <2>7 DEF VmShape
  <2>9. In(Configure(p), b)
    BY <1>8, <2>3, <2>7 DEF In
  <2> QED
    BY <2>2, <2>3, <2>8, <2>9
<1>10. CASE FarmOf[s] \notin setup.containers
  <2>1. PICK b : b = <<l1>> \o <<l2, l3, l4, l5>> \o <<l6>>
    OBVIOUS
  <2>2. Vm(p) = b
    BY <1>3, <1>10, <2>1
  <2>3. /\ b \in Seq(CallSet) /\ Len(b) = 6
        /\ b[1] = l1 /\ b[2] = l2 /\ b[3] = l3 /\ b[4] = l4 /\ b[5] = l5 /\ b[6] = l6
    BY <2>1
  <2>4. \A j \in 1..6 : j = 1 \/ j = 2 \/ j = 3 \/ j = 4 \/ j = 5 \/ j = 6
    OBVIOUS
  <2>5. \A j \in 1..6 : VmCall(b[j])
    BY <1>4, <1>5, <1>6, <2>3, <2>4
  <2>6. \A j \in 1..6 : b[j].do = "store" => j = 6
    BY <1>5, <1>6, <1>7, <2>3, <2>4
  <2>7. 6 - 1 = 5 /\ 6 - 2 = 4 /\ 6 >= 3 /\ 4 \in 1..6
    OBVIOUS
  <2>8. VmShape(b, Len(b))
    BY <1>5, <1>8, <2>3, <2>5, <2>6, <2>7 DEF VmShape
  <2>9. In(Configure(p), b)
    BY <1>8, <2>3, <2>7 DEF In
  <2> QED
    BY <2>2, <2>3, <2>8, <2>9
<1> QED
  BY <1>9, <1>10

VmPartsOf(s) == [p \in Lports |-> IF chosen[p] = s THEN Vm(p) ELSE <<>>]

\* The calls for one sandbox.
LEMMA VmOfSandbox ==
  ASSUME Constants, NEW s \in Sandboxes
  PROVE  /\ BindInternalVm(s) \in Seq(CallSet)
         /\ VmShape(BindInternalVm(s), Len(BindInternalVm(s)))
         /\ \A p \in Lports : chosen[p] = s => In(Configure(p), BindInternalVm(s))
<1> DEFINE R == FlattenSeq(VmPartsOf(s))
<1> DEFINE first == <<SetSandbox(Ssh(s), s)>>
<1>1. BindInternalVm(s) = first \o R
  <2>1. \A p \in Lports : (IF chosen[p] = s THEN InternalVm(s, p) \o <<StorePort(p)>> ELSE <<>>)
                          = IF chosen[p] = s THEN Vm(p) ELSE <<>>
    BY DEF Vm
  <2>2. EachPortOf(s, LAMBDA p : InternalVm(s, p) \o <<StorePort(p)>>)
          = FlattenSeq([p \in Lports |-> IF chosen[p] = s THEN InternalVm(s, p) \o <<StorePort(p)>> ELSE <<>>])
    BY DEF EachPortOf, EachPort
  <2>3. [p \in Lports |-> IF chosen[p] = s THEN InternalVm(s, p) \o <<StorePort(p)>> ELSE <<>>] = VmPartsOf(s)
    BY <2>1 DEF VmPartsOf
  <2> QED
    BY <2>2, <2>3 DEF BindInternalVm
<1>2. <<>> \in Seq(CallSet) /\ VmShape(<<>>, Len(<<>>))
  BY DEF VmShape
<1>3. VmPartsOf(s) \in [Lports -> Seq(CallSet)]
  BY <1>2, VmOfPort DEF VmPartsOf
<1>4. VmPartsOf(s) \in Seq(Seq(CallSet)) /\ Len(VmPartsOf(s)) = ports
  BY <1>3, PortParts
<1>5. \A n \in 1..Len(VmPartsOf(s)) : VmShape(VmPartsOf(s)[n], Len(VmPartsOf(s)[n]))
  <2>1. \A n \in Lports : VmPartsOf(s)[n] = IF chosen[n] = s THEN Vm(n) ELSE <<>>
    BY DEF VmPartsOf
  <2>2. \A n \in Lports : VmShape(VmPartsOf(s)[n], Len(VmPartsOf(s)[n]))
    BY <1>2, <2>1, VmOfPort
  <2> QED
    BY <1>4, <2>2 DEF Lports
<1>6. R \in Seq(CallSet) /\ VmShape(R, Len(R))
  BY <1>4, <1>5, FlattenTyped, VmShapes
<1>7. first \in Seq(CallSet) /\ VmShape(first, Len(first))
  <2>1. PICK call \in CallSet : call = SetSandbox(Ssh(s), s)
    <3>1. \E p : p \in Lports
      BY DEF Constants, Lports
    <3> QED
      BY <3>1, CallsTyped
  <2>2. call.do = "set" /\ call.on = s /\ VmCall(call)
    BY <2>1 DEF SetSandbox, Call, VmCall
  <2>3. PICK b : b = <<call>>
    OBVIOUS
  <2>4. b \in Seq(CallSet) /\ Len(b) = 1 /\ b[1] = call /\ \A j \in 1..1 : j = 1
    BY <2>3
  <2>5. VmShape(b, Len(b))
    BY <2>2, <2>4 DEF VmShape
  <2> QED
    BY <2>1, <2>3, <2>4, <2>5
<1>8. ASSUME NEW p \in Lports, chosen[p] = s
      PROVE  In(Configure(p), R)
  <2>1. p \in 1..Len(VmPartsOf(s)) /\ VmPartsOf(s)[p] = Vm(p)
    BY <1>4, <1>8 DEF VmPartsOf, Lports
  <2>2. In(Configure(p), Vm(p))
    BY VmOfPort
  <2> QED
    BY <1>4, <2>1, <2>2, InFlatten
<1> HIDE DEF R, first
<1>9. PICK two \in Seq(Seq(CallSet)) :
         Len(two) = 2 /\ two[1] = first /\ two[2] = R /\ FlattenSeq(two) = first \o R
  <2>1. PICK two \in Seq(Seq(CallSet)) : Len(two) = 2 /\ two[1] = first /\ two[2] = R
    BY <1>6, <1>7, AppendTwo
  <2>2. FlattenSeq(two) = two[1] \o two[2]
    BY <2>1, FlattenTwo
  <2> QED
    BY <2>1, <2>2
<1>10. first \o R \in Seq(CallSet)
  BY <1>6, <1>7, ConcatAt
<1>11. VmShape(first \o R, Len(first \o R))
  <2>1. \A n \in 1..2 : n = 1 \/ n = 2
    OBVIOUS
  <2>2. \A n \in 1..Len(two) : VmShape(two[n], Len(two[n]))
    BY <1>6, <1>7, <1>9, <2>1
  <2> QED
    BY <1>9, <2>2, VmShapes
<1>12. \A p \in Lports : chosen[p] = s => In(Configure(p), first \o R)
  BY <1>6, <1>7, <1>8, InConcat
<1> QED
  BY <1>1, <1>10, <1>11, <1>12

VmParts == [p \in Lports |-> IF FirstOfSandbox(p) THEN BindInternalVm(chosen[p]) ELSE <<>>]

LEMMA VmProgram ==
  ASSUME Constants, NEW prog, prog = ProgramOf("vm")
  PROVE  /\ prog \in Seq(CallSet) /\ VmShape(prog, Len(prog))
         /\ \E j \in 1..Len(prog) : prog[j].do = "run"
<1>1. prog = FlattenSeq(VmParts)
  BY DEF ProgramOf, EachUsedSandbox, EachPort, VmParts
<1>2. <<>> \in Seq(CallSet) /\ VmShape(<<>>, Len(<<>>))
  BY DEF VmShape
<1>3. \A p \in Lports : chosen[p] \in Sandboxes
  BY DEF Constants
<1>4. VmParts \in [Lports -> Seq(CallSet)]
  BY <1>2, <1>3, VmOfSandbox DEF VmParts
<1>5. VmParts \in Seq(Seq(CallSet)) /\ Len(VmParts) = ports
  BY <1>4, PortParts
<1>6. \A n \in 1..Len(VmParts) : VmShape(VmParts[n], Len(VmParts[n]))
  <2>1. \A n \in Lports : VmParts[n] = IF FirstOfSandbox(n) THEN BindInternalVm(chosen[n]) ELSE <<>>
    BY DEF VmParts
  <2>2. \A n \in Lports : VmShape(VmParts[n], Len(VmParts[n]))
    BY <1>2, <1>3, <2>1, VmOfSandbox
  <2> QED
    BY <1>5, <2>2 DEF Lports
<1>7. prog \in Seq(CallSet)
  BY <1>1, <1>5, FlattenTyped
<1>8. VmShape(prog, Len(prog))
  BY <1>1, <1>5, <1>6, VmShapes
<1>9. \E j \in 1..Len(prog) : prog[j].do = "run"
  <2>1. PICK p : p \in Lports
    BY DEF Constants, Lports
  <2>2. PICK q \in Lports : FirstOfSandbox(q) /\ chosen[q] = chosen[p]
    BY <2>1, FirstPort
  <2>3. In(Configure(q), BindInternalVm(chosen[q]))
    BY <1>3, VmOfSandbox
  <2>4. q \in 1..Len(VmParts) /\ VmParts[q] = BindInternalVm(chosen[q])
    BY <1>5, <2>2 DEF VmParts, Lports
  <2>5. In(Configure(q), prog)
    BY <1>1, <1>5, <2>3, <2>4, InFlatten
  <2> QED
    BY <2>5 DEF In, Configure, Run, Call
<1> QED
  BY <1>7, <1>8, <1>9

\* The program of _wait_up_port_ping.
WaitCall(call) ==
  \/ call.do = "set" /\ call.on = Nowhere
  \/ call.do \in {"direct", "start"}
  \/ \E p \in Lports : call = Call("ping", Ssh(chosen[p]), "ping", p)

WaitParts == [p \in Lports |-> PingPort(p)]

LEMMA WaitProgram ==
  ASSUME Constants, NEW prog, prog = ProgramOf("wait")
  PROVE  prog \in Seq(CallSet) /\ \A j \in 1..Len(prog) : WaitCall(prog[j])
<1>1. prog = FlattenSeq(WaitParts)
  BY DEF ProgramOf, EachPort, WaitParts
<1>2. ASSUME NEW p \in Lports
      PROVE  PingPort(p) \in Seq(CallSet) /\ \A j \in 1..Len(PingPort(p)) : WaitCall(PingPort(p)[j])
  <2> DEFINE c == Ssh(chosen[p])
  <2>1. chosen[p] \in Sandboxes
    BY DEF Constants
  <2>2. /\ SetSandbox(c, Nowhere) \in CallSet /\ BatchMode(c, FALSE) \in CallSet
        /\ Call("start", c, "", p) \in CallSet /\ Call("ping", c, "ping", p) \in CallSet
    BY <2>1, CallsTyped
  <2>3. /\ WaitCall(SetSandbox(c, Nowhere)) /\ WaitCall(BatchMode(c, FALSE))
        /\ WaitCall(Call("start", c, "", p)) /\ WaitCall(Call("ping", c, "ping", p))
    BY DEF WaitCall, SetSandbox, BatchMode, Call
  <2>4. PingPort(p) = <<SetSandbox(c, Nowhere), BatchMode(c, FALSE), Call("start", c, "", p),
                        Call("ping", c, "ping", p)>>
    BY DEF PingPort
  <2>5. PICK l1 \in CallSet : l1 = SetSandbox(c, Nowhere)
    BY <2>2
  <2>6. PICK l2 \in CallSet : l2 = BatchMode(c, FALSE)
    BY <2>2
  <2>7. PICK l3 \in CallSet : l3 = Call("start", c, "", p)
    BY <2>2
  <2>8. PICK l4 \in CallSet : l4 = Call("ping", c, "ping", p)
    BY <2>2
  <2>9. PingPort(p) = <<l1, l2, l3, l4>>
    BY <2>4, <2>5, <2>6, <2>7, <2>8
  <2>10. WaitCall(l1) /\ WaitCall(l2) /\ WaitCall(l3) /\ WaitCall(l4)
    BY <2>3, <2>5, <2>6, <2>7, <2>8
  <2> HIDE DEF c
  <2> QED
    BY <2>9, <2>10
<1>3. WaitParts \in [Lports -> Seq(CallSet)]
  BY <1>2 DEF WaitParts
<1>4. WaitParts \in Seq(Seq(CallSet)) /\ Len(WaitParts) = ports
  BY <1>3, PortParts
<1>5. ASSUME NEW j \in 1..Len(prog)
      PROVE  WaitCall(prog[j])
  <2>1. In(prog[j], prog)
    BY DEF In
  <2>2. PICK n \in 1..ports : In(prog[j], WaitParts[n])
    BY <1>1, <1>4, <2>1, InFlatten
  <2>3. n \in Lports /\ WaitParts[n] = PingPort(n)
    BY DEF WaitParts, Lports
  <2> QED
    BY <1>2, <2>2, <2>3 DEF In
<1> QED
  BY <1>1, <1>4, <1>5, FlattenTyped

\* The program of _cleanup_ovs_internal_ports.
CleanCall(call) ==
  \/ call.do = "set" /\ call.on \in Sandboxes \cup {Nowhere}
  \/ call.do \in {"batch", "flush"}
  \/ \E i \in 1..Len(context) :
        \/ call = Run(Vsctl(chosen[context[i]]), "del", context[i])
        \/ call = Run(Ssh(chosen[context[i]]), "nsDel", context[i])

CleanShape(prog, n) ==
  /\ \A j \in 1..n : CleanCall(prog[j])
  /\ \A j \in 1..n : prog[j].do = "run" /\ prog[j].client[2] = "ssh" =>
        \E k \in (j + 1)..n : prog[k] = Flush(prog[j].client)

Opening == EachSandbox(LAMBDA s :
             <<SetSandbox(Ssh(s), s), BatchMode(Ssh(s), TRUE),
               SetSandbox(Vsctl(s), Nowhere), BatchMode(Vsctl(s), TRUE)>>)
OpeningParts == [s \in Sandboxes |->
             <<SetSandbox(Ssh(s), s), BatchMode(Ssh(s), TRUE),
               SetSandbox(Vsctl(s), Nowhere), BatchMode(Vsctl(s), TRUE)>>]
DeletingParts == [i \in 1..Len(context) |-> DeleteInternalVm(context[i])]
FlushingParts == [s \in Sandboxes |-> FlushBoth(s)]

LEMMA SandboxParts ==
  ASSUME Constants, NEW f \in [Sandboxes -> Seq(CallSet)]
  PROVE  f \in Seq(Seq(CallSet)) /\ Len(f) = NumSandboxes
BY DEF Constants, Sandboxes

LEMMA OpeningCalls ==
  ASSUME Constants
  PROVE  /\ Opening \in Seq(CallSet)
         /\ \A j \in 1..Len(Opening) : CleanCall(Opening[j]) /\ Opening[j].do # "run"
<1>1. Opening = FlattenSeq(OpeningParts)
  BY DEF Opening, EachSandbox, OpeningParts
<1>2. ASSUME NEW s \in Sandboxes
      PROVE  /\ OpeningParts[s] \in Seq(CallSet)
             /\ \A j \in 1..Len(OpeningParts[s]) :
                   CleanCall(OpeningParts[s][j]) /\ OpeningParts[s][j].do # "run"
  <2>1. PICK a : a = SetSandbox(Ssh(s), s)
    OBVIOUS
  <2>2. PICK b : b = BatchMode(Ssh(s), TRUE)
    OBVIOUS
  <2>3. PICK c : c = SetSandbox(Vsctl(s), Nowhere)
    OBVIOUS
  <2>4. PICK d : d = BatchMode(Vsctl(s), TRUE)
    OBVIOUS
  <2>5. OpeningParts[s] = <<a, b, c, d>>
    BY <2>1, <2>2, <2>3, <2>4 DEF OpeningParts
  <2>6. a \in CallSet /\ b \in CallSet /\ c \in CallSet /\ d \in CallSet
    <3>1. \E p : p \in Lports
      BY DEF Constants, Lports
    <3> QED
      BY <2>1, <2>2, <2>3, <2>4, <3>1, CallsTyped
  <2>7. /\ CleanCall(a) /\ CleanCall(b) /\ CleanCall(c) /\ CleanCall(d)
        /\ a.do # "run" /\ b.do # "run" /\ c.do # "run" /\ d.do # "run"
    BY <2>1, <2>2, <2>3, <2>4 DEF CleanCall, SetSandbox, BatchMode, Call
  <2> QED
    BY <2>5, <2>6, <2>7
<1>3. OpeningParts \in [Sandboxes -> Seq(CallSet)]
  BY <1>2 DEF OpeningParts
<1>4. OpeningParts \in Seq(Seq(CallSet)) /\ Len(OpeningParts) = NumSandboxes
  BY <1>3, SandboxParts
<1>5. ASSUME NEW j \in 1..Len(Opening)
      PROVE  CleanCall(Opening[j]) /\ Opening[j].do # "run"
  <2>1. In(Opening[j], Opening)
    BY DEF In
  <2>2. PICK n \in 1..NumSandboxes : In(Opening[j], OpeningParts[n])
    BY <1>1, <1>4, <2>1, InFlatten
  <2> QED
    BY <1>2, <2>2 DEF In, Sandboxes
<1> QED
  BY <1>1, <1>4, <1>5, FlattenTyped

LEMMA DeletingCalls ==
  ASSUME Constants, context \in Seq(Lports), NEW calls, calls = FlattenSeq(DeletingParts)
  PROVE  /\ calls \in Seq(CallSet)
         /\ \A j \in 1..Len(calls) : CleanCall(calls[j])
         /\ \A i \in 1..Len(context) :
               /\ In(Run(Vsctl(chosen[context[i]]), "del", context[i]), calls)
               /\ In(Run(Ssh(chosen[context[i]]), "nsDel", context[i]), calls)
<1>1. Len(context) \in Nat /\ \A i \in 1..Len(context) : context[i] \in Lports
  OBVIOUS
<1>2. ASSUME NEW i \in 1..Len(context)
      PROVE  /\ DeletingParts[i] \in Seq(CallSet)
             /\ \A j \in 1..Len(DeletingParts[i]) : CleanCall(DeletingParts[i][j])
             /\ In(Run(Vsctl(chosen[context[i]]), "del", context[i]), DeletingParts[i])
             /\ In(Run(Ssh(chosen[context[i]]), "nsDel", context[i]), DeletingParts[i])
  <2>1. PICK a : a = Run(Vsctl(chosen[context[i]]), "del", context[i])
    OBVIOUS
  <2>2. PICK b : b = Run(Ssh(chosen[context[i]]), "nsDel", context[i])
    OBVIOUS
  <2>3. DeletingParts[i] = <<a, b>>
    BY <2>1, <2>2 DEF DeletingParts, DeleteInternalVm
  <2>4. a \in CallSet /\ b \in CallSet
    <3>1. chosen[context[i]] \in Sandboxes
      BY <1>1 DEF Constants
    <3>2. "del" \in Ops /\ "nsDel" \in Ops
      BY DEF Ops
    <3> QED
      BY <1>1, <2>1, <2>2, <3>1, <3>2, CallsTyped
  <2>5. CleanCall(a) /\ CleanCall(b)
    BY <2>1, <2>2 DEF CleanCall
  <2>6. /\ <<a, b>> \in Seq(CallSet) /\ Len(<<a, b>>) = 2 /\ <<a, b>>[1] = a /\ <<a, b>>[2] = b
        /\ 1 \in 1..2 /\ 2 \in 1..2 /\ \A j \in 1..2 : j = 1 \/ j = 2
    BY <2>4
  <2>7. In(a, <<a, b>>) /\ In(b, <<a, b>>)
    BY <2>6 DEF In
  <2> QED
    BY <2>1, <2>2, <2>3, <2>5, <2>6, <2>7
<1>3. DeletingParts \in [1..Len(context) -> Seq(CallSet)]
  BY <1>2 DEF DeletingParts
<1>4. DeletingParts \in Seq(Seq(CallSet)) /\ Len(DeletingParts) = Len(context)
  BY <1>1, <1>3
<1>5. ASSUME NEW j \in 1..Len(calls)
      PROVE  CleanCall(calls[j])
  <2>1. In(calls[j], calls)
    BY DEF In
  <2>2. PICK n \in 1..Len(context) : In(calls[j], DeletingParts[n])
    BY <1>4, <2>1, InFlatten
  <2> QED
    BY <1>2, <2>2 DEF In
<1>6. \A i \in 1..Len(context) :
         /\ In(Run(Vsctl(chosen[context[i]]), "del", context[i]), calls)
         /\ In(Run(Ssh(chosen[context[i]]), "nsDel", context[i]), calls)
  BY <1>2, <1>4, InFlatten
<1> QED
  BY <1>4, <1>5, <1>6, FlattenTyped

LEMMA FlushingCalls ==
  ASSUME Constants, NEW calls, calls = FlattenSeq(FlushingParts)
  PROVE  /\ calls \in Seq(CallSet)
         /\ \A j \in 1..Len(calls) : calls[j].do = "flush"
         /\ \A s \in Sandboxes : In(Flush(Ssh(s)), calls)
<1>1. ASSUME NEW s \in Sandboxes
      PROVE  /\ FlushingParts[s] \in Seq(CallSet)
             /\ \A j \in 1..Len(FlushingParts[s]) : FlushingParts[s][j].do = "flush"
             /\ In(Flush(Ssh(s)), FlushingParts[s])
  <2>1. PICK a : a = Flush(Vsctl(s))
    OBVIOUS
  <2>2. PICK b : b = Flush(Ssh(s))
    OBVIOUS
  <2>3. FlushingParts[s] = <<a, b>>
    BY <2>1, <2>2 DEF FlushingParts, FlushBoth
  <2>4. a \in CallSet /\ b \in CallSet
    <3>1. \E p : p \in Lports
      BY DEF Constants, Lports
    <3> QED
      BY <2>1, <2>2, <3>1, CallsTyped
  <2>5. a.do = "flush" /\ b.do = "flush"
    BY <2>1, <2>2 DEF Flush, Call
  <2>6. /\ <<a, b>> \in Seq(CallSet) /\ Len(<<a, b>>) = 2 /\ <<a, b>>[1] = a /\ <<a, b>>[2] = b
        /\ 2 \in 1..2 /\ \A j \in 1..2 : j = 1 \/ j = 2
    BY <2>4
  <2>7. In(b, <<a, b>>)
    BY <2>6 DEF In
  <2> QED
    BY <2>1, <2>2, <2>3, <2>5, <2>6, <2>7
<1>2. FlushingParts \in [Sandboxes -> Seq(CallSet)]
  BY <1>1 DEF FlushingParts
<1>3. FlushingParts \in Seq(Seq(CallSet)) /\ Len(FlushingParts) = NumSandboxes
  BY <1>2, SandboxParts
<1>4. ASSUME NEW j \in 1..Len(calls)
      PROVE  calls[j].do = "flush"
  <2>1. In(calls[j], calls)
    BY DEF In
  <2>2. PICK n \in 1..NumSandboxes : In(calls[j], FlushingParts[n])
    BY <1>3, <2>1, InFlatten
  <2> QED
    BY <1>1, <2>2 DEF In, Sandboxes
<1>5. ASSUME NEW s \in Sandboxes
      PROVE  In(Flush(Ssh(s)), calls)
  <2>1. s \in 1..Len(FlushingParts)
    BY <1>3 DEF Sandboxes
  <2> QED
    BY <1>1, <1>3, <2>1, InFlatten
<1> QED
  BY <1>3, <1>4, <1>5, FlattenTyped

LEMMA CleanProgram ==
  ASSUME Constants, context \in Seq(Lports), NEW prog, prog = ProgramOf("cleanup")
  PROVE  /\ prog \in Seq(CallSet) /\ CleanShape(prog, Len(prog))
         /\ ~setup.cleanup => prog = <<>>
         /\ setup.cleanup => \A i \in 1..Len(context) :
               /\ In(Run(Vsctl(chosen[context[i]]), "del", context[i]), prog)
               /\ In(Run(Ssh(chosen[context[i]]), "nsDel", context[i]), prog)
<1>1. prog = IF setup.cleanup THEN CleanupInternalPorts ELSE <<>>
  BY DEF ProgramOf
<1>2. CASE ~setup.cleanup
  <2>1. prog = <<>>
    BY <1>1, <1>2
  <2>2. <<>> \in Seq(CallSet) /\ CleanShape(<<>>, Len(<<>>))
    BY DEF CleanShape
  <2> QED
    BY <1>2, <2>1, <2>2
<1>3. CASE setup.cleanup
  <2>1. PICK A \in Seq(CallSet) : A = Opening
    BY OpeningCalls
  <2>2. PICK B \in Seq(CallSet) : B = FlattenSeq(DeletingParts)
    BY DeletingCalls
  <2>3. PICK F \in Seq(CallSet) : F = FlattenSeq(FlushingParts)
    BY FlushingCalls
  <2>4. prog = (A \o B) \o F
    <3>1. EachStored(DeleteInternalVm) = FlattenSeq(DeletingParts)
      BY DEF EachStored, DeletingParts
    <3>2. EachSandbox(FlushBoth) = FlattenSeq(FlushingParts)
      BY DEF EachSandbox, FlushingParts
    <3> QED
      BY <1>1, <1>3, <2>1, <2>2, <2>3, <3>1, <3>2 DEF CleanupInternalPorts, Opening
  <2>5. \A j \in 1..Len(A) : CleanCall(A[j]) /\ A[j].do # "run"
    BY <2>1, OpeningCalls
  <2>6. /\ \A j \in 1..Len(B) : CleanCall(B[j])
        /\ \A i \in 1..Len(context) :
              /\ In(Run(Vsctl(chosen[context[i]]), "del", context[i]), B)
              /\ In(Run(Ssh(chosen[context[i]]), "nsDel", context[i]), B)
    BY <2>2, DeletingCalls
  <2>7. /\ \A j \in 1..Len(F) : F[j].do = "flush"
        /\ \A s \in Sandboxes : In(Flush(Ssh(s)), F)
    BY <2>3, FlushingCalls
  <2>8. PICK D \in Seq(CallSet) : D = A \o B
    BY ConcatAt
  <2>a. prog = D \o F
    BY <2>4, <2>8
  <2>9. /\ Len(A) \in Nat /\ Len(B) \in Nat /\ Len(D) = Len(A) + Len(B)
        /\ \A m \in 1..Len(A) : D[m] = A[m]
        /\ \A m \in 1..Len(B) : D[Len(A) + m] = B[m]
    BY <2>8, ConcatAt
  <2>10. \A j \in 1..Len(D) : CleanCall(D[j])
    <3> SUFFICES ASSUME NEW j \in 1..Len(D) PROVE CleanCall(D[j])
      OBVIOUS
    <3>1. CASE j \in 1..Len(A)
      BY <2>5, <2>9, <3>1
    <3>2. CASE j \notin 1..Len(A)
      <4>1. j - Len(A) \in 1..Len(B) /\ Len(A) + (j - Len(A)) = j
        BY <2>9, <3>2
      <4>2. D[Len(A) + (j - Len(A))] = B[j - Len(A)]
        BY <2>9, <4>1
      <4> QED
        BY <2>6, <4>1, <4>2
    <3> QED
      BY <3>1, <3>2
  <2>11. /\ prog \in Seq(CallSet) /\ Len(D) \in Nat /\ Len(F) \in Nat
         /\ Len(prog) = Len(D) + Len(F)
         /\ \A m \in 1..Len(D) : prog[m] = D[m]
         /\ \A m \in 1..Len(F) : prog[Len(D) + m] = F[m]
    <3>1. /\ D \o F \in Seq(CallSet) /\ Len(D) \in Nat /\ Len(F) \in Nat
          /\ Len(D \o F) = Len(D) + Len(F)
          /\ \A m \in 1..Len(D) : (D \o F)[m] = D[m]
          /\ \A m \in 1..Len(F) : (D \o F)[Len(D) + m] = F[m]
      BY ConcatAt
    <3> QED
      BY <2>a, <3>1, Zenon
  <2>12. \A j \in 1..Len(prog) :
           \/ j \in 1..Len(D) /\ prog[j] = D[j]
           \/ j - Len(D) \in 1..Len(F) /\ prog[j].do = "flush"
    <3> SUFFICES ASSUME NEW j \in 1..Len(prog), j \notin 1..Len(D)
                 PROVE  j - Len(D) \in 1..Len(F) /\ prog[j].do = "flush"
      BY <2>11
    <3>1. j - Len(D) \in 1..Len(F) /\ Len(D) + (j - Len(D)) = j
      BY <2>11
    <3>2. prog[Len(D) + (j - Len(D))] = F[j - Len(D)]
      BY <2>11, <3>1
    <3> QED
      BY <2>7, <3>1, <3>2
  <2>13. \A j \in 1..Len(prog) : CleanCall(prog[j])
    BY <2>10, <2>12 DEF CleanCall
  <2>14. ASSUME NEW j \in 1..Len(prog), prog[j].do = "run", prog[j].client[2] = "ssh"
         PROVE  \E k \in (j + 1)..Len(prog) : prog[k] = Flush(prog[j].client)
    <3>1. j \in 1..Len(D)
      BY <2>12, <2>14
    <3>2. PICK i \in 1..Len(context) :
             \/ prog[j] = Run(Vsctl(chosen[context[i]]), "del", context[i])
             \/ prog[j] = Run(Ssh(chosen[context[i]]), "nsDel", context[i])
      BY <2>13, <2>14 DEF CleanCall
    <3>3. chosen[context[i]] \in Sandboxes
      BY DEF Constants
    <3>4. prog[j].client = Ssh(chosen[context[i]])
      <4>1. /\ Run(Vsctl(chosen[context[i]]), "del", context[i]).client = Vsctl(chosen[context[i]])
            /\ Run(Ssh(chosen[context[i]]), "nsDel", context[i]).client = Ssh(chosen[context[i]])
        BY DEF Run, Call
      <4>2. Vsctl(chosen[context[i]])[2] # "ssh"
        BY DEF Vsctl
      <4> QED
        BY <2>14, <3>2, <4>1, <4>2
    <3>5. PICK m \in 1..Len(F) : F[m] = Flush(Ssh(chosen[context[i]]))
      BY <2>7, <3>3 DEF In
    <3>6. Len(D) + m \in (j + 1)..Len(prog) /\ prog[Len(D) + m] = F[m]
      BY <2>11, <3>1
    <3> QED
      BY <3>4, <3>5, <3>6
  <2>15. CleanShape(prog, Len(prog))
    BY <2>13, <2>14 DEF CleanShape
  <2>16. \A e : In(e, B) => In(e, prog)
    <3>1. \A e : In(e, B) => In(e, A \o B)
      BY InConcat
    <3>2. \A e : In(e, D) => In(e, D \o F)
      BY InConcat
    <3> QED
      BY <2>8, <2>a, <3>1, <3>2
  <2> QED
    BY <1>3, <2>6, <2>11, <2>15, <2>16
<1> QED
  BY <1>2, <1>3

-----------------------------------------------------------------------------
(* Position *)

LEMMA ProgramSame ==
  ASSUME NEW ph \in Running, UNCHANGED <<setup, ports, chosen>>,
         ph = "cleanup" => UNCHANGED context
  PROVE  ProgramOf(ph)' = ProgramOf(ph)
<1> USE DEF SetSandbox, BatchMode, Run, Flush, Call, Vsctl, Ssh, EachPort, EachPortOf, Lports
<1>1. CASE ph = "bind"
  <2>1. EachUsedSandbox(BindOvsPort)' = EachUsedSandbox(BindOvsPort)
    BY DEF EachUsedSandbox, FirstOfSandbox, BindOvsPort, AddPorts, AddPort
  <2> QED
    BY <1>1, <2>1 DEF ProgramOf
<1>2. CASE ph = "vm"
  <2>1. EachUsedSandbox(BindInternalVm)' = EachUsedSandbox(BindInternalVm)
    BY DEF EachUsedSandbox, FirstOfSandbox, BindInternalVm, InternalVm, StorePort
  <2> QED
    BY <1>2, <2>1 DEF ProgramOf
<1>3. CASE ph = "wait"
  <2>1. EachPort(PingPort)' = EachPort(PingPort)
    BY DEF PingPort
  <2> QED
    BY <1>3, <2>1 DEF ProgramOf
<1>4. CASE ph = "cleanup"
  <2>1. CleanupInternalPorts' = CleanupInternalPorts
    BY <1>4 DEF CleanupInternalPorts, EachSandbox, EachStored, DeleteInternalVm, FlushBoth
  <2> QED
    BY <1>4, <2>1 DEF ProgramOf
<1> QED
  BY <1>1, <1>2, <1>3, <1>4 DEF Running

LEMMA ProgramTyped ==
  ASSUME TypeInv, phase \in Running
  PROVE  /\ Constants /\ ProgramOf(phase) \in Seq(CallSet)
         /\ Len(ProgramOf(phase)) \in Nat /\ Len(todo) \in Nat
<1>1. phase # "choose" /\ context \in Seq(Lports) /\ todo \in Seq(CallSet)
  BY DEF TypeInv, Running
<1>2. Constants
  BY <1>1, ConstantsHold
<1>3. ProgramOf(phase) \in Seq(CallSet)
  <2>1. ProgramOf("bind") \in Seq(CallSet)
    BY <1>2, BindProgram
  <2>2. ProgramOf("vm") \in Seq(CallSet)
    BY <1>2, VmProgram
  <2>3. ProgramOf("wait") \in Seq(CallSet)
    BY <1>2, WaitProgram
  <2>4. ProgramOf("cleanup") \in Seq(CallSet)
    BY <1>1, <1>2, CleanProgram
  <2> QED
    BY <2>1, <2>2, <2>3, <2>4 DEF Running
<1> QED
  BY <1>1, <1>2, <1>3

\* A call is the next of the program, and leaves the iteration one further.
LEMMA Advance ==
  ASSUME TypeInv, OnTrack, phase \in Running, todo # <<>>, Continue,
         UNCHANGED <<setup, ports, chosen>>, phase = "cleanup" => UNCHANGED context,
         NEW prog, prog = ProgramOf(phase), NEW i, i = At
  PROVE  /\ i \in Nat /\ i + 1 \in 1..Len(prog) /\ Len(prog) \in Nat
         /\ Head(todo) = prog[i + 1] /\ Head(todo) \in CallSet
         /\ todo' \in Seq(CallSet) /\ phase' = phase
         /\ prog' = prog /\ ProgramOf(phase)' = prog /\ At' = i + 1 /\ OnTrack'
<1>1. /\ prog \in Seq(CallSet) /\ Len(prog) \in Nat /\ Len(todo) \in Nat
  BY ProgramTyped
<1>2. todo \in Seq(CallSet) /\ Len(todo) # 0
  BY DEF TypeInv
<1>3. /\ Len(todo) <= Len(prog) /\ i = Len(prog) - Len(todo)
      /\ \A j \in 1..Len(todo) : todo[j] = prog[i + j]
  BY DEF OnTrack, At
<1>4. i \in Nat /\ i + 1 \in 1..Len(prog)
  BY <1>1, <1>2, <1>3
<1>5. Head(todo) = todo[1] /\ Head(todo) \in CallSet /\ 1 \in 1..Len(todo)
  BY <1>2
<1>6. todo' = Tail(todo) /\ phase' = phase
  BY DEF Continue
<1>7. /\ todo' \in Seq(CallSet) /\ Len(todo') = Len(todo) - 1
      /\ \A j \in 1..Len(todo') : todo'[j] = todo[j + 1]
  BY <1>2, <1>6
<1>8. ProgramOf(phase)' = prog
  <2>1. PICK ph \in Running : ph = phase
    OBVIOUS
  <2>2. ProgramOf(ph)' = ProgramOf(ph)
    BY <2>1, ProgramSame
  <2> QED
    BY <1>6, <2>1, <2>2
<1>9. At' = i + 1
  BY <1>1, <1>3, <1>7, <1>8 DEF At
<1>10. \A j \in 1..Len(todo') : todo'[j] = prog[(i + 1) + j]
  <2> SUFFICES ASSUME NEW j \in 1..Len(todo') PROVE todo'[j] = prog[(i + 1) + j]
    OBVIOUS
  <2>1. j + 1 \in 1..Len(todo) /\ i + (j + 1) = (i + 1) + j
    BY <1>1, <1>4, <1>7
  <2> QED
    BY <1>3, <1>7, <2>1
<1>11. OnTrack'
  <2>1. Len(todo') <= Len(prog)
    BY <1>1, <1>3, <1>7
  <2> QED
    BY <1>6, <1>8, <1>9, <1>10, <2>1 DEF OnTrack
<1> QED
  BY <1>1, <1>3, <1>4, <1>5, <1>6, <1>7, <1>8, <1>9, <1>11

-----------------------------------------------------------------------------
(* Every call keeps the types *)

ACall == \/ DoSetSandbox \/ DoBatchMode \/ DoRun \/ DoFlush \/ DoStore \/ DoStart \/ DoPing

\* The fields of each kind of call.
FieldsOf(call) ==
  /\ \A c, s : call = SetSandbox(c, s) => call.do = "set" /\ call.client = c /\ call.on = s
  /\ \A c : call = BatchMode(c, TRUE) => call.do = "batch" /\ call.client = c
  /\ \A c, op, p : call = Run(c, op, p) =>
        call.do = "run" /\ call.client = c /\ call.op = op /\ call.on = p
  /\ \A c : call = Flush(c) => call.do = "flush" /\ call.client = c
  /\ \A p : call = StorePort(p) => call.do = "store" /\ call.on = p
  /\ \A c, p : call = Call("ping", c, "ping", p) =>
        call.do = "ping" /\ call.client = c /\ call.op = "ping" /\ call.on = p

LEMMA Fields ==
  ASSUME NEW call
  PROVE  FieldsOf(call)
<1>1. ASSUME NEW c, NEW s, call = SetSandbox(c, s)
      PROVE  call.do = "set" /\ call.client = c /\ call.on = s
  BY <1>1 DEF SetSandbox, Call
<1>2. ASSUME NEW c, call = BatchMode(c, TRUE)
      PROVE  call.do = "batch" /\ call.client = c
  BY <1>2 DEF BatchMode, Call
<1>3. ASSUME NEW c, NEW op, NEW p, call = Run(c, op, p)
      PROVE  call.do = "run" /\ call.client = c /\ call.op = op /\ call.on = p
  BY <1>3 DEF Run, Call
<1>4. ASSUME NEW c, call = Flush(c)
      PROVE  call.do = "flush" /\ call.client = c
  BY <1>4 DEF Flush, Call
<1>5. ASSUME NEW p, call = StorePort(p)
      PROVE  call.do = "store" /\ call.on = p
  BY <1>5 DEF StorePort, Call
<1>6. ASSUME NEW c, NEW p, call = Call("ping", c, "ping", p)
      PROVE  call.do = "ping" /\ call.client = c /\ call.op = "ping" /\ call.on = p
  BY <1>6 DEF Call
<1> QED
  BY <1>1, <1>2, <1>3, <1>4, <1>5, <1>6, Zenon DEF FieldsOf

\* What the next call may be.
LEMMA NextCall ==
  ASSUME TypeInv, OnTrack, todo # <<>>
  PROVE  /\ phase \in Running /\ phase # "choose"
         /\ Head(todo) \in CallSet /\ Tail(todo) \in Seq(CallSet)
         /\ At \in Nat /\ At + 1 \in 1..Len(ProgramOf(phase)) /\ Head(todo) = ProgramOf(phase)[At + 1]
         /\ Head(todo).do = "set" => Head(todo).on \in Sandboxes \cup {Nowhere}
         /\ Head(todo).do \in {"run", "ping"} => Head(todo).op \in Ops /\ Head(todo).on \in Lports
         /\ Head(todo).do = "store" => Head(todo).on \in Lports
<1>1. phase \in Running
  BY DEF OnTrack
<1>2. PICK prog : prog = ProgramOf(phase)
  OBVIOUS
<1>3. /\ Constants /\ prog \in Seq(CallSet) /\ Len(prog) \in Nat /\ Len(todo) \in Nat
      /\ context \in Seq(Lports)
  BY <1>1, <1>2, ProgramTyped DEF TypeInv
<1>b. PICK call : call = Head(todo)
  OBVIOUS
<1>4. todo \in Seq(CallSet) /\ Len(todo) # 0 /\ call \in CallSet /\ call = todo[1] /\ Tail(todo) \in Seq(CallSet)
  BY <1>b DEF TypeInv
<1>5. /\ Len(todo) <= Len(prog) /\ At = Len(prog) - Len(todo)
      /\ \A j \in 1..Len(todo) : todo[j] = prog[At + j]
  BY <1>1, <1>2 DEF OnTrack, At
<1>a. PICK i : i = At
  OBVIOUS
<1>6. i \in Nat /\ i = At
  BY <1>3, <1>4, <1>5, <1>a
<1>7. i + 1 \in 1..Len(prog) /\ call = prog[i + 1]
  BY <1>3, <1>4, <1>5, <1>6
<1>c. FieldsOf(call)
  BY Fields
<1>10. /\ call.do = "set" => call.on \in Sandboxes \cup {Nowhere}
       /\ call.do \in {"run", "ping"} => call.op \in Ops /\ call.on \in Lports
       /\ call.do = "store" => call.on \in Lports
  <2>1. CASE phase = "bind"
    <3>1. BindShape(prog, Len(prog))
      BY <1>2, <1>3, <2>1, BindProgram
    <3>2. \/ call.do = "set" /\ \E s \in Sandboxes : call = SetSandbox(Vsctl(s), s)
          \/ call.do \in {"batch", "direct", "flush"} /\ call.client[2] = "vsctl"
          \/ \E p \in Lports, op \in {"add", "set"} : call = Run(Vsctl(chosen[p]), op, p)
      BY <1>7, <3>1, Zenon DEF BindShape
    <3> QED
      BY <3>2, <1>c DEF FieldsOf, Ops
  <2>2. CASE phase = "vm"
    <3>1. VmShape(prog, Len(prog))
      BY <1>2, <1>3, <2>2, VmProgram
    <3>2. VmCall(call)
      BY <1>7, <3>1 DEF VmShape
    <3> QED
      BY <3>2, <1>c DEF FieldsOf, Ops, VmCall
  <2>3. CASE phase = "wait"
    <3>1. WaitCall(call)
      BY <1>2, <1>3, <1>7, <2>3, WaitProgram
    <3> QED
      BY <3>1, <1>c DEF FieldsOf, Ops, WaitCall
  <2>4. CASE phase = "cleanup"
    <3>1. CleanShape(prog, Len(prog))
      BY <1>2, <1>3, <2>4, CleanProgram
    <3>2. CleanCall(call)
      BY <1>7, <3>1 DEF CleanShape
    <3>3. \A j \in 1..Len(context) : context[j] \in Lports
      BY <1>3
    <3> QED
      BY <3>2, <3>3, <1>c DEF FieldsOf, Ops, CleanCall
  <2> QED
    BY <1>1, <2>1, <2>2, <2>3, <2>4 DEF Running
<1> QED
  BY <1>1, <1>2, <1>4, <1>6, <1>7, <1>10, <1>b DEF Running

LEMMA TypeOfCall ==
  ASSUME TypeInv, OnTrack, ACall
  PROVE  /\ TypeInv' /\ todo # <<>> /\ UNCHANGED <<setup, ports, chosen>>
         /\ Continue \/ Raise \/ (UNCHANGED <<todo, phase>> /\ Head(todo).do = "ping")
<1>1. todo # <<>> /\ UNCHANGED <<setup, ports, chosen>>
  BY DEF ACall, DoSetSandbox, DoBatchMode, DoRun, DoFlush, DoStore, DoStart, DoPing, Next1
<1>2. PICK call : call = Head(todo)
  OBVIOUS
<1>3. /\ call \in CallSet /\ Tail(todo) \in Seq(CallSet) /\ phase \in Running
      /\ call.do = "set" => call.on \in Sandboxes \cup {Nowhere}
      /\ call.do \in {"run", "ping"} => call.op \in Ops /\ call.on \in Lports
      /\ call.do = "store" => call.on \in Lports
  BY <1>1, <1>2, NextCall
<1>4. call.client \in Clients
  BY <1>3 DEF CallSet
<1>5. C = call.client /\ P = call.on
  BY <1>2 DEF C, P
<1>6. Lports' = Lports /\ Lines' = Lines /\ CallSet' = CallSet
  BY <1>1 DEF Lports, Lines, CallSet
<1>7. /\ setup' \in Setups /\ ports' \in Amounts /\ (phase' # "choose" => chosen' \in [Lports' -> Sandboxes])
  BY <1>1, <1>3, <1>6 DEF TypeInv, Running
<1>8. ASSUME Continue \/ Raise \/ (UNCHANGED <<todo, phase>> /\ call.do = "ping")
      PROVE  todo' \in Seq(CallSet) /\ phase' \in Phases
  <2>1. todo \in Seq(CallSet) /\ phase \in Phases /\ <<>> \in Seq(CallSet) /\ "raised" \in Phases
    BY DEF TypeInv, Phases
  <2> QED
    BY <1>3, <1>8, <2>1 DEF Continue, Raise
<1>9. ASSUME NEW lines \in Seq(Lines), NEW result, NEW E, Send(C, lines, result, E), E \in BOOLEAN
      PROVE  cmds' \in [Clients -> Seq(Lines)] /\ script' \in Seq(Lines) /\ (Continue \/ E)
  <2>1. PICK r \in Outcomes(result) :
           /\ script' = lines
           /\ cmds' = [cmds EXCEPT ![C] = IF r.ok THEN <<>> ELSE LeftWhenRaised(C, lines)]
           /\ IF r.ok THEN Continue ELSE E
    BY <1>9 DEF Send
  <2>2. <<>> \in Seq(Lines)
    OBVIOUS
  <2> QED
    BY <1>4, <1>5, <2>1, <2>2 DEF LeftWhenRaised, TypeInv
<1>10. CASE DoSetSandbox
  BY <1>1, <1>2, <1>3, <1>4, <1>5, <1>6, <1>7, <1>8, <1>10
     DEF TypeInv, DoSetSandbox, Next1, SandboxGiven
<1>11. CASE DoBatchMode
  BY <1>1, <1>2, <1>3, <1>4, <1>5, <1>6, <1>7, <1>8, <1>11 DEF TypeInv, DoBatchMode
<1>12. ASSUME call.do \in {"run", "ping"}
       PROVE  Append(cmds[C], Line) \in Seq(Lines)
  <2>1. Line \in Lines
    BY <1>2, <1>3, <1>5, <1>12 DEF Line, Lines
  <2> QED
    BY <1>4, <1>5, <2>1 DEF TypeInv
<1>13. CASE DoRun
  <2>1. call.do = "run" /\ Append(cmds[C], Line) \in Seq(Lines)
    BY <1>2, <1>12, <1>13 DEF DoRun, Next1
  <2>2. /\ Continue \/ Raise
        /\ cmds' \in [Clients -> Seq(Lines)] /\ script' \in Seq(Lines) /\ batch' \in [Clients -> BOOLEAN]
    <3>1. CASE Batched(C)
      BY <1>4, <1>5, <1>13, <2>1, <3>1 DEF DoRun, TypeInv
    <3>2. CASE ~Batched(C)
      <4>1. Send(C, Append(cmds[C], Line), Shell(Place(C), Append(cmds[C], Line), world), Raise)
        BY <1>13, <3>2 DEF DoRun
      <4>2. Raise \in BOOLEAN
        BY DEF Raise
      <4>3. batch' = [batch EXCEPT ![C] = FALSE]
        BY <1>13, <3>2 DEF DoRun
      <4> QED
        BY <1>9, <2>1, <4>1, <4>2, <4>3 DEF TypeInv
    <3> QED
      BY <3>1, <3>2
  <2>3. UNCHANGED <<name, context, elapsed>>
    BY <1>13 DEF DoRun
  <2> QED
    BY <1>1, <1>6, <1>7, <1>8, <2>2, <2>3 DEF TypeInv
<1>14. CASE DoFlush
  <2>1. /\ Continue \/ Raise
        /\ cmds' \in [Clients -> Seq(Lines)] /\ script' \in Seq(Lines)
    <3>1. CASE cmds[C] = <<>>
      BY <1>14, <3>1 DEF DoFlush, TypeInv
    <3>2. CASE cmds[C] # <<>>
      <4>1. Send(C, cmds[C], SentByFlush(C, world), Raise)
        BY <1>14, <3>2 DEF DoFlush
      <4>2. Raise \in BOOLEAN /\ cmds[C] \in Seq(Lines)
        BY <1>4, <1>5 DEF Raise, TypeInv
      <4> QED
        BY <1>9, <4>1, <4>2
    <3> QED
      BY <3>1, <3>2
  <2>2. UNCHANGED <<name, batch, context, elapsed>>
    BY <1>14 DEF DoFlush
  <2> QED
    BY <1>1, <1>6, <1>7, <1>8, <2>1, <2>2 DEF TypeInv
<1>15. CASE DoStore
  <2>1. call.do = "store" /\ context' = Append(context, P) /\ context \in Seq(Lports)
    BY <1>2, <1>15 DEF DoStore, Next1, TypeInv
  <2>2. context' \in Seq(Lports)
    BY <1>3, <1>5, <2>1
  <2> QED
    BY <1>1, <1>6, <1>7, <1>8, <1>15, <2>2 DEF TypeInv, DoStore
<1>16. CASE DoStart
  <2>1. 0 \in 0..(WaitTimeout + 1)
    BY FarmAssumption DEF FarmAssumption
  <2> QED
    BY <1>1, <1>6, <1>7, <1>8, <1>16, <2>1 DEF TypeInv, DoStart
<1>17. CASE DoPing
  <2>1. call.do = "ping" /\ Append(cmds[C], Line) \in Seq(Lines)
    BY <1>2, <1>12, <1>17 DEF DoPing, Next1
  <2>2. Send(C, Append(cmds[C], Line), Shell(Place(C), Append(cmds[C], Line), world),
             IF WaitOver THEN Raise ELSE UNCHANGED <<todo, phase>>)
    BY <1>17 DEF DoPing
  <2>3. (IF WaitOver THEN Raise ELSE UNCHANGED <<todo, phase>>) \in BOOLEAN
    BY DEF Raise
  <2>4. /\ cmds' \in [Clients -> Seq(Lines)] /\ script' \in Seq(Lines)
        /\ Continue \/ Raise \/ UNCHANGED <<todo, phase>>
    BY <1>9, <2>1, <2>2, <2>3
  <2>5. UNCHANGED <<name, batch, context, elapsed>>
    BY <1>17 DEF DoPing
  <2> QED
    BY <1>1, <1>2, <1>6, <1>7, <1>8, <2>1, <2>4, <2>5 DEF TypeInv
<1> QED
  BY <1>10, <1>11, <1>13, <1>14, <1>15, <1>16, <1>17 DEF ACall

-----------------------------------------------------------------------------
(* Calls that are sent, and the point of the program they stand at *)

\* ssh.run() either goes well, or the exception is raised.
LEMMA Sent ==
  ASSUME TypeInv, NEW c \in Clients, NEW lines, NEW result, NEW ACTION Except,
         Send(c, lines, result, Except)
  PROVE  /\ script' = lines
         /\ world' = world \/ world' = result.w
         /\ \A d \in Clients : d # c => cmds'[d] = cmds[d]
         /\ \/ Continue /\ result.ok /\ world' = result.w /\ cmds'[c] = <<>>
            \/ Except /\ cmds'[c] \in {<<>>, LeftWhenRaised(c, lines)}
<1>1. PICK r \in Outcomes(result) :
         /\ world' = r.w /\ script' = lines
         /\ cmds' = [cmds EXCEPT ![c] = IF r.ok THEN <<>> ELSE LeftWhenRaised(c, lines)]
         /\ IF r.ok THEN Continue ELSE Except
  BY DEF Send
<1>2. /\ r.w = world \/ r.w = result.w
      /\ r.ok => r = result
  BY <1>1 DEF Outcomes
<1>3. \A d \in Clients : cmds'[d] = IF d = c THEN (IF r.ok THEN <<>> ELSE LeftWhenRaised(c, lines))
                                    ELSE cmds[d]
  BY <1>1 DEF TypeInv
<1> QED
  BY <1>1, <1>2, <1>3

\* What goes on after an exception.
LEMMA Raised ==
  ASSUME Raise
  PROVE  OnTrack' /\ PhaseInv'
BY DEF Raise, OnTrack, PhaseInv, Running

Point(prog, i, call) ==
  /\ prog \in Seq(CallSet) /\ Len(prog) \in Nat /\ i \in Nat /\ i + 1 \in 1..Len(prog)
  /\ call = prog[i + 1] /\ call \in CallSet /\ call.client \in Clients
  /\ call.do = Head(todo).do /\ C = call.client /\ P = call.on /\ Line = ALine(call.op, call.on)

LEMMA AtPoint ==
  ASSUME TypeInv, OnTrack, todo # <<>>
  PROVE  /\ Constants
         /\ \E prog, i, call : prog = ProgramOf(phase) /\ i = At /\ Point(prog, i, call)
<1>1. PICK prog : prog = ProgramOf(phase)
  OBVIOUS
<1>2. PICK i : i = At
  OBVIOUS
<1>3. PICK call : call = Head(todo)
  OBVIOUS
<1>4. /\ phase \in Running /\ call \in CallSet
      /\ i \in Nat /\ i + 1 \in 1..Len(prog) /\ call = prog[i + 1]
  BY <1>1, <1>2, <1>3, NextCall
<1>5. Constants /\ prog \in Seq(CallSet) /\ Len(prog) \in Nat
  BY <1>1, <1>4, ProgramTyped
<1>6. call.client \in Clients
  BY <1>4 DEF CallSet
<1>7. call.do = Head(todo).do /\ C = call.client /\ P = call.on /\ Line = ALine(call.op, call.on)
  BY <1>3 DEF C, P, Line, ALine
<1>8. Point(prog, i, call)
  BY <1>4, <1>5, <1>6, <1>7 DEF Point
<1> QED
  BY <1>1, <1>2, <1>5, <1>8

\* What is queued is followed by its flush(), or by more of it.
LEMMA QueueNext ==
  ASSUME NEW prog, NEW i, NEW call, Point(prog, i, call), BindShape(prog, Len(prog)),
         Queued(prog, i), NEW c \in Clients, cmds[c] # <<>>
  PROVE  call.do = "run" \/ call = Flush(c)
<1>1. PICK k \in 1..i : /\ prog[k].do = "run" /\ prog[k].client = c
                        /\ \A m \in (k + 1)..i : prog[m].do = "run"
  BY DEF Queued
<1>2. i \in Nat /\ Len(prog) \in Nat /\ i + 1 \in 1..Len(prog) /\ call = prog[i + 1]
  BY DEF Point
<1>3. k \in 1..Len(prog)
  BY <1>2
<1>4. PICK f \in (k + 1)..Len(prog) :
         /\ prog[f] = Flush(c)
         /\ \A m \in (k + 1)..(f - 1) : prog[m].do = "run"
  BY <1>1, <1>3, Zenon DEF BindShape
<1>5. prog[f].do = "flush"
  BY <1>4, Fields DEF FieldsOf
<1>6. f \notin (k + 1)..i
  BY <1>1, <1>5
<1>7. f = i + 1 \/ i + 1 \in (k + 1)..(f - 1)
  BY <1>2, <1>6
<1> QED
  BY <1>2, <1>4, <1>7

LEMMA BindSet ==
  ASSUME TypeInv, NEW prog, NEW i, NEW call, Point(prog, i, call), BindShape(prog, Len(prog)),
         BindAt(prog, i), DoSetSandbox
  PROVE  BindAt(prog, i + 1)'
<1>1. /\ i \in Nat /\ i + 1 \in 1..Len(prog) /\ call = prog[i + 1] /\ call.do = "set"
      /\ call.client \in Clients
  BY DEF Point, DoSetSandbox, Next1
<1>2. /\ name' = [name EXCEPT ![call.client] = call.on]
      /\ UNCHANGED <<setup, ports, chosen, batch, cmds, world, context>>
  BY DEF DoSetSandbox, SandboxGiven, Point
<1>3. \A c \in Clients : cmds[c] = <<>>
  <2>1. ASSUME NEW c \in Clients, cmds[c] # <<>>
        PROVE  FALSE
    <3>1. call = Flush(c)
      BY <1>1, <2>1, QueueNext DEF BindAt
    <3> QED
      BY <1>1, <3>1, Fields DEF FieldsOf
  <2> QED
    BY <2>1
<1>4. \A k \in 1..(i + 1) : k \in 1..i \/ k = i + 1
  BY <1>1
<1>5. Prepared(prog, i + 1)'
  <2>1. name'[call.client] = call.on
    BY <1>1, <1>2 DEF TypeInv
  <2>2. \A k \in 1..i : i + 1 \in (k + 1)..(i + 1)
    BY <1>1
  <2>3. ASSUME NEW k \in 1..i, \A m \in (k + 1)..(i + 1) : prog[m].do # "direct"
        PROVE  \A m \in (k + 1)..i : prog[m].do # "direct"
    BY <1>1, <2>3
  <2> QED
    BY <1>1, <1>2, <1>4, <2>1, <2>2, <2>3 DEF BindAt, Prepared
<1>6. Delivered(prog, i + 1)'
  <2>1. \A p : prog[i + 1] # SetCall(p)
    <3>1. FieldsOf(call)
      BY Fields
    <3>2. \A p : call = SetCall(p) => call.do = "run"
      BY <3>1 DEF FieldsOf, SetCall
    <3> QED
      BY <1>1, <3>2
  <2> QED
    BY <1>2, <1>4, <2>1 DEF BindAt, Delivered, Bound, Has, Reached, Home, SetCall, Lports, In
<1>7. Queued(prog, i + 1)'
  BY <1>2, <1>3 DEF Queued
<1> QED
  BY <1>2, <1>5, <1>6, <1>7 DEF BindAt, DirectSsh

LEMMA BindMode ==
  ASSUME TypeInv, NEW prog, NEW i, NEW call, Point(prog, i, call), BindShape(prog, Len(prog)),
         BindAt(prog, i), DoBatchMode
  PROVE  BindAt(prog, i + 1)'
<1>1. /\ i \in Nat /\ i + 1 \in 1..Len(prog) /\ call = prog[i + 1] /\ call.do \in {"batch", "direct"}
      /\ call.client \in Clients
  BY DEF Point, DoBatchMode, Next1
<1>2. /\ batch' = [batch EXCEPT ![call.client] = call.do = "batch"]
      /\ UNCHANGED <<setup, ports, chosen, name, cmds, world, context>>
  BY DEF DoBatchMode, Point
<1>a. FieldsOf(call)
  BY Fields
<1>3. \A c \in Clients : cmds[c] = <<>>
  <2>1. ASSUME NEW c \in Clients, cmds[c] # <<>>
        PROVE  FALSE
    <3>1. call = Flush(c)
      BY <1>1, <2>1, QueueNext DEF BindAt
    <3> QED
      BY <1>1, <1>a, <3>1 DEF FieldsOf
  <2> QED
    BY <2>1
<1>4. \A k \in 1..(i + 1) : k \in 1..i \/ k = i + 1
  BY <1>1
<1>b. \A p : prog[i + 1] # SetCall(p)
  <2>1. \A p : call = SetCall(p) => call.do = "run"
    BY <1>a DEF FieldsOf, SetCall
  <2> QED
    BY <1>1, <2>1
<1>c. call.client[2] = "vsctl"
  <2>1. \/ call.do = "set"
        \/ call.do \in {"batch", "direct", "flush"} /\ call.client[2] = "vsctl"
        \/ \E p \in Lports, op \in {"add", "set"} : call = Run(Vsctl(chosen[p]), op, p)
    BY <1>1 DEF BindShape
  <2> QED
    BY <1>1, <1>a, <2>1 DEF FieldsOf
<1>d. \A c \in Clients : batch'[c] = IF c = call.client THEN call.do = "batch" ELSE batch[c]
  BY <1>1, <1>2 DEF TypeInv
<1>5. Prepared(prog, i + 1)'
  <2>1. ASSUME NEW k \in 1..(i + 1), prog[k].do = "set",
               \A m \in (k + 1)..(i + 1) : prog[m].do # "set"
        PROVE  name[prog[k].client] = prog[k].on
    <3>1. k \in 1..i /\ \A m \in (k + 1)..i : prog[m].do # "set"
      BY <1>1, <1>4, <2>1
    <3> QED
      BY <2>1, <3>1 DEF BindAt, Prepared
  <2>2. ASSUME NEW k \in 1..(i + 1), prog[k].do = "batch",
               \A m \in (k + 1)..(i + 1) : prog[m].do # "direct"
        PROVE  batch'[prog[k].client] \/ prog[k].client[1] \in setup.containers
    <3>1. CASE k = i + 1
      <4>1. prog[k] = call /\ call.do = "batch"
        BY <1>1, <2>2, <3>1
      <4> QED
        BY <1>1, <1>d, <4>1
    <3>2. CASE k \in 1..i
      <4>1. i + 1 \in (k + 1)..(i + 1) /\ k \in 1..Len(prog)
        BY <1>1, <3>2
      <4>2. call.do = "batch"
        BY <1>1, <2>2, <4>1
      <4>3. \A m \in (k + 1)..i : prog[m].do # "direct"
        BY <1>1, <2>2, <3>2
      <4>4. batch[prog[k].client] \/ prog[k].client[1] \in setup.containers
        BY <2>2, <3>2, <4>3 DEF BindAt, Prepared
      <4>5. prog[k].client \in Clients
        <5>1. prog[k] \in CallSet
          BY <4>1 DEF Point
        <5> QED
          BY <5>1 DEF CallSet
      <4> QED
        BY <1>d, <4>2, <4>4, <4>5
    <3> QED
      BY <1>4, <3>1, <3>2
  <2> QED
    BY <1>2, <2>1, <2>2 DEF Prepared
<1>6. Delivered(prog, i + 1)'
  BY <1>2, <1>4, <1>b DEF BindAt, Delivered, Bound, Has, Reached, Home, SetCall, Lports, In
<1>7. Queued(prog, i + 1)'
  BY <1>2, <1>3 DEF Queued
<1>8. DirectSsh'
  BY <1>2, <1>c, <1>d DEF BindAt, DirectSsh
<1> QED
  BY <1>2, <1>5, <1>6, <1>7, <1>8 DEF BindAt

\* The calls before a run() in _bind_ovs_port.
LEMMA BindRunAt ==
  ASSUME TypeInv, Constants, NEW prog, NEW i, NEW call, Point(prog, i, call),
         BindShape(prog, Len(prog)), BindAt(prog, i), call.do = "run"
  PROVE  \E p \in Lports, op \in {"add", "set"} :
            /\ call = Run(Vsctl(chosen[p]), op, p)
            /\ call.client = Vsctl(chosen[p]) /\ call.op = op /\ call.on = p
            /\ name[call.client] = chosen[p]
            /\ batch[call.client] \/ call.client[1] \in setup.containers
<1>1. i \in Nat /\ i + 1 \in 1..Len(prog) /\ call = prog[i + 1] /\ call.client \in Clients
  BY DEF Point
<1>a. FieldsOf(call)
  BY Fields
<1>2. PICK p \in Lports, op \in {"add", "set"} : call = Run(Vsctl(chosen[p]), op, p)
  BY <1>1 DEF BindShape
<1>3. call.client = Vsctl(chosen[p]) /\ call.op = op /\ call.on = p
  BY <1>2, <1>a DEF FieldsOf
<1>4. PICK k \in 1..((i + 1) - 2) :
         /\ prog[k] = SetSandbox(call.client, chosen[call.on])
         /\ prog[k + 1] = BatchMode(call.client, TRUE)
         /\ \A m \in (k + 2)..((i + 1) - 1) : prog[m].do = "run"
  BY <1>1 DEF BindShape
<1>5. prog[k].do = "set" /\ prog[k].client = call.client /\ prog[k].on = chosen[p]
  <2>1. FieldsOf(prog[k])
    BY Fields
  <2> QED
    BY <1>3, <1>4, <2>1 DEF FieldsOf
<1>6. prog[k + 1].do = "batch" /\ prog[k + 1].client = call.client
  <2>1. FieldsOf(prog[k + 1])
    BY Fields
  <2> QED
    BY <1>4, <2>1 DEF FieldsOf
<1>7. k \in 1..i /\ k + 1 \in 1..i /\ \A m \in (k + 2)..i : prog[m].do = "run"
  <2>1. k \in Nat /\ 1 <= k /\ k <= i - 1 /\ (i + 1) - 1 = i
    BY <1>1
  <2> QED
    BY <1>1, <1>4, <2>1
<1>8. \A m \in (k + 1)..i : m = k + 1 \/ m \in (k + 2)..i
  BY <1>1, <1>7
<1>9. name[call.client] = chosen[p]
  <2>1. \A m \in (k + 1)..i : prog[m].do # "set"
    BY <1>6, <1>7, <1>8
  <2> QED
    BY <1>5, <1>7, <2>1 DEF BindAt, Prepared
<1>10. batch[call.client] \/ call.client[1] \in setup.containers
  <2>1. (k + 1) + 1 = k + 2
    BY <1>7
  <2>2. \A m \in ((k + 1) + 1)..i : prog[m].do # "direct"
    BY <1>7, <2>1
  <2> QED
    BY <1>6, <1>7, <2>2 DEF BindAt, Prepared
<1> QED
  BY <1>2, <1>3, <1>9, <1>10

\* A port queued for its sandbox.
LEMMA BindQueue ==
  ASSUME TypeInv, Constants, NEW prog, NEW i, NEW call, Point(prog, i, call),
         BindShape(prog, Len(prog)), BindAt(prog, i), DoRun, Batched(C)
  PROVE  BindAt(prog, i + 1)' /\ Continue /\ UNCHANGED <<world, setup, ports, chosen>>
<1> DEFINE c == call.client
<1>1. /\ i \in Nat /\ i + 1 \in 1..Len(prog) /\ call = prog[i + 1] /\ call.do = "run"
      /\ c \in Clients /\ C = c /\ Line = ALine(call.op, call.on)
  BY DEF Point, DoRun, Next1
<1>2. PICK p \in Lports, op \in {"add", "set"} :
         /\ call = Run(Vsctl(chosen[p]), op, p)
         /\ c = Vsctl(chosen[p]) /\ call.op = op /\ call.on = p /\ name[c] = chosen[p]
  BY <1>1, BindRunAt
<1>3. /\ cmds' = [cmds EXCEPT ![c] = Append(cmds[c], ALine(op, p))]
      /\ Continue /\ UNCHANGED <<setup, ports, chosen, name, batch, world, context>>
  BY <1>1, <1>2 DEF DoRun
<1>4. chosen[p] \in Sandboxes /\ c[2] = "vsctl" /\ c[1] \notin setup.containers
  <2>1. chosen[p] \in Sandboxes
    BY DEF Constants
  <2> QED
    BY <1>1, <1>2, <2>1, ClientsTyped DEF Batched
<1>5. PICK lines : lines = Append(cmds[c], ALine(op, p))
  OBVIOUS
<1>6. /\ Len(cmds[c]) \in Nat /\ Len(lines) = Len(cmds[c]) + 1
      /\ \A j \in 1..Len(cmds[c]) : lines[j] = cmds[c][j]
      /\ lines[Len(cmds[c]) + 1] = ALine(op, p)
  <2>1. PICK q \in Seq(Lines) : q = cmds[c]
    BY <1>1 DEF TypeInv
  <2> QED
    BY <1>5, <2>1
<1>7. \A d \in Clients : cmds'[d] = IF d = c THEN lines ELSE cmds[d]
  BY <1>1, <1>3, <1>5 DEF TypeInv
<1>8. \A k \in 1..(i + 1) : k \in 1..i \/ k = i + 1
  BY <1>1
<1>9. \A j \in 1..Len(lines) : j \in 1..Len(cmds[c]) \/ (j = Len(cmds[c]) + 1 /\ lines[j] = ALine(op, p))
  BY <1>6
<1> HIDE DEF c
<1>10. Prepared(prog, i + 1)'
  <2>1. ASSUME NEW k \in 1..(i + 1), prog[k].do = "set" \/ prog[k].do = "batch"
        PROVE  k \in 1..i
    BY <1>1, <1>8, <2>1
  <2>2. \A k \in 1..i : \A m \in (k + 1)..i : m \in (k + 1)..(i + 1)
    BY <1>1
  <2> QED
    BY <1>3, <2>1, <2>2 DEF BindAt, Prepared
<1>11. Queued(prog, i + 1)'
  <2>1. ASSUME NEW d \in Clients, cmds'[d] # <<>>
        PROVE  /\ d[2] = "vsctl" /\ d[1] \notin setup.containers
               /\ \E k \in 1..(i + 1) : /\ prog[k].do = "run" /\ prog[k].client = d
                                        /\ \A m \in (k + 1)..(i + 1) : prog[m].do = "run"
               /\ name[d] \in Sandboxes
               /\ \A j \in 1..Len(cmds'[d]) :
                     cmds'[d][j].op \in {"add", "set"} /\ chosen[cmds'[d][j].on] = name[d]
    <3>1. CASE d = c
      <4>1. i + 1 \in 1..(i + 1) /\ (i + 1 + 1)..(i + 1) = {}
        BY <1>1
      <4>2. prog[i + 1].do = "run" /\ prog[i + 1].client = d
        BY <1>1, <3>1 DEF c
      <4>3. ASSUME NEW j \in 1..Len(lines)
            PROVE  lines[j].op \in {"add", "set"} /\ chosen[lines[j].on] = name[c]
        <5>1. CASE j \in 1..Len(cmds[c])
          <6>1. cmds[c] # <<>>
            BY <1>6, <5>1
          <6>2. cmds[c][j].op \in {"add", "set"} /\ chosen[cmds[c][j].on] = name[c]
            BY <1>1, <5>1, <6>1 DEF BindAt, Queued
          <6> QED
            BY <1>6, <5>1, <6>2
        <5>2. CASE lines[j] = ALine(op, p)
          BY <1>2, <5>2 DEF ALine
        <5> QED
          BY <1>9, <5>1, <5>2
      <4>4. cmds'[d] = lines
        BY <1>1, <1>7, <3>1
      <4> QED
        BY <1>2, <1>4, <3>1, <4>1, <4>2, <4>3, <4>4
    <3>2. CASE d # c
      <4>1. cmds'[d] = cmds[d] /\ cmds[d] # <<>>
        BY <1>7, <2>1, <3>2
      <4>2. PICK k \in 1..i : /\ prog[k].do = "run" /\ prog[k].client = d
                              /\ \A m \in (k + 1)..i : prog[m].do = "run"
        BY <4>1 DEF BindAt, Queued
      <4>3. k \in 1..(i + 1) /\ \A m \in (k + 1)..(i + 1) : prog[m].do = "run"
        <5>1. \A m \in (k + 1)..(i + 1) : m \in (k + 1)..i \/ m = i + 1
          BY <1>1
        <5> QED
          BY <1>1, <4>2, <5>1
      <4>4. /\ d[2] = "vsctl" /\ d[1] \notin setup.containers /\ name[d] \in Sandboxes
            /\ \A j \in 1..Len(cmds[d]) :
                  cmds[d][j].op \in {"add", "set"} /\ chosen[cmds[d][j].on] = name[d]
        BY <4>1 DEF BindAt, Queued
      <4> QED
        BY <4>1, <4>2, <4>3, <4>4
    <3> QED
      BY <3>1, <3>2
  <2> QED
    BY <1>3, <2>1 DEF Queued
<1>12. Delivered(prog, i + 1)'
  <2>1. ASSUME NEW q \in Lports, NEW k \in 1..(i + 1), prog[k] = SetCall(q)
        PROVE  Bound(q) \/ In(ALine("set", q), cmds'[Vsctl(chosen[q])])
    <3>0. chosen[q] \in Sandboxes /\ Vsctl(chosen[q]) \in Clients
      <4>1. chosen[q] \in Sandboxes
        BY DEF Constants
      <4> QED
        BY <4>1, ClientsTyped
    <3>1. CASE k \in 1..i
      <4>1. Bound(q) \/ In(ALine("set", q), cmds[Vsctl(chosen[q])])
        BY <2>1, <3>1 DEF BindAt, Delivered
      <4>2. CASE Vsctl(chosen[q]) = c /\ In(ALine("set", q), cmds[c])
        <5>1. PICK j \in 1..Len(cmds[c]) : cmds[c][j] = ALine("set", q)
          BY <4>2 DEF In
        <5>2. j \in 1..Len(lines) /\ lines[j] = ALine("set", q)
          BY <1>6, <5>1
        <5>3. In(ALine("set", q), lines)
          BY <5>2 DEF In
        <5> QED
          BY <1>1, <1>7, <4>2, <5>3
      <4> QED
        BY <1>7, <3>0, <4>1, <4>2
    <3>2. CASE k = i + 1
      <4>1. call = Run(Vsctl(chosen[q]), "set", q)
        BY <1>1, <2>1, <3>2 DEF SetCall
      <4>2. call.op = "set" /\ call.on = q /\ call.client = Vsctl(chosen[q])
        <5>1. FieldsOf(call)
          BY Fields
        <5> QED
          BY <4>1, <5>1 DEF FieldsOf
      <4>3. ALine(op, p) = ALine("set", q) /\ c = Vsctl(chosen[q])
        BY <1>2, <4>2 DEF c
      <4>4. In(ALine("set", q), lines)
        <5>1. Len(cmds[c]) + 1 \in 1..Len(lines)
          BY <1>6
        <5> QED
          BY <1>6, <4>3, <5>1 DEF In
      <4> QED
        BY <1>1, <1>7, <4>3, <4>4
    <3> QED
      BY <1>8, <3>1, <3>2
  <2> QED
    BY <1>3, <2>1 DEF Delivered, Bound, Has, Reached, Home, SetCall, Lports, In, Run, Vsctl
<1>13. DirectSsh'
  BY <1>3, <1>4, <1>7 DEF BindAt, DirectSsh
<1> QED
  BY <1>3, <1>10, <1>11, <1>12, <1>13 DEF BindAt

\* Facts that stay, and those there are more of.
LEMMA StillBound ==
  ASSUME UNCHANGED <<setup, ports, chosen>>, world \subseteq world', NEW p, Bound(p)
  PROVE  Bound(p)'
BY DEF Bound, Has, Reached, Home

\* A command for the Open vSwitch of the container.
LEMMA BindDirect ==
  ASSUME TypeInv, Constants, NEW prog, NEW i, NEW call, Point(prog, i, call),
         BindShape(prog, Len(prog)), BindAt(prog, i), Beside, world \subseteq HomeFacts,
         DoRun, ~Batched(C)
  PROVE  /\ world' \subseteq HomeFacts /\ UNCHANGED <<setup, ports, chosen>>
         /\ Raise \/ (Continue /\ Beside' /\ BindAt(prog, i + 1)')
<1>1. /\ i \in Nat /\ i + 1 \in 1..Len(prog) /\ call = prog[i + 1] /\ call.do = "run"
      /\ call.client \in Clients /\ C = call.client /\ Line = ALine(call.op, call.on)
  BY DEF Point, DoRun, Next1
<1>2. PICK p \in Lports, op \in {"add", "set"} :
         /\ call = Run(Vsctl(chosen[p]), op, p)
         /\ call.client = Vsctl(chosen[p]) /\ call.op = op /\ call.on = p
         /\ name[call.client] = chosen[p]
         /\ batch[call.client] \/ call.client[1] \in setup.containers
  BY <1>1, BindRunAt
<1>3. PICK c \in Clients : c = Vsctl(chosen[p])
  BY <1>1, <1>2
<1>4. PICK s \in Sandboxes : s = chosen[p]
  BY DEF Constants
<1>5. c[2] = "vsctl" /\ c[1] = FarmOf[s] /\ c[1] \in setup.containers /\ name[c] = s
  <2>1. c[2] = "vsctl" /\ c[1] = FarmOf[s]
    BY <1>3, <1>4, ClientsTyped
  <2> QED
    BY <1>1, <1>2, <1>3, <1>4, <2>1 DEF Batched
<1>6. cmds[c] = <<>>
  BY <1>5 DEF BindAt, Queued
<1>7. PICK line : line = ALine(op, p)
  OBVIOUS
<1>8. line \in Lines /\ line.op = op /\ line.on = p
  BY <1>7 DEF ALine, Lines, Ops
<1>9. Place(c) = Home(s) /\ Reached(s)
  BY <1>5 DEF Place, Home, Reached
<1>10. PICK result : result = Shell(Home(s), <<line>>, world)
  OBVIOUS
<1>11. result.w = After(line, Home(s), world) /\ result.ok = Works(line, Home(s), world)
  <2>1. Shell(Home(s), <<line>>, world)
          = [w |-> After(line, Home(s), world), ok |-> Works(line, Home(s), world)]
    BY OneLine, Zenon
  <2>2. result = [w |-> After(line, Home(s), world), ok |-> Works(line, Home(s), world)]
    BY <1>10, <2>1, Zenon
  <2> QED
    BY <2>2
<1>12. /\ Send(c, <<line>>, result, Raise)
       /\ batch' = [batch EXCEPT ![c] = FALSE]
       /\ UNCHANGED <<setup, ports, chosen, name, context>>
  <2>1. Append(cmds[c], line) = <<line>>
    BY <1>6
  <2>2. C = c /\ Line = line
    BY <1>1, <1>2, <1>3, <1>7
  <2>3. /\ Send(C, Append(cmds[C], Line), Shell(Place(C), Append(cmds[C], Line), world), Raise)
        /\ batch' = [batch EXCEPT ![C] = FALSE]
        /\ UNCHANGED <<setup, ports, chosen, name, context>>
    BY DEF DoRun
  <2> QED
    BY <1>9, <1>10, <2>1, <2>2, <2>3
<1>13. /\ world' = world \/ world' = result.w
       /\ \A d \in Clients : d # c => cmds'[d] = cmds[d]
       /\ (Continue /\ result.ok /\ world' = result.w /\ cmds'[c] = <<>>) \/ Raise
  BY <1>12, Sent
<1>14. world' \subseteq HomeFacts
  BY <1>4, <1>8, <1>11, <1>13, AfterAtHome
<1>15. ASSUME Continue, result.ok, world' = result.w, cmds'[c] = <<>>
       PROVE  Beside' /\ BindAt(prog, i + 1)'
  <2>1. Effect(op).removes = {} /\ Effect(op).adds \subseteq {"port", "iface"}
    BY Effects
  <2>2. world \subseteq world'
    BY <1>8, <1>11, <1>15, <2>1, KeepsAll
  <2>3. ASSUME NEW fact \in world', fact \notin world
        PROVE  fact[1] = Home(s) /\ fact[2] \in {"port", "iface"} /\ fact[3] = p
    <3>1. \E what \in Effect(line.op).adds : fact = <<Home(s), what, line.on>>
      BY <1>11, <1>15, <2>3, AfterFacts
    <3> QED
      BY <1>8, <2>1, <3>1
  <2>4. Beside'
    <3>1. ASSUME NEW q \in Lports
          PROVE  /\ Has("port", q)' => Reached(chosen[q])
                 /\ Has("link", q)' => Has("port", q)' /\ Has("netns", q)'
      <4>1. Home(chosen[q])' = Home(chosen[q])
        BY <1>12 DEF Home
      <4>2. Has("port", q)' => Has("port", q) \/ q = p
        BY <2>3, <4>1 DEF Has
      <4>3. Has("link", q)' => Has("link", q)
        BY <2>3, <4>1 DEF Has
      <4> QED
        BY <1>4, <1>9, <2>2, <4>1, <4>2, <4>3 DEF Beside, Has
    <3> QED
      BY <1>12, <3>1 DEF Beside, Lports, Reached
  <2>5. \A k \in 1..(i + 1) : k \in 1..i \/ k = i + 1
    BY <1>1
  <2>6. Prepared(prog, i + 1)'
    <3>1. ASSUME NEW k \in 1..(i + 1), prog[k].do = "set" \/ prog[k].do = "batch"
          PROVE  k \in 1..i
      BY <1>1, <2>5, <3>1
    <3>2. \A k \in 1..i : \A m \in (k + 1)..i : m \in (k + 1)..(i + 1)
      BY <1>1
    <3>3. \A d \in Clients : batch'[d] = IF d = c THEN FALSE ELSE batch[d]
      BY <1>12 DEF TypeInv
    <3>4. \A k \in 1..i : prog[k].client \in Clients
      <4>1. ASSUME NEW k \in 1..i PROVE prog[k] \in CallSet
        BY <1>1 DEF Point
      <4> QED
        BY <4>1 DEF CallSet
    <3> QED
      BY <1>5, <1>12, <3>1, <3>2, <3>3, <3>4 DEF BindAt, Prepared
  <2>7. ASSUME NEW d \in Clients, cmds'[d] # <<>>
        PROVE  cmds'[d] = cmds[d] /\ cmds[d] # <<>>
    BY <1>13, <1>15, <2>7
  <2>8. Queued(prog, i + 1)'
    <3>1. ASSUME NEW k \in 1..i, \A m \in (k + 1)..i : prog[m].do = "run"
          PROVE  k \in 1..(i + 1) /\ \A m \in (k + 1)..(i + 1) : prog[m].do = "run"
      <4>1. \A m \in (k + 1)..(i + 1) : m \in (k + 1)..i \/ m = i + 1
        BY <1>1
      <4> QED
        BY <1>1, <3>1, <4>1
    <3> QED
      BY <1>12, <2>7, <3>1 DEF BindAt, Queued
  <2>9. Delivered(prog, i + 1)'
    <3>1. ASSUME NEW q \in Lports, NEW k \in 1..(i + 1), prog[k] = SetCall(q)
          PROVE  Bound(q)' \/ In(ALine("set", q), cmds'[Vsctl(chosen[q])])
      <4>1. Vsctl(chosen[q]) \in Clients
        <5>1. chosen[q] \in Sandboxes
          BY DEF Constants
        <5> QED
          BY <5>1, ClientsTyped
      <4>2. CASE k \in 1..i
        <5>1. Bound(q) \/ In(ALine("set", q), cmds[Vsctl(chosen[q])])
          BY <3>1, <4>2 DEF BindAt, Delivered
        <5>2. CASE Bound(q)
          BY <1>12, <2>2, <5>2, StillBound
        <5>3. CASE In(ALine("set", q), cmds[Vsctl(chosen[q])])
          <6>1. cmds[Vsctl(chosen[q])] # <<>>
            BY <5>3 DEF In
          <6> QED
            BY <1>6, <1>13, <4>1, <5>3, <6>1
        <5> QED
          BY <5>1, <5>2, <5>3
      <4>3. CASE k = i + 1
        <5>1. call = Run(Vsctl(chosen[q]), "set", q)
          BY <1>1, <3>1, <4>3 DEF SetCall
        <5>2. op = "set" /\ p = q
          <6>1. FieldsOf(call)
            BY Fields
          <6> QED
            BY <1>2, <5>1, <6>1 DEF FieldsOf
        <5>3. /\ <<Home(s), "iface", p>> \in After(line, Home(s), world)
              /\ <<Home(s), "port", p>> \in world
          <6>1. Effect(line.op).adds = {"iface"} /\ Effect(line.op).needs = {"port"}
            BY <1>8, <5>2, Effects
          <6>2. Works(line, Home(s), world)
            BY <1>11, <1>15
          <6>3. /\ \A what \in Effect(line.op).adds :
                      <<Home(s), what, line.on>> \in After(line, Home(s), world)
                /\ \A what \in Effect(line.op).needs : <<Home(s), what, line.on>> \in world
            BY <6>2, WorksAdds
          <6> QED
            BY <1>8, <6>1, <6>3
        <5> QED
          BY <1>4, <1>11, <1>12, <1>15, <2>2, <5>2, <5>3 DEF Bound, Has, Home
      <4> QED
        BY <2>5, <4>2, <4>3
    <3> QED
      BY <1>12, <3>1 DEF Delivered, SetCall, Lports, Vsctl, Run
  <2>10. DirectSsh'
    <3>1. \A d \in Clients : batch'[d] = IF d = c THEN FALSE ELSE batch[d]
      BY <1>12 DEF TypeInv
    <3> QED
      BY <1>5, <1>13, <3>1 DEF BindAt, DirectSsh
  <2> QED
    BY <1>12, <2>4, <2>6, <2>8, <2>9, <2>10 DEF BindAt
<1> QED
  BY <1>12, <1>13, <1>14, <1>15

\* The flush() of a sandbox: its ports are all bound, or an exception goes up.
LEMMA BindFlush ==
  ASSUME TypeInv, Constants, NEW prog, NEW i, NEW call, Point(prog, i, call),
         BindShape(prog, Len(prog)), BindAt(prog, i), Beside, world \subseteq HomeFacts, DoFlush
  PROVE  /\ world' \subseteq HomeFacts /\ UNCHANGED <<setup, ports, chosen>>
         /\ Raise \/ (Continue /\ Beside' /\ BindAt(prog, i + 1)')
<1>1. /\ i \in Nat /\ i + 1 \in 1..Len(prog) /\ call = prog[i + 1] /\ call.do = "flush"
      /\ C = call.client
  BY DEF Point, DoFlush, Next1
<1>2. PICK c \in Clients : c = call.client
  BY DEF Point
<1>3. UNCHANGED <<setup, ports, chosen, name, batch, context>> /\ C = c
  BY <1>1, <1>2 DEF DoFlush
<1>4. \A d \in Clients : d # c => cmds[d] = <<>>
  <2>1. ASSUME NEW d \in Clients, cmds[d] # <<>>
        PROVE  d = c
    <3>1. call = Flush(d)
      BY <1>1, <2>1, QueueNext DEF BindAt
    <3>2. FieldsOf(call)
      BY Fields
    <3> QED
      BY <1>2, <3>1, <3>2 DEF FieldsOf
  <2> QED
    BY <2>1
<1>5. \A k \in 1..(i + 1) : k \in 1..i \/ k = i + 1
  BY <1>1
<1>6. ASSUME world \subseteq world', \A d \in Clients : cmds'[d] = <<>>,
             \A p \in Lports : \A k \in 1..i : prog[k] = SetCall(p) => Bound(p)'
      PROVE  BindAt(prog, i + 1)'
  <2>1. Prepared(prog, i + 1)'
    <3>1. ASSUME NEW k \in 1..(i + 1), prog[k].do = "set" \/ prog[k].do = "batch"
          PROVE  k \in 1..i
      BY <1>1, <1>5, <3>1
    <3>2. \A k \in 1..i : \A m \in (k + 1)..i : m \in (k + 1)..(i + 1)
      BY <1>1
    <3> QED
      BY <1>3, <3>1, <3>2 DEF BindAt, Prepared
  <2>2. Queued(prog, i + 1)'
    BY <1>6 DEF Queued
  <2>3. Delivered(prog, i + 1)'
    <3>1. \A p : call # SetCall(p)
      <4>1. FieldsOf(call)
        BY Fields
      <4>2. \A p : call = SetCall(p) => call.do = "run"
        BY <4>1 DEF FieldsOf, SetCall
      <4> QED
        BY <1>1, <4>2
    <3>2. \A p : \A k \in 1..(i + 1) : prog[k] = SetCall(p) => k \in 1..i
      BY <1>1, <1>5, <3>1
    <3> QED
      BY <1>3, <1>6, <3>2 DEF Delivered, SetCall, Lports, Vsctl, Run
  <2>4. DirectSsh'
    BY <1>3, <1>6 DEF BindAt, DirectSsh
  <2> QED
    BY <1>3, <2>1, <2>2, <2>3, <2>4 DEF BindAt
<1>7. CASE cmds[c] = <<>>
  <2>1. Continue /\ UNCHANGED <<cmds, world>>
    BY <1>3, <1>7 DEF DoFlush
  <2>2. \A p \in Lports : \A k \in 1..i : prog[k] = SetCall(p) => Bound(p)'
    <3>1. ASSUME NEW p \in Lports, NEW k \in 1..i, prog[k] = SetCall(p)
          PROVE  Bound(p)
      <4>1. Vsctl(chosen[p]) \in Clients
        <5>1. chosen[p] \in Sandboxes
          BY DEF Constants
        <5> QED
          BY <5>1, ClientsTyped
      <4>2. cmds[Vsctl(chosen[p])] = <<>>
        BY <1>4, <1>7, <4>1
      <4> QED
        BY <3>1, <4>2 DEF BindAt, Delivered, In
    <3> QED
      BY <1>3, <2>1, <3>1, StillBound
  <2>3. Beside'
    BY <1>3, <2>1 DEF Beside, Has, Home, Reached, Lports
  <2> QED
    BY <1>3, <1>4, <1>6, <1>7, <2>1, <2>2, <2>3
<1>8. CASE cmds[c] # <<>>
  <2>1. PICK s \in Sandboxes : s = name[c]
    BY <1>8 DEF BindAt, Queued
  <2>2. PICK lines \in Seq(Lines) : lines = cmds[c]
    BY DEF TypeInv
  <2>3. /\ c[2] = "vsctl" /\ c[1] \notin setup.containers
        /\ \A j \in 1..Len(lines) : lines[j].op \in {"add", "set"} /\ chosen[lines[j].on] = s
    BY <1>8, <2>1, <2>2 DEF BindAt, Queued
  <2>4. PICK result : result = SentByFlush(c, world)
    OBVIOUS
  <2>5. Send(c, lines, result, Raise)
    BY <1>3, <1>8, <2>2, <2>4 DEF DoFlush
  <2>6. /\ world' = world \/ world' = result.w
        /\ \A d \in Clients : d # c => cmds'[d] = cmds[d]
        /\ (Continue /\ result.ok /\ world' = result.w /\ cmds'[c] = <<>>) \/ Raise
    BY <2>5, Sent
  <2>7. ASSUME Continue, result.ok, world' = result.w, cmds'[c] = <<>>,
               world \subseteq world',
               \A j \in 1..Len(lines) :
                  lines[j].op = "set" /\ Vsctl(chosen[lines[j].on]) = c => Bound(lines[j].on)'
        PROVE  BindAt(prog, i + 1)'
    <3>1. ASSUME NEW p \in Lports, NEW k \in 1..i, prog[k] = SetCall(p)
          PROVE  Bound(p)'
      <4>1. Vsctl(chosen[p]) \in Clients
        <5>1. chosen[p] \in Sandboxes
          BY DEF Constants
        <5> QED
          BY <5>1, ClientsTyped
      <4>2. Bound(p) \/ In(ALine("set", p), cmds[Vsctl(chosen[p])])
        BY <3>1 DEF BindAt, Delivered
      <4>3. CASE Bound(p)
        BY <1>3, <2>7, <4>3, StillBound
      <4>4. CASE In(ALine("set", p), cmds[Vsctl(chosen[p])])
        <5>1. Vsctl(chosen[p]) = c
          <6>1. cmds[Vsctl(chosen[p])] # <<>>
            BY <4>4 DEF In
          <6> QED
            BY <1>4, <4>1, <6>1
        <5>2. PICK j \in 1..Len(lines) : lines[j] = ALine("set", p)
          BY <2>2, <4>4, <5>1 DEF In
        <5>3. lines[j].op = "set" /\ lines[j].on = p
          BY <5>2 DEF ALine
        <5> QED
          BY <2>7, <5>1, <5>3
      <4> QED
        BY <4>2, <4>3, <4>4
    <3>2. \A d \in Clients : cmds'[d] = <<>>
      BY <1>4, <2>6, <2>7
    <3> QED
      BY <1>6, <2>7, <3>1, <3>2
  <2>8. CASE setup.method = "sandbox"
    <3>1. Home(s) = s /\ Place(c) = s
      BY <2>1, <2>3, <2>8 DEF Home, Place
    <3>2. result = Transaction(Home(s), lines, world)
      BY <2>2, <2>3, <2>4, <2>8, <3>1 DEF SentByFlush
    <3>3. /\ result.w \subseteq HomeFacts /\ world \subseteq result.w
          /\ \A fact \in result.w : fact \in world \/ fact[2] \in {"port", "iface"}
          /\ result.ok => \A j \in 1..Len(lines) : lines[j].op = "set" =>
                             /\ <<Home(s), "port", lines[j].on>> \in result.w
                             /\ <<Home(s), "iface", lines[j].on>> \in result.w
      <4>1. world \in SUBSET HomeFacts
        OBVIOUS
      <4> QED
        BY <2>3, <3>2, <4>1, TransactionDelivers
    <3>4. ASSUME Continue, result.ok, world' = result.w, cmds'[c] = <<>>
          PROVE  Beside' /\ BindAt(prog, i + 1)'
      <4>1. ASSUME NEW j \in 1..Len(lines), lines[j].op = "set"
            PROVE  Bound(lines[j].on)'
        BY <1>3, <2>3, <3>3, <3>4, <4>1 DEF Bound, Has, Home
      <4>2. ASSUME NEW q \in Lports
            PROVE  /\ Reached(chosen[q])
                   /\ Has("link", q)' => Has("port", q)' /\ Has("netns", q)'
        <5>1. Home(chosen[q])' = Home(chosen[q])
          BY <1>3 DEF Home
        <5>2. Has("link", q)' => Has("link", q)
          BY <3>3, <3>4, <5>1 DEF Has
        <5>3. Has("link", q) => Has("port", q) /\ Has("netns", q)
          BY DEF Beside
        <5> QED
          BY <2>8, <3>3, <3>4, <5>1, <5>2, <5>3 DEF Has, Reached
      <4>3. Beside'
        BY <1>3, <4>2 DEF Beside, Lports, Reached
      <4> QED
        BY <2>7, <3>3, <3>4, <4>1, <4>3
    <3> QED
      BY <1>3, <2>6, <3>3, <3>4
  <2>9. CASE setup.method # "sandbox"
    <3>1. result.w = world
      BY <2>3, <2>4, <2>9 DEF SentByFlush
    <3>2. ASSUME Continue, result.ok, world' = result.w, cmds'[c] = <<>>
          PROVE  Beside' /\ BindAt(prog, i + 1)'
      <4>1. ASSUME NEW j \in 1..Len(lines), Vsctl(chosen[lines[j].on]) = c
            PROVE  Bound(lines[j].on)'
        <5>1. chosen[lines[j].on] = s /\ FarmOf[s] = c[1]
          BY <2>3, <4>1 DEF Vsctl
        <5> QED
          BY <1>3, <2>3, <2>9, <5>1 DEF Bound, Reached
      <4>2. Beside'
        BY <1>3, <3>1, <3>2 DEF Beside, Has, Home, Reached, Lports
      <4> QED
        BY <2>7, <3>1, <3>2, <4>1, <4>2
    <3> QED
      BY <1>3, <2>6, <3>1, <3>2
  <2> QED
    BY <2>8, <2>9
<1> QED
  BY <1>7, <1>8

\* The invariant of the next state, from what holds at its point of the program.
LEMMA NextBind ==
  ASSUME phase' = "bind", NEW prog, ProgramOf(phase)' = prog, NEW i, At' = i,
         Beside', BindAt(prog, i)'
  PROVE  PhaseInv'
<1>1. ProgramOf("bind")' = prog
  BY DEF ProgramOf
<1> QED
  BY <1>1 DEF PhaseInv, BindAt, Prepared, Queued, Delivered

LEMMA HomeSame ==
  ASSUME TypeInv, UNCHANGED <<setup, ports, chosen>>, phase # "choose", world' \subseteq HomeFacts,
         phase' # "choose"
  PROVE  AtHome'
<1>1. HomeFacts' = HomeFacts
  BY DEF HomeFacts, Home, Lports
<1> QED
  BY <1>1 DEF AtHome

LEMMA BindStep ==
  ASSUME TypeInv, OnTrack, AtHome, PhaseInv, phase = "bind", ACall
  PROVE  OnTrack' /\ AtHome' /\ PhaseInv'
<1>1. todo # <<>> /\ UNCHANGED <<setup, ports, chosen>>
  BY TypeOfCall
<1>2. /\ Constants
      /\ \E prog, i, call : prog = ProgramOf(phase) /\ i = At /\ Point(prog, i, call)
  BY <1>1, AtPoint
<1>3. PICK prog : \E i, call : prog = ProgramOf(phase) /\ i = At /\ Point(prog, i, call)
  BY <1>2
<1>4. PICK i : \E call : prog = ProgramOf(phase) /\ i = At /\ Point(prog, i, call)
  BY <1>3
<1>5. PICK call : prog = ProgramOf(phase) /\ i = At /\ Point(prog, i, call)
  BY <1>4
<1>6. prog = ProgramOf("bind") /\ BindShape(prog, Len(prog))
  BY <1>2, <1>5, BindProgram
<1>7. BindAt(prog, i) /\ Beside /\ world \subseteq HomeFacts
  BY <1>5, <1>6 DEF PhaseInv, AtHome
<1>8. call.do \in {"set", "batch", "direct", "flush", "run"}
  <2>1. i + 1 \in 1..Len(prog) /\ call = prog[i + 1]
    BY <1>5 DEF Point
  <2>2. \/ call.do = "set"
        \/ call.do \in {"batch", "direct", "flush"}
        \/ \E p \in Lports, op \in {"add", "set"} : call = Run(Vsctl(chosen[p]), op, p)
    BY <1>6, <2>1 DEF BindShape
  <2>3. FieldsOf(call)
    BY Fields
  <2> QED
    BY <2>2, <2>3 DEF FieldsOf
<1>9. /\ world' \subseteq HomeFacts
      /\ Raise \/ (Continue /\ Beside' /\ BindAt(prog, i + 1)')
  <2>1. ASSUME UNCHANGED world
        PROVE  world' \subseteq HomeFacts /\ Beside'
    BY <1>1, <1>7, <2>1 DEF Beside, Has, Home, Reached, Lports
  <2>2. CASE DoSetSandbox
    <3>1. Continue /\ UNCHANGED world
      BY <2>2 DEF DoSetSandbox
    <3> QED
      BY <1>2, <1>5, <1>6, <1>7, <2>1, <2>2, <3>1, BindSet
  <2>3. CASE DoBatchMode
    <3>1. Continue /\ UNCHANGED world
      BY <2>3 DEF DoBatchMode
    <3> QED
      BY <1>2, <1>5, <1>6, <1>7, <2>1, <2>3, <3>1, BindMode
  <2>4. CASE DoRun
    <3>1. CASE Batched(C)
      BY <1>2, <1>5, <1>6, <1>7, <2>1, <2>4, <3>1, BindQueue
    <3>2. CASE ~Batched(C)
      BY <1>2, <1>5, <1>6, <1>7, <2>4, <3>2, BindDirect
    <3> QED
      BY <3>1, <3>2
  <2>5. CASE DoFlush
    BY <1>2, <1>5, <1>6, <1>7, <2>5, BindFlush
  <2>6. ~DoStore /\ ~DoStart /\ ~DoPing
    BY <1>5, <1>8 DEF DoStore, DoStart, DoPing, Next1, Point
  <2> QED
    BY <2>2, <2>3, <2>4, <2>5, <2>6 DEF ACall
<1>10. CASE Raise
  <2>1. phase' # "choose"
    BY <1>10 DEF Raise
  <2> QED
    BY <1>1, <1>9, <1>10, <2>1, Raised, HomeSame
<1>11. CASE Continue /\ Beside' /\ BindAt(prog, i + 1)'
  <2>1. phase' = phase /\ ProgramOf(phase)' = prog /\ At' = i + 1 /\ OnTrack'
    BY <1>1, <1>5, <1>11, Advance DEF Running
  <2> QED
    BY <1>1, <1>9, <1>11, <2>1, NextBind, HomeSame
<1> QED
  BY <1>9, <1>10, <1>11

-----------------------------------------------------------------------------
(* _bind_ovs_internal_vm *)

\* One command that is sent over the ssh client of a sandbox.
LEMMA SshLine ==
  ASSUME TypeInv, Constants, setup.internal, NEW s \in Sandboxes, NEW c, c = Ssh(s),
         cmds[c] = <<>>, NEW line, Line = line, C = c, NEW ACTION Except,
         Send(C, Append(cmds[C], Line), Shell(Place(C), Append(cmds[C], Line), world), Except)
  PROVE  /\ Len(script') <= 1
         /\ world' = world \/ world' = After(line, Home(s), world)
         /\ \A d \in Clients : d # c => cmds'[d] = cmds[d]
         /\ cmds'[c] = <<>>
         /\ \/ Continue /\ Works(line, Home(s), world) /\ world' = After(line, Home(s), world)
            \/ Except
<1>1. c \in Clients /\ c[2] = "ssh" /\ c[1] = FarmOf[s]
  BY ClientsTyped
<1>2. setup.method = "physical"
  BY DEF Constants, SetupType
<1>3. Place(c) = Home(s)
  BY <1>1, <1>2 DEF Place, Home
<1>4. Append(cmds[c], line) = <<line>>
  OBVIOUS
<1>5. PICK lines : lines = <<line>>
  OBVIOUS
<1>6. PICK result : result = Shell(Home(s), <<line>>, world)
  OBVIOUS
<1>7. result.w = After(line, Home(s), world) /\ result.ok = Works(line, Home(s), world)
  <2>1. Shell(Home(s), <<line>>, world)
          = [w |-> After(line, Home(s), world), ok |-> Works(line, Home(s), world)]
    BY OneLine, Zenon
  <2>2. result = [w |-> After(line, Home(s), world), ok |-> Works(line, Home(s), world)]
    BY <1>6, <2>1, Zenon
  <2> QED
    BY <2>2
<1>8. Send(c, lines, result, Except)
  <2>1. Append(cmds[C], Line) = lines /\ Place(C) = Home(s)
    BY <1>3, <1>4, <1>5, Zenon
  <2>2. Shell(Place(C), Append(cmds[C], Line), world) = result
    BY <1>5, <1>6, <2>1, Zenon
  <2> QED
    BY <2>1, <2>2
<1>9. /\ script' = lines
      /\ world' = world \/ world' = result.w
      /\ \A d \in Clients : d # c => cmds'[d] = cmds[d]
      /\ \/ Continue /\ result.ok /\ world' = result.w /\ cmds'[c] = <<>>
         \/ Except /\ cmds'[c] \in {<<>>, LeftWhenRaised(c, lines)}
  BY <1>1, <1>8, Sent
<1>10. Len(script') <= 1
  BY <1>5, <1>9
<1>11. LeftWhenRaised(c, lines) = <<>>
  BY <1>1 DEF LeftWhenRaised
<1> QED
  BY <1>7, <1>9, <1>10, <1>11

\* A port is configured by the last of its commands: each needs what the ones
\* before it made.
LEMMA VmRun ==
  ASSUME TypeInv, Constants, NEW prog, NEW i, NEW call, Point(prog, i, call),
         VmShape(prog, Len(prog)), VmAt(prog, i), Beside, world \subseteq HomeFacts, DoRun
  PROVE  /\ world' \subseteq HomeFacts /\ UNCHANGED <<setup, ports, chosen>>
         /\ StoredConfigured'
         /\ Raise \/ (Continue /\ Beside' /\ VmAt(prog, i + 1)')
<1>1. /\ i \in Nat /\ i + 1 \in 1..Len(prog) /\ call = prog[i + 1] /\ call.do = "run"
      /\ C = call.client /\ Line = ALine(call.op, call.on)
  BY DEF Point, DoRun, Next1
<1>2. PICK p \in Lports, op \in VmOps : call = Run(Ssh(chosen[p]), op, p)
  <2>1. VmCall(call) /\ FieldsOf(call)
    BY <1>1, Fields DEF VmShape
  <2> QED
    BY <1>1, <2>1 DEF VmCall, FieldsOf
<1>3. call.client = Ssh(chosen[p]) /\ call.op = op /\ call.on = p
  <2>1. FieldsOf(call)
    BY Fields
  <2> QED
    BY <1>2, <2>1 DEF FieldsOf
<1>4. PICK s \in Sandboxes : s = chosen[p]
  BY DEF Constants
<1>5. PICK c \in Clients : c = Ssh(s)
  BY ClientsTyped
<1>6. C = c /\ c[2] = "ssh" /\ cmds[c] = <<>> /\ ~batch[c]
  BY <1>1, <1>3, <1>4, <1>5, ClientsTyped DEF VmAt, DirectSsh
<1>7. PICK line : line = ALine(op, p)
  OBVIOUS
<1>8. line \in Lines /\ line.op = op /\ line.on = p
  BY <1>7 DEF ALine, Lines, Ops
<1>9. /\ Send(C, Append(cmds[C], Line), Shell(Place(C), Append(cmds[C], Line), world), Raise)
      /\ batch' = [batch EXCEPT ![c] = FALSE]
      /\ UNCHANGED <<setup, ports, chosen, name, context>>
  BY <1>6 DEF DoRun, Batched
<1>10. /\ Len(script') <= 1
       /\ world' = world \/ world' = After(line, Home(s), world)
       /\ \A d \in Clients : d # c => cmds'[d] = cmds[d]
       /\ cmds'[c] = <<>>
       /\ \/ Continue /\ Works(line, Home(s), world) /\ world' = After(line, Home(s), world)
          \/ Raise
  <2>1. Line = line /\ setup.internal
    BY <1>1, <1>3, <1>7 DEF VmAt
  <2> QED
    BY <1>5, <1>6, <1>9, <2>1, SshLine
<1>11. world' \subseteq HomeFacts
  BY <1>4, <1>8, <1>10, AfterAtHome
<1>12. StoredConfigured'
  <2>1. Effect(line.op).removes = {}
    BY <1>8, Effects DEF VmOps
  <2>2. world \subseteq world'
    BY <1>10, <2>1, KeepsAll
  <2> QED
    BY <1>9, <2>2 DEF VmAt, StoredConfigured, Configured, Has, Home
<1>13. ASSUME Continue, Works(line, Home(s), world), world' = After(line, Home(s), world)
       PROVE  Beside' /\ VmAt(prog, i + 1)'
  <2>1. Effect(op).removes = {} /\ Effect(op).adds \subseteq {"netns", "link", "up"}
    BY Effects DEF VmOps
  <2>2. world \subseteq world'
    BY <1>8, <1>13, <2>1, KeepsAll
  <2>3. ASSUME NEW fact \in world', fact \notin world
        PROVE  fact[2] \in Effect(op).adds /\ fact[3] = p
    <3>1. \E what \in Effect(line.op).adds : fact = <<Home(s), what, line.on>>
      BY <1>13, <2>3, AfterFacts
    <3> QED
      BY <1>8, <3>1
  <2>4. /\ \A what \in Effect(op).adds : <<Home(s), what, p>> \in world'
        /\ \A what \in Effect(op).needs : <<Home(s), what, p>> \in world
    <3>1. /\ \A what \in Effect(line.op).adds : <<Home(s), what, line.on>> \in After(line, Home(s), world)
          /\ \A what \in Effect(line.op).needs : <<Home(s), what, line.on>> \in world
      BY <1>13, WorksAdds
    <3> QED
      BY <1>8, <1>13, <3>1
  <2>5. Beside'
    <3>1. ASSUME NEW q \in Lports
          PROVE  /\ Has("port", q)' => Reached(chosen[q])
                 /\ Has("link", q)' => Has("port", q)' /\ Has("netns", q)'
      <4>1. Home(chosen[q])' = Home(chosen[q])
        BY <1>9 DEF Home
      <4>2. Has("port", q)' => Has("port", q)
        BY <2>1, <2>3, <4>1 DEF Has
      <4>3. Has("link", q) => Has("port", q) /\ Has("netns", q)
        BY DEF Beside
      <4>4. CASE Has("link", q)' /\ ~Has("link", q)
        <5>1. q = p /\ "link" \in Effect(op).adds
          BY <2>3, <4>1, <4>4 DEF Has
        <5>2. op = "moveIn"
          BY <5>1, Effects DEF VmOps
        <5>3. Effect(op).needs = {"port", "netns"}
          BY <5>2, Effects
        <5> QED
          BY <1>4, <2>2, <2>4, <4>1, <4>2, <5>1, <5>3 DEF Has, Beside
      <4> QED
        BY <2>2, <4>1, <4>2, <4>3, <4>4 DEF Beside, Has
    <3> QED
      BY <1>9, <3>1 DEF Beside, Lports, Reached
  <2>6. op = "configure" => Configured(p)'
    <3>1. ASSUME op = "configure"
          PROVE  Configured(p)'
      <4>1. Effect(op).needs = {"link"} /\ Effect(op).adds = {"up"}
        BY <3>1, Effects
      <4>2. Has("link", p) /\ Has("port", p) /\ Has("netns", p)
        BY <1>4, <2>4, <4>1 DEF Has, Beside
      <4>3. Has("iface", p)
        BY <4>2 DEF Beside, VmAt, AllBound, Bound
      <4>4. Home(chosen[p])' = Home(chosen[p])
        BY <1>9 DEF Home
      <4> QED
        BY <1>4, <2>2, <2>4, <4>1, <4>2, <4>3, <4>4 DEF Configured, Has, Facts
    <3> QED
      BY <3>1
  <2>7. NothingQueued' /\ DirectSsh'
    <3>1. \A d \in Clients : batch'[d] = IF d = c THEN FALSE ELSE batch[d]
      BY <1>9 DEF TypeInv
    <3> QED
      BY <1>10, <3>1 DEF VmAt, NothingQueued, DirectSsh
  <2>8. AllBound'
    BY <1>9, <2>2, StillBound DEF VmAt, AllBound, Lports
  <2>9. prog[i + 1].on = p /\ prog[i + 1].op = op /\ prog[i + 1].do = "run"
    BY <1>1, <1>3
  <2> QED
    BY <1>9, <1>10, <1>12, <2>5, <2>6, <2>7, <2>8, <2>9 DEF VmAt
<1> QED
  BY <1>9, <1>10, <1>11, <1>12, <1>13

\* The calls that send nothing: a port is stored after all its commands.
LEMMA VmOther ==
  ASSUME TypeInv, Constants, NEW prog, NEW i, NEW call, Point(prog, i, call),
         VmShape(prog, Len(prog)), VmAt(prog, i), Beside, DoSetSandbox \/ DoFlush \/ DoStore
  PROVE  /\ Continue /\ UNCHANGED <<world, setup, ports, chosen>>
         /\ VmAt(prog, i + 1)'
<1>1. /\ i \in Nat /\ i + 1 \in 1..Len(prog) /\ call = prog[i + 1] /\ call.client \in Clients
      /\ call.do \in {"set", "flush", "store"} /\ C = call.client /\ P = call.on
  BY DEF Point, DoSetSandbox, DoFlush, DoStore, Next1
<1>2. /\ Continue /\ UNCHANGED <<world, setup, ports, chosen, batch, cmds, script>>
      /\ UNCHANGED context \/ (call.do = "store" /\ context' = Append(context, P))
  <2>1. cmds[C] = <<>>
    BY <1>1 DEF VmAt, NothingQueued
  <2>2. Next1("store") => call.do = "store"
    BY DEF Next1, Point
  <2> QED
    BY <2>1, <2>2 DEF DoSetSandbox, DoFlush, DoStore
<1>3. UNCHANGED <<NothingQueued, DirectSsh, AllBound>>
  BY <1>2 DEF NothingQueued, DirectSsh, AllBound, Bound, Has, Home, Reached, Lports
<1>4. \A p : Configured(p)' = Configured(p)
  BY <1>2 DEF Configured, Has, Home
<1>5. StoredConfigured'
  <2>1. CASE UNCHANGED context
    BY <1>4, <2>1 DEF VmAt, StoredConfigured
  <2>2. CASE call.do = "store" /\ context' = Append(context, P)
    <3>1. /\ i + 1 >= 3 /\ prog[(i + 1) - 1].do = "flush"
          /\ prog[(i + 1) - 2] = Run(Ssh(chosen[call.on]), "configure", call.on)
      BY <1>1, <2>2 DEF VmShape
    <3>2. (i + 1) - 1 = i /\ (i + 1) - 2 = i - 1 /\ i >= 2
      BY <1>1, <3>1
    <3>3. prog[i - 1].do = "run" /\ prog[i - 1].op = "configure" /\ prog[i - 1].on = call.on
      <4>1. prog[i - 1] = Run(Ssh(chosen[call.on]), "configure", call.on)
        BY <3>1, <3>2
      <4>2. FieldsOf(prog[i - 1])
        BY Fields
      <4> QED
        BY <4>1, <4>2 DEF FieldsOf
    <3>4. Configured(call.on)
      BY <3>1, <3>2, <3>3 DEF VmAt
    <3>5. /\ Len(context) \in Nat /\ Len(context') = Len(context) + 1
          /\ \A j \in 1..Len(context) : context'[j] = context[j]
          /\ context'[Len(context) + 1] = call.on
      BY <1>1, <2>2 DEF TypeInv
    <3>6. \A j \in 1..Len(context') : j \in 1..Len(context) \/ j = Len(context) + 1
      BY <3>5
    <3> QED
      BY <1>4, <3>4, <3>5, <3>6 DEF VmAt, StoredConfigured
  <2> QED
    BY <1>2, <2>1, <2>2
<1>6. i + 1 >= 2 /\ prog[i + 1].do = "flush" /\ prog[(i + 1) - 1].do = "run"
         /\ prog[(i + 1) - 1].op = "configure" => Configured(prog[(i + 1) - 1].on)
  <2>1. (i + 1) - 1 = i /\ (i + 1 >= 2 => i >= 1)
    BY <1>1
  <2> QED
    BY <2>1 DEF VmAt
<1>7. (\E k \in 1..(i + 1) : prog[k].do = "run") => Len(script) <= 1
  <2>1. \A k \in 1..(i + 1) : prog[k].do = "run" => k \in 1..i
    BY <1>1
  <2> QED
    BY <2>1 DEF VmAt
<1>8. prog[i + 1].do # "run"
  BY <1>1
<1> QED
  BY <1>2, <1>3, <1>4, <1>5, <1>6, <1>7, <1>8 DEF VmAt

LEMMA NextVm ==
  ASSUME phase' = "vm", NEW prog, ProgramOf(phase)' = prog, NEW i, At' = i,
         Beside', VmAt(prog, i)'
  PROVE  PhaseInv'
<1>1. ProgramOf("vm")' = prog
  BY DEF ProgramOf
<1> QED
  BY <1>1 DEF PhaseInv, VmAt

LEMMA VmStep ==
  ASSUME TypeInv, OnTrack, AtHome, PhaseInv, phase = "vm", ACall
  PROVE  OnTrack' /\ AtHome' /\ PhaseInv' /\ StoredConfigured'
<1>1. todo # <<>> /\ UNCHANGED <<setup, ports, chosen>>
  BY TypeOfCall
<1>2. /\ Constants
      /\ \E prog, i, call : prog = ProgramOf(phase) /\ i = At /\ Point(prog, i, call)
  BY <1>1, AtPoint
<1>3. PICK prog : \E i, call : prog = ProgramOf(phase) /\ i = At /\ Point(prog, i, call)
  BY <1>2
<1>4. PICK i : \E call : prog = ProgramOf(phase) /\ i = At /\ Point(prog, i, call)
  BY <1>3
<1>5. PICK call : prog = ProgramOf(phase) /\ i = At /\ Point(prog, i, call)
  BY <1>4
<1>6. prog = ProgramOf("vm") /\ VmShape(prog, Len(prog))
  BY <1>2, <1>5, VmProgram
<1>7. VmAt(prog, i) /\ Beside /\ world \subseteq HomeFacts
  BY <1>5, <1>6 DEF PhaseInv, AtHome
<1>8. call.do \in {"set", "flush", "run", "store"}
  <2>1. i + 1 \in 1..Len(prog) /\ call = prog[i + 1]
    BY <1>5 DEF Point
  <2>2. VmCall(call) /\ FieldsOf(call)
    BY <1>6, <2>1, Fields DEF VmShape
  <2> QED
    BY <2>2 DEF FieldsOf, VmCall
<1>9. /\ world' \subseteq HomeFacts /\ StoredConfigured'
      /\ Raise \/ (Continue /\ Beside' /\ VmAt(prog, i + 1)')
  <2>1. CASE DoRun
    BY <1>2, <1>5, <1>6, <1>7, <2>1, VmRun
  <2>2. CASE DoSetSandbox \/ DoFlush \/ DoStore
    <3>1. Continue /\ UNCHANGED <<world, setup, ports, chosen>> /\ VmAt(prog, i + 1)'
      BY <1>2, <1>5, <1>6, <1>7, <2>2, VmOther
    <3>2. Beside'
      BY <1>7, <3>1 DEF Beside, Has, Home, Reached, Lports
    <3> QED
      BY <1>7, <3>1, <3>2 DEF VmAt
  <2>3. ~DoBatchMode /\ ~DoStart /\ ~DoPing
    BY <1>5, <1>8 DEF DoBatchMode, DoStart, DoPing, Next1, Point
  <2> QED
    BY <2>1, <2>2, <2>3 DEF ACall
<1>10. CASE Raise
  <2>1. phase' # "choose"
    BY <1>10 DEF Raise
  <2> QED
    BY <1>1, <1>9, <1>10, <2>1, Raised, HomeSame
<1>11. CASE Continue /\ Beside' /\ VmAt(prog, i + 1)'
  <2>1. phase' = phase /\ ProgramOf(phase)' = prog /\ At' = i + 1 /\ OnTrack'
    BY <1>1, <1>5, <1>11, Advance DEF Running
  <2> QED
    BY <1>1, <1>9, <1>11, <2>1, NextVm, HomeSame
<1> QED
  BY <1>9, <1>10, <1>11

-----------------------------------------------------------------------------
(* _wait_up_port_ping *)

\* A ping leaves everything as it was but the script, and may be repeated.
LEMMA WaitStep ==
  ASSUME TypeInv, OnTrack, AtHome, PhaseInv, phase = "wait", ACall
  PROVE  OnTrack' /\ AtHome' /\ PhaseInv' /\ StoredConfigured'
<1>1. todo # <<>> /\ UNCHANGED <<setup, ports, chosen>>
  BY TypeOfCall
<1>2. /\ Constants
      /\ \E prog, i, call : prog = ProgramOf(phase) /\ i = At /\ Point(prog, i, call)
  BY <1>1, AtPoint
<1>3. PICK prog : \E i, call : prog = ProgramOf(phase) /\ i = At /\ Point(prog, i, call)
  BY <1>2
<1>4. PICK i : \E call : prog = ProgramOf(phase) /\ i = At /\ Point(prog, i, call)
  BY <1>3
<1>5. PICK call : prog = ProgramOf(phase) /\ i = At /\ Point(prog, i, call)
  BY <1>4
<1>6. WaitCall(call) /\ FieldsOf(call)
  <2>1. i + 1 \in 1..Len(prog) /\ call = prog[i + 1] /\ prog = ProgramOf("wait")
    BY <1>5 DEF Point
  <2> QED
    BY <1>2, <2>1, WaitProgram, Fields
<1>7. WaitAt /\ Beside /\ world \subseteq HomeFacts
  BY DEF PhaseInv, AtHome
<1>8. /\ UNCHANGED <<world, context>> /\ NothingQueued' /\ Len(script') <= 1
      /\ Raise \/ Continue \/ UNCHANGED <<todo, phase>>
  <2>1. CASE DoSetSandbox \/ DoBatchMode \/ DoStart
    BY <1>7, <2>1 DEF DoSetSandbox, DoBatchMode, DoStart, WaitAt, NothingQueued
  <2>2. CASE DoPing
    <3>1. call.do = "ping" /\ C = call.client /\ Line = ALine(call.op, call.on)
      BY <1>5, <2>2 DEF DoPing, Next1, Point
    <3>2. PICK p \in Lports : call = Call("ping", Ssh(chosen[p]), "ping", p)
      BY <1>6, <3>1 DEF WaitCall
    <3>3. call.client = Ssh(chosen[p]) /\ call.op = "ping" /\ call.on = p
      BY <1>6, <3>2 DEF FieldsOf
    <3>4. PICK s \in Sandboxes : s = chosen[p]
      BY <1>2 DEF Constants
    <3>5. PICK c \in Clients : c = Ssh(s)
      BY <1>2, ClientsTyped
    <3>6. PICK line : line = ALine("ping", p)
      OBVIOUS
    <3>7. C = c /\ cmds[c] = <<>> /\ Line = line /\ line.op = "ping"
      BY <1>7, <3>1, <3>3, <3>4, <3>5, <3>6 DEF WaitAt, NothingQueued, ALine
    <3> DEFINE Except == IF WaitOver THEN Raise ELSE UNCHANGED <<todo, phase>>
    <3>8. /\ Send(C, Append(cmds[C], Line), Shell(Place(C), Append(cmds[C], Line), world), Except)
          /\ UNCHANGED context
      BY <2>2 DEF DoPing
    <3> HIDE DEF Except
    <3>9. /\ Len(script') <= 1
          /\ world' = world \/ world' = After(line, Home(s), world)
          /\ \A d \in Clients : d # c => cmds'[d] = cmds[d]
          /\ cmds'[c] = <<>>
          /\ Continue \/ Except
      <4>1. setup.internal
        BY <1>7 DEF WaitAt
      <4> QED
        BY <1>2, <3>5, <3>7, <3>8, <4>1, SshLine
    <3>10. After(line, Home(s), world) = world
      <4>1. Effect(line.op).adds = {} /\ Effect(line.op).removes = {}
        BY <3>7, Effects
      <4> QED
        BY <4>1 DEF After
    <3>11. NothingQueued'
      BY <1>7, <3>9 DEF WaitAt, NothingQueued
    <3> QED
      BY <3>8, <3>9, <3>10, <3>11 DEF Except
  <2>3. ~DoRun /\ ~DoFlush /\ ~DoStore
    BY <1>5, <1>6 DEF WaitCall, FieldsOf, DoRun, DoFlush, DoStore, Next1, Point
  <2> QED
    BY <2>1, <2>2, <2>3 DEF ACall
<1>9. WaitAt' /\ Beside' /\ world' \subseteq HomeFacts
  BY <1>1, <1>7, <1>8
     DEF WaitAt, Beside, AllBound, Bound, StoredConfigured, Configured, Has, Home, Reached, Lports
<1>10. StoredConfigured'
  BY <1>9 DEF WaitAt
<1>11. phase' = "wait" => PhaseInv'
  BY <1>9 DEF PhaseInv
<1>12. CASE Raise
  <2>1. phase' # "choose"
    BY <1>12 DEF Raise
  <2> QED
    BY <1>1, <1>9, <1>10, <1>12, <2>1, Raised, HomeSame
<1>13. CASE Continue
  <2>1. phase' = phase /\ OnTrack'
    BY <1>1, <1>5, <1>13, Advance DEF Running
  <2> QED
    BY <1>1, <1>9, <1>10, <1>11, <2>1, HomeSame
<1>14. CASE UNCHANGED <<todo, phase>>
  <2>1. ProgramOf("wait")' = ProgramOf("wait")
    BY <1>1, ProgramSame DEF Running
  <2>2. ProgramOf(phase)' = ProgramOf(phase)
    <3>1. ProgramOf(phase)' = ProgramOf("wait")'
      BY <1>14 DEF ProgramOf
    <3> QED
      BY <2>1, <3>1
  <2>3. OnTrack'
    BY <1>14, <2>2 DEF OnTrack, At
  <2> QED
    BY <1>1, <1>9, <1>10, <1>11, <1>14, <2>3, HomeSame
<1> QED
  BY <1>8, <1>12, <1>13, <1>14

-----------------------------------------------------------------------------
(* _cleanup_ovs_internal_ports *)

\* What is removed stays so, and only a cleanup of internal ports removes.
LEMMA StillClean ==
  ASSUME UNCHANGED <<setup, ports, chosen>>, world' \subseteq world, NEW p
  PROVE  /\ OnlyNetns(p) => OnlyNetns(p)'
         /\ ~Has("netns", p) => ~Has("netns", p)'
BY DEF OnlyNetns, Has, Home

LEMMA CleanMeans ==
  ASSUME TypeInv, Constants, NEW prog, prog = ProgramOf("cleanup"), NEW i,
         CleanAt(prog, i), NEW k \in 1..Len(prog), prog[k].do = "run"
  PROVE  setup.cleanup /\ setup.internal
<1>1. CleanShape(prog, Len(prog)) /\ (~setup.cleanup => prog = <<>>)
  BY CleanProgram DEF TypeInv
<1>2. setup.cleanup
  <2>1. prog # <<>>
    OBVIOUS
  <2> QED
    BY <1>1, <2>1
<1>3. CleanCall(prog[k]) /\ FieldsOf(prog[k])
  BY <1>1, Fields DEF CleanShape
<1>4. \E j : j \in 1..Len(context)
  BY <1>3 DEF CleanCall, FieldsOf
<1>5. context # <<>>
  BY <1>4
<1> QED
  BY <1>2, <1>5 DEF CleanAt, Constants, SetupType

\* The calls that change neither what is queued nor the world.
LEMMA CleanQuiet ==
  ASSUME TypeInv, Constants, NEW prog, NEW i, NEW call, Point(prog, i, call),
         CleanAt(prog, i), call.do # "run",
         call.do = "flush" => \A c \in Clients : call.client = c => cmds[c] = <<>>,
         UNCHANGED <<setup, ports, chosen, cmds, world, context>>
  PROVE  CleanAt(prog, i + 1)'
<1>1. i \in Nat /\ call = prog[i + 1]
  BY DEF Point
<1>2. \A k \in 1..(i + 1) : prog[k].do = "run" => k \in 1..i
  BY <1>1
<1>3. ASSUME NEW c \in Clients, cmds[c] # <<>>
      PROVE  \E k \in 1..(i + 1) : /\ prog[k].do = "run" /\ prog[k].client = c
                                   /\ \A m \in (k + 1)..(i + 1) : prog[m] # Flush(c)
  <2>1. PICK k \in 1..i : /\ prog[k].do = "run" /\ prog[k].client = c
                          /\ \A m \in (k + 1)..i : prog[m] # Flush(c)
    BY <1>3 DEF CleanAt
  <2>2. call # Flush(c)
    <3>1. FieldsOf(call)
      BY Fields
    <3> QED
      BY <1>3, <3>1 DEF FieldsOf
  <2>3. \A m \in (k + 1)..(i + 1) : m \in (k + 1)..i \/ m = i + 1
    BY <1>1
  <2>4. k \in 1..(i + 1)
    BY <1>1
  <2> QED
    BY <1>1, <2>1, <2>2, <2>3, <2>4
<1>4. ASSUME NEW p \in Lports, NEW k \in 1..(i + 1)
      PROVE  /\ prog[k] = Run(Vsctl(chosen[p]), "del", p) => OnlyNetns(p)
             /\ prog[k] = Run(Ssh(chosen[p]), "nsDel", p) =>
                   ~Has("netns", p) \/ In(ALine("nsDel", p), cmds[Ssh(chosen[p])])
  <2>1. FieldsOf(prog[k])
    BY Fields
  <2>2. ASSUME prog[k].do = "run"
        PROVE  k \in 1..i
    BY <1>2, <2>2
  <2>3. /\ prog[k] = Run(Vsctl(chosen[p]), "del", p) => prog[k].do = "run"
        /\ prog[k] = Run(Ssh(chosen[p]), "nsDel", p) => prog[k].do = "run"
    BY <2>1 DEF FieldsOf
  <2> QED
    BY <2>2, <2>3 DEF CleanAt
<1>5. /\ context # <<>> => setup.internal
      /\ (setup.cleanup /\ setup.internal) \/ AllBound
      /\ \A j \in 1..Len(context) : Reached(chosen[context[j]])
      /\ \A c \in Clients : cmds[c] # <<>> =>
            /\ c[2] = "ssh"
            /\ \A j \in 1..Len(cmds[c]) :
                  cmds[c][j].op = "nsDel" /\ Ssh(chosen[cmds[c][j].on]) = c
  BY DEF CleanAt
<1>6. AllBound' = AllBound /\ \A p : OnlyNetns(p)' = OnlyNetns(p) /\ Has("netns", p)' = Has("netns", p)
  BY DEF AllBound, Bound, OnlyNetns, Has, Home, Reached, Lports
<1>7. \A p \in Lports : \A k \in 1..(i + 1) :
         /\ prog[k] = Run(Vsctl(chosen[p]), "del", p) => OnlyNetns(p)'
         /\ prog[k] = Run(Ssh(chosen[p]), "nsDel", p) =>
               ~Has("netns", p)' \/ In(ALine("nsDel", p), cmds'[Ssh(chosen[p])])
  BY <1>4, <1>6
<1>8. \A c \in Clients : cmds'[c] # <<>> =>
         /\ c[2] = "ssh"
         /\ \E k \in 1..(i + 1) : /\ prog[k].do = "run" /\ prog[k].client = c
                                  /\ \A m \in (k + 1)..(i + 1) : prog[m] # Flush(c)
         /\ \A j \in 1..Len(cmds'[c]) :
               cmds'[c][j].op = "nsDel" /\ Ssh(chosen[cmds'[c][j].on]) = c
  BY <1>3, <1>5
<1> QED
  BY <1>5, <1>6, <1>7, <1>8 DEF CleanAt, Reached, Lports, Run, Vsctl, Ssh

\* The port of a container is deleted at once, with all that depended on it.
LEMMA CleanDel ==
  ASSUME TypeInv, Constants, NEW prog, NEW i, NEW call, Point(prog, i, call),
         prog = ProgramOf("cleanup"), CleanAt(prog, i), DoRun,
         NEW j \in 1..Len(context), call = Run(Vsctl(chosen[context[j]]), "del", context[j])
  PROVE  /\ world' \subseteq world /\ UNCHANGED <<setup, ports, chosen, context>>
         /\ Raise \/ (Continue /\ CleanAt(prog, i + 1)')
<1>1. /\ i \in Nat /\ i + 1 \in 1..Len(prog) /\ call = prog[i + 1] /\ call.do = "run"
      /\ C = call.client /\ Line = ALine(call.op, call.on)
  BY DEF Point, DoRun, Next1
<1>2. PICK q \in Lports : q = context[j]
  BY DEF TypeInv
<1>3. PICK s \in Sandboxes : s = chosen[q]
  BY DEF Constants
<1>4. PICK c \in Clients : c = Vsctl(s)
  BY ClientsTyped
<1>5. call.client = c /\ call.op = "del" /\ call.on = q /\ C = c
  <2>1. FieldsOf(call)
    BY Fields
  <2> QED
    BY <1>1, <1>2, <1>3, <1>4, <2>1 DEF FieldsOf
<1>6. setup.cleanup /\ setup.internal
  BY <1>1, CleanMeans
<1>7. setup.method = "physical" /\ c[2] = "vsctl" /\ c[1] = FarmOf[s] /\ c[1] \in setup.containers
  <2>1. setup.method = "physical"
    BY <1>6 DEF Constants, SetupType
  <2>2. c[2] = "vsctl" /\ c[1] = FarmOf[s]
    BY <1>4, ClientsTyped
  <2>3. Reached(s)
    BY <1>2, <1>3 DEF CleanAt
  <2> QED
    BY <2>1, <2>2, <2>3 DEF Reached
<1>8. cmds[c] = <<>> /\ ~Batched(c) /\ Place(c) = Home(s)
  BY <1>7 DEF CleanAt, Batched, Place, Home
<1>9. PICK line : line = ALine("del", q)
  OBVIOUS
<1>10. line.op = "del" /\ line.on = q /\ Line = line
  BY <1>1, <1>5, <1>9 DEF ALine
<1>11. PICK lines : lines = <<line>>
  OBVIOUS
<1>12. PICK result : result = Shell(Home(s), <<line>>, world)
  OBVIOUS
<1>13. result.w = After(line, Home(s), world) /\ result.ok = Works(line, Home(s), world)
  <2>1. Shell(Home(s), <<line>>, world)
          = [w |-> After(line, Home(s), world), ok |-> Works(line, Home(s), world)]
    BY OneLine, Zenon
  <2>2. result = [w |-> After(line, Home(s), world), ok |-> Works(line, Home(s), world)]
    BY <1>12, <2>1, Zenon
  <2> QED
    BY <2>2
<1>14. Send(c, lines, result, Raise) /\ UNCHANGED <<setup, ports, chosen, context>>
  <2>1. Append(cmds[c], line) = <<line>>
    BY <1>8
  <2>2. /\ Send(C, Append(cmds[C], Line), Shell(Place(C), Append(cmds[C], Line), world), Raise)
        /\ UNCHANGED <<setup, ports, chosen, context>>
    BY <1>5, <1>8 DEF DoRun
  <2>3. Append(cmds[C], Line) = lines /\ Place(C) = Home(s) /\ C = c
    BY <1>5, <1>8, <1>10, <1>11, <2>1, Zenon
  <2>4. Shell(Place(C), Append(cmds[C], Line), world) = result
    BY <1>11, <1>12, <2>3, Zenon
  <2> QED
    BY <2>2, <2>3, <2>4
<1>15. /\ world' = world \/ world' = result.w
       /\ \A d \in Clients : d # c => cmds'[d] = cmds[d]
       /\ (Continue /\ result.ok /\ world' = result.w /\ cmds'[c] = <<>>) \/ Raise
  BY <1>14, Sent
<1>16. /\ Effect("del").adds = {} /\ Effect("del").removes = Facts \ {"netns"}
  BY Effects
<1>17. After(line, Home(s), world) \subseteq world
  BY <1>10, <1>16 DEF After
<1>18. ASSUME Continue, result.ok, world' = result.w, cmds'[c] = <<>>
       PROVE  CleanAt(prog, i + 1)'
  <2>1. world' \subseteq world
    BY <1>13, <1>17, <1>18
  <2>2. OnlyNetns(q)'
    <3>1. \A what \in Facts \ {"netns"} : <<Home(s), what, q>> \notin world'
      <4>1. Works(line, Home(s), world)
        BY <1>13, <1>18
      <4>2. world' = (world \ {<<Home(s), what, line.on>> : what \in Effect(line.op).removes})
                     \cup {<<Home(s), what, line.on>> : what \in Effect(line.op).adds}
        BY <1>13, <1>18, <4>1 DEF After
      <4> QED
        BY <1>10, <1>16, <4>2
    <3> QED
      BY <1>3, <1>14, <3>1 DEF OnlyNetns, Has, Home
  <2>3. \A k \in 1..(i + 1) : k \in 1..i \/ k = i + 1
    BY <1>1
  <2>4. ASSUME NEW d \in Clients, cmds'[d] # <<>>
        PROVE  /\ d # c /\ cmds'[d] = cmds[d] /\ cmds[d] # <<>>
               /\ \E k \in 1..(i + 1) : /\ prog[k].do = "run" /\ prog[k].client = d
                                        /\ \A m \in (k + 1)..(i + 1) : prog[m] # Flush(d)
    <3>1. d # c /\ cmds'[d] = cmds[d] /\ cmds[d] # <<>>
      BY <1>15, <1>18, <2>4
    <3>2. PICK k \in 1..i : /\ prog[k].do = "run" /\ prog[k].client = d
                            /\ \A m \in (k + 1)..i : prog[m] # Flush(d)
      BY <3>1 DEF CleanAt
    <3>3. call # Flush(d)
      <4>1. FieldsOf(call)
        BY Fields
      <4> QED
        BY <1>5, <3>1, <4>1 DEF FieldsOf
    <3>4. k \in 1..(i + 1) /\ \A m \in (k + 1)..(i + 1) : m \in (k + 1)..i \/ m = i + 1
      BY <1>1
    <3> QED
      BY <1>1, <3>1, <3>2, <3>3, <3>4
  <2>5. ASSUME NEW p \in Lports, NEW k \in 1..(i + 1)
        PROVE  /\ prog[k] = Run(Vsctl(chosen[p]), "del", p) => OnlyNetns(p)'
               /\ prog[k] = Run(Ssh(chosen[p]), "nsDel", p) =>
                     ~Has("netns", p)' \/ In(ALine("nsDel", p), cmds'[Ssh(chosen[p])])
    <3>1. FieldsOf(call)
      BY Fields
    <3>2. CASE k \in 1..i
      <4>1. /\ prog[k] = Run(Vsctl(chosen[p]), "del", p) => OnlyNetns(p)
            /\ prog[k] = Run(Ssh(chosen[p]), "nsDel", p) =>
                  ~Has("netns", p) \/ In(ALine("nsDel", p), cmds[Ssh(chosen[p])])
        BY <3>2 DEF CleanAt
      <4>2. Ssh(chosen[p]) \in Clients /\ Ssh(chosen[p]) # c
        <5>1. chosen[p] \in Sandboxes
          BY DEF Constants
        <5>2. Ssh(chosen[p]) \in Clients /\ Ssh(chosen[p])[2] = "ssh"
          BY <5>1, ClientsTyped
        <5> QED
          BY <1>7, <5>2
      <4>3. cmds'[Ssh(chosen[p])] = cmds[Ssh(chosen[p])]
        BY <1>15, <4>2
      <4> QED
        BY <1>14, <2>1, <4>1, <4>3, StillClean
    <3>3. CASE k = i + 1
      <4>1. prog[k] = Run(Vsctl(chosen[p]), "del", p) => p = q
        BY <1>1, <1>5, <3>1, <3>3 DEF FieldsOf
      <4>2. prog[k] = Run(Ssh(chosen[p]), "nsDel", p) => call.op = "nsDel"
        BY <1>1, <3>1, <3>3 DEF FieldsOf
      <4> QED
        BY <1>5, <2>2, <4>1, <4>2
    <3> QED
      BY <2>3, <3>2, <3>3
  <2>6. /\ context # <<>> => setup.internal
        /\ \A l \in 1..Len(context) : Reached(chosen[context[l]])
        /\ \A d \in Clients : cmds[d] # <<>> =>
              /\ d[2] = "ssh"
              /\ \A l \in 1..Len(cmds[d]) :
                    cmds[d][l].op = "nsDel" /\ Ssh(chosen[cmds[d][l].on]) = d
    BY DEF CleanAt
  <2>7. /\ context' # <<>> => setup'.internal
        /\ (setup'.cleanup /\ setup'.internal) \/ AllBound'
        /\ \A l \in 1..Len(context') : Reached(chosen[context[l]])'
    BY <1>6, <1>14, <2>6 DEF Reached
  <2>8. \A d \in Clients : cmds'[d] # <<>> =>
           /\ d[2] = "ssh"
           /\ \E k \in 1..(i + 1) : /\ prog[k].do = "run" /\ prog[k].client = d
                                    /\ \A m \in (k + 1)..(i + 1) : prog[m] # Flush(d)
           /\ \A l \in 1..Len(cmds'[d]) :
                 cmds'[d][l].op = "nsDel" /\ Ssh(chosen'[cmds'[d][l].on]) = d
    BY <1>14, <2>4, <2>6
  <2>9. \A p \in Lports' : \A k \in 1..(i + 1) :
           /\ prog[k] = Run(Vsctl(chosen'[p]), "del", p) => OnlyNetns(p)'
           /\ prog[k] = Run(Ssh(chosen'[p]), "nsDel", p) =>
                 ~Has("netns", p)' \/ In(ALine("nsDel", p), cmds'[Ssh(chosen'[p])])
    <3>1. Lports' = Lports /\ chosen' = chosen
      BY <1>14 DEF Lports
    <3> QED
      BY <2>5, <3>1
  <2> QED
    BY <2>7, <2>8, <2>9 DEF CleanAt
<1> QED
  BY <1>13, <1>14, <1>15, <1>17, <1>18

\* What a step of the cleanup of internal ports has to keep.
LEMMA CleanNext ==
  ASSUME UNCHANGED <<setup, ports, chosen, context>>, setup.cleanup, setup.internal,
         \A j \in 1..Len(context) : Reached(chosen[context[j]]), NEW prog, NEW n,
         \A c \in Clients : cmds'[c] # <<>> =>
            /\ c[2] = "ssh"
            /\ \E k \in 1..n : /\ prog[k].do = "run" /\ prog[k].client = c
                               /\ \A m \in (k + 1)..n : prog[m] # Flush(c)
            /\ \A j \in 1..Len(cmds'[c]) :
                  cmds'[c][j].op = "nsDel" /\ Ssh(chosen[cmds'[c][j].on]) = c,
         \A p \in Lports : \A k \in 1..n :
            /\ prog[k] = Run(Vsctl(chosen[p]), "del", p) => OnlyNetns(p)'
            /\ prog[k] = Run(Ssh(chosen[p]), "nsDel", p) =>
                  ~Has("netns", p)' \/ In(ALine("nsDel", p), cmds'[Ssh(chosen[p])])
  PROVE  CleanAt(prog, n)'
<1>1. \A s : Vsctl(s)' = Vsctl(s) /\ Ssh(s)' = Ssh(s)
  BY DEF Vsctl, Ssh
<1>2. Lports' = Lports /\ \A s : Reached(s)' = Reached(s)
  BY DEF Lports, Reached
<1> QED
  BY <1>1, <1>2 DEF CleanAt

\* The namespaces of a farm, deleted by one script.
LEMMA CleanSweep ==
  ASSUME TypeInv, Constants, setup.method = "physical", UNCHANGED <<setup, ports, chosen>>,
         NEW c \in Clients, c[2] = "ssh", NEW lines \in Seq(Lines),
         \A j \in 1..Len(lines) : lines[j].op = "nsDel" /\ Ssh(chosen[lines[j].on]) = c,
         Send(c, lines, Shell(Place(c), lines, world), Raise)
  PROVE  /\ world' \subseteq world
         /\ \A d \in Clients : d # c => cmds'[d] = cmds[d]
         /\ \/ Raise
            \/ /\ Continue /\ cmds'[c] = <<>>
               /\ \A j \in 1..Len(lines) : ~Has("netns", lines[j].on)'
<1>1. PICK result : result = Shell(c[1], lines, world)
  OBVIOUS
<1>2. Place(c) = c[1]
  BY DEF Place
<1>3. /\ world' = world \/ world' = result.w
      /\ \A d \in Clients : d # c => cmds'[d] = cmds[d]
      /\ (Continue /\ result.ok /\ world' = result.w /\ cmds'[c] = <<>>) \/ Raise
  BY <1>1, <1>2, Sent
<1>4. /\ result.w \subseteq world
      /\ \A j \in 1..Len(lines) : <<c[1], "netns", lines[j].on>> \notin result.w
  BY <1>1, ShellSweeps
<1>5. ASSUME NEW j \in 1..Len(lines), world' = result.w
      PROVE  ~Has("netns", lines[j].on)'
  <2>1. Home(chosen[lines[j].on])' = c[1]
    <3>1. Ssh(chosen[lines[j].on])[1] = FarmOf[chosen[lines[j].on]]
      BY DEF Ssh
    <3> QED
      BY <3>1 DEF Home
  <2> QED
    BY <1>4, <1>5, <2>1 DEF Has
<1> QED
  BY <1>3, <1>4, <1>5

LEMMA CleanNs ==
  ASSUME TypeInv, Constants, NEW prog, NEW i, NEW call, Point(prog, i, call),
         prog = ProgramOf("cleanup"), CleanAt(prog, i), DoRun,
         NEW j \in 1..Len(context), call = Run(Ssh(chosen[context[j]]), "nsDel", context[j])
  PROVE  /\ world' \subseteq world /\ UNCHANGED <<setup, ports, chosen, context>>
         /\ Raise \/ (Continue /\ CleanAt(prog, i + 1)')
<1>1. /\ i \in Nat /\ i + 1 \in 1..Len(prog) /\ call = prog[i + 1] /\ call.do = "run"
      /\ C = call.client /\ Line = ALine(call.op, call.on)
  BY DEF Point, DoRun, Next1
<1>2. PICK q \in Lports : q = context[j]
  BY DEF TypeInv
<1>3. PICK s \in Sandboxes : s = chosen[q]
  BY DEF Constants
<1>4. PICK c \in Clients : c = Ssh(s)
  BY ClientsTyped
<1>5. call.client = c /\ call.op = "nsDel" /\ call.on = q /\ C = c /\ c[2] = "ssh"
  <2>1. FieldsOf(call)
    BY Fields
  <2> QED
    BY <1>1, <1>2, <1>3, <1>4, <2>1, ClientsTyped DEF FieldsOf
<1>6. setup.cleanup /\ setup.internal /\ setup.method = "physical"
  <2>1. setup.cleanup /\ setup.internal
    BY <1>1, CleanMeans
  <2> QED
    BY <2>1 DEF Constants, SetupType
<1>7. PICK line : line = ALine("nsDel", q)
  OBVIOUS
<1>8. line \in Lines /\ line.op = "nsDel" /\ line.on = q /\ Line = line
  BY <1>1, <1>5, <1>7 DEF ALine, Lines, Ops
<1>a. PICK old \in Seq(Lines) : old = cmds[c]
  BY DEF TypeInv
<1>b. PICK lines : lines = Append(old, line)
  OBVIOUS
<1>9. lines \in Seq(Lines) /\ lines = Append(cmds[c], line)
  <2>1. lines \in Seq(Lines)
    BY <1>8, <1>b
  <2> QED
    BY <1>a, <1>b, <2>1
<1>10. /\ Len(cmds[c]) \in Nat /\ Len(lines) = Len(cmds[c]) + 1
       /\ \A l \in 1..Len(cmds[c]) : lines[l] = cmds[c][l]
       /\ lines[Len(cmds[c]) + 1] = line
  <2>1. /\ Len(old) \in Nat /\ Len(lines) = Len(old) + 1
        /\ \A l \in 1..Len(old) : lines[l] = old[l]
        /\ lines[Len(old) + 1] = line
    BY <1>b
  <2> QED
    BY <1>a, <2>1
<1>11. \A l \in 1..Len(lines) : l \in 1..Len(cmds[c]) \/ (l = Len(cmds[c]) + 1 /\ lines[l] = line)
  BY <1>10
<1>12. \A l \in 1..Len(lines) : lines[l].op = "nsDel" /\ Ssh(chosen[lines[l].on]) = c
  <2>1. ASSUME NEW l \in 1..Len(cmds[c])
        PROVE  cmds[c][l].op = "nsDel" /\ Ssh(chosen[cmds[c][l].on]) = c
    <3>1. cmds[c] # <<>>
      BY <1>10, <2>1
    <3> QED
      BY <3>1 DEF CleanAt
  <2> QED
    BY <1>3, <1>4, <1>8, <1>10, <1>11, <2>1
<1>13. In(line, lines) /\ \A e : In(e, cmds[c]) => In(e, lines)
  <2>1. Len(cmds[c]) + 1 \in 1..Len(lines) /\ \A l \in 1..Len(cmds[c]) : l \in 1..Len(lines)
    BY <1>10
  <2> QED
    BY <1>10, <2>1 DEF In
<1>14. \A k \in 1..(i + 1) : k \in 1..i \/ k = i + 1
  BY <1>1
<1>15. ASSUME NEW d \in Clients, d # c, cmds[d] # <<>>
       PROVE  \E k \in 1..(i + 1) : /\ prog[k].do = "run" /\ prog[k].client = d
                                    /\ \A m \in (k + 1)..(i + 1) : prog[m] # Flush(d)
  <2>1. PICK k \in 1..i : /\ prog[k].do = "run" /\ prog[k].client = d
                          /\ \A m \in (k + 1)..i : prog[m] # Flush(d)
    BY <1>15 DEF CleanAt
  <2>2. call # Flush(d)
    <3>1. FieldsOf(call)
      BY Fields
    <3> QED
      BY <1>1, <3>1 DEF FieldsOf
  <2>3. k \in 1..(i + 1) /\ \A m \in (k + 1)..(i + 1) : m \in (k + 1)..i \/ m = i + 1
    BY <1>1
  <2> QED
    BY <1>1, <2>1, <2>2, <2>3
<1>16. UNCHANGED <<setup, ports, chosen, context>>
  BY DEF DoRun
<1>17. /\ context # <<>> => setup.internal
       /\ \A l \in 1..Len(context) : Reached(chosen[context[l]])
       /\ \A d \in Clients : cmds[d] # <<>> =>
             /\ d[2] = "ssh"
             /\ \A l \in 1..Len(cmds[d]) :
                   cmds[d][l].op = "nsDel" /\ Ssh(chosen[cmds[d][l].on]) = d
  BY DEF CleanAt
<1>18. ASSUME NEW p \in Lports, NEW k \in 1..(i + 1), prog[k] = Run(Vsctl(chosen[p]), "del", p)
       PROVE  OnlyNetns(p)
  <2>1. FieldsOf(call)
    BY Fields
  <2>2. k # i + 1
    BY <1>1, <1>5, <1>18, <2>1 DEF FieldsOf
  <2> QED
    BY <1>14, <1>18, <2>2 DEF CleanAt
<1>19. ASSUME NEW p \in Lports, NEW k \in 1..(i + 1), prog[k] = Run(Ssh(chosen[p]), "nsDel", p)
       PROVE  \/ ~Has("netns", p) 
              \/ Ssh(chosen[p]) # c /\ In(ALine("nsDel", p), cmds[Ssh(chosen[p])])
              \/ Ssh(chosen[p]) = c /\ In(ALine("nsDel", p), lines)
  <2>1. CASE k \in 1..i
    <3>1. ~Has("netns", p) \/ In(ALine("nsDel", p), cmds[Ssh(chosen[p])])
      BY <1>19, <2>1 DEF CleanAt
    <3> QED
      BY <1>13, <3>1
  <2>2. CASE k = i + 1
    <3>1. FieldsOf(call)
      BY Fields
    <3>2. p = q
      BY <1>1, <1>5, <1>19, <2>2, <3>1 DEF FieldsOf
    <3> QED
      BY <1>3, <1>4, <1>7, <1>13, <3>2
  <2> QED
    BY <1>14, <2>1, <2>2
<1>20. \A p \in Lports : Ssh(chosen[p]) \in Clients
  <2>1. \A p \in Lports : chosen[p] \in Sandboxes
    BY DEF Constants
  <2> QED
    BY <2>1, ClientsTyped
<1>21. CASE Batched(c)
  <2>1. cmds' = [cmds EXCEPT ![c] = lines] /\ Continue /\ UNCHANGED world
    BY <1>5, <1>8, <1>9, <1>21 DEF DoRun
  <2>2. \A d \in Clients : cmds'[d] = IF d = c THEN lines ELSE cmds[d]
    BY <2>1 DEF TypeInv
  <2>3. ASSUME NEW d \in Clients, cmds'[d] # <<>>
        PROVE  /\ d[2] = "ssh"
               /\ \E k \in 1..(i + 1) : /\ prog[k].do = "run" /\ prog[k].client = d
                                        /\ \A m \in (k + 1)..(i + 1) : prog[m] # Flush(d)
               /\ \A l \in 1..Len(cmds'[d]) :
                     cmds'[d][l].op = "nsDel" /\ Ssh(chosen[cmds'[d][l].on]) = d
    <3>1. CASE d = c
      <4>1. i + 1 \in 1..(i + 1) /\ (i + 1 + 1)..(i + 1) = {}
        BY <1>1
      <4> QED
        BY <1>1, <1>5, <1>12, <2>2, <3>1, <4>1
    <3>2. CASE d # c
      BY <1>15, <1>17, <2>2, <2>3, <3>2
    <3> QED
      BY <3>1, <3>2
  <2>4. ASSUME NEW p \in Lports, NEW k \in 1..(i + 1)
        PROVE  /\ prog[k] = Run(Vsctl(chosen[p]), "del", p) => OnlyNetns(p)'
               /\ prog[k] = Run(Ssh(chosen[p]), "nsDel", p) =>
                     ~Has("netns", p)' \/ In(ALine("nsDel", p), cmds'[Ssh(chosen[p])])
    BY <1>16, <1>18, <1>19, <1>20, <2>1, <2>2, StillClean
  <2>5. CleanAt(prog, i + 1)'
    BY <1>6, <1>16, <1>17, <2>3, <2>4, CleanNext
  <2> QED
    BY <1>16, <2>1, <2>5
<1>22. CASE ~Batched(c)
  <2>1. Send(c, lines, Shell(Place(c), lines, world), Raise)
    BY <1>5, <1>8, <1>9, <1>22 DEF DoRun
  <2>a. lines \in Seq(Lines) /\ c[2] = "ssh" /\ setup.method = "physical"
    BY <1>5, <1>6, <1>9
  <2>2. /\ world' \subseteq world
        /\ \A d \in Clients : d # c => cmds'[d] = cmds[d]
        /\ \/ Raise
           \/ /\ Continue /\ cmds'[c] = <<>>
              /\ \A l \in 1..Len(lines) : ~Has("netns", lines[l].on)'
    BY <1>12, <1>16, <2>1, <2>a, CleanSweep
  <2>3. ASSUME Continue, cmds'[c] = <<>>, \A l \in 1..Len(lines) : ~Has("netns", lines[l].on)'
        PROVE  CleanAt(prog, i + 1)'
    <3>1. ASSUME NEW d \in Clients, cmds'[d] # <<>>
          PROVE  /\ d[2] = "ssh"
                 /\ \E k \in 1..(i + 1) : /\ prog[k].do = "run" /\ prog[k].client = d
                                          /\ \A m \in (k + 1)..(i + 1) : prog[m] # Flush(d)
                 /\ \A l \in 1..Len(cmds'[d]) :
                       cmds'[d][l].op = "nsDel" /\ Ssh(chosen[cmds'[d][l].on]) = d
      BY <1>15, <1>17, <2>2, <2>3, <3>1
    <3>2. ASSUME NEW p \in Lports, NEW k \in 1..(i + 1)
          PROVE  /\ prog[k] = Run(Vsctl(chosen[p]), "del", p) => OnlyNetns(p)'
                 /\ prog[k] = Run(Ssh(chosen[p]), "nsDel", p) =>
                       ~Has("netns", p)' \/ In(ALine("nsDel", p), cmds'[Ssh(chosen[p])])
      <4>1. In(ALine("nsDel", p), lines) => ~Has("netns", p)'
        <5>1. ALine("nsDel", p).on = p
          BY DEF ALine
        <5> QED
          BY <2>3, <5>1 DEF In
      <4> QED
        BY <1>16, <1>18, <1>19, <1>20, <2>2, <4>1, StillClean
    <3> QED
      BY <1>6, <1>16, <1>17, <3>1, <3>2, CleanNext
  <2> QED
    BY <1>16, <2>2, <2>3
<1> QED
  BY <1>21, <1>22

LEMMA CleanFlush ==
  ASSUME TypeInv, Constants, NEW prog, NEW i, NEW call, Point(prog, i, call),
         prog = ProgramOf("cleanup"), CleanAt(prog, i), DoFlush, cmds[C] # <<>>
  PROVE  /\ world' \subseteq world /\ UNCHANGED <<setup, ports, chosen, context>>
         /\ Raise \/ (Continue /\ CleanAt(prog, i + 1)')
<1>1. /\ i \in Nat /\ i + 1 \in 1..Len(prog) /\ call = prog[i + 1] /\ call.do = "flush"
      /\ C = call.client
  BY DEF Point, DoFlush, Next1
<1>2. PICK c \in Clients : c = call.client
  BY DEF Point
<1>3. PICK lines \in Seq(Lines) : lines = cmds[c]
  BY DEF TypeInv
<1>4. c[2] = "ssh" /\ \A l \in 1..Len(lines) : lines[l].op = "nsDel" /\ Ssh(chosen[lines[l].on]) = c
  BY <1>1, <1>2, <1>3 DEF CleanAt
<1>5. setup.cleanup /\ setup.internal /\ setup.method = "physical"
  <2>1. PICK k \in 1..i : prog[k].do = "run"
    BY <1>1, <1>2 DEF CleanAt
  <2>2. k \in 1..Len(prog)
    BY <1>1 DEF Point
  <2>3. setup.cleanup /\ setup.internal
    BY <2>1, <2>2, CleanMeans
  <2> QED
    BY <2>3 DEF Constants, SetupType
<1>6. UNCHANGED <<setup, ports, chosen, context>>
  BY DEF DoFlush
<1>7. Send(c, lines, Shell(Place(c), lines, world), Raise)
  BY <1>1, <1>2, <1>3, <1>4 DEF DoFlush, SentByFlush
<1>8. /\ world' \subseteq world
      /\ \A d \in Clients : d # c => cmds'[d] = cmds[d]
      /\ \/ Raise
         \/ /\ Continue /\ cmds'[c] = <<>>
            /\ \A l \in 1..Len(lines) : ~Has("netns", lines[l].on)'
  BY <1>4, <1>5, <1>6, <1>7, CleanSweep
<1>9. \A k \in 1..(i + 1) : k \in 1..i \/ k = i + 1
  BY <1>1
<1>10. \A p \in Lports : Ssh(chosen[p]) \in Clients
  <2>1. \A p \in Lports : chosen[p] \in Sandboxes
    BY DEF Constants
  <2> QED
    BY <2>1, ClientsTyped
<1>11. /\ context # <<>> => setup.internal
       /\ \A l \in 1..Len(context) : Reached(chosen[context[l]])
       /\ \A d \in Clients : cmds[d] # <<>> =>
             /\ d[2] = "ssh"
             /\ \A l \in 1..Len(cmds[d]) :
                   cmds[d][l].op = "nsDel" /\ Ssh(chosen[cmds[d][l].on]) = d
  BY DEF CleanAt
<1>12. FieldsOf(call)
  BY Fields
<1>13. ASSUME Continue, cmds'[c] = <<>>, \A l \in 1..Len(lines) : ~Has("netns", lines[l].on)'
       PROVE  CleanAt(prog, i + 1)'
  <2>1. ASSUME NEW d \in Clients, cmds'[d] # <<>>
        PROVE  /\ d[2] = "ssh"
               /\ \E k \in 1..(i + 1) : /\ prog[k].do = "run" /\ prog[k].client = d
                                        /\ \A m \in (k + 1)..(i + 1) : prog[m] # Flush(d)
               /\ \A l \in 1..Len(cmds'[d]) :
                     cmds'[d][l].op = "nsDel" /\ Ssh(chosen[cmds'[d][l].on]) = d
    <3>1. d # c /\ cmds'[d] = cmds[d] /\ cmds[d] # <<>>
      BY <1>8, <1>13, <2>1
    <3>2. PICK k \in 1..i : /\ prog[k].do = "run" /\ prog[k].client = d
                            /\ \A m \in (k + 1)..i : prog[m] # Flush(d)
      BY <3>1 DEF CleanAt
    <3>3. call # Flush(d)
      BY <1>2, <1>12, <3>1 DEF FieldsOf
    <3>4. k \in 1..(i + 1) /\ \A m \in (k + 1)..(i + 1) : m \in (k + 1)..i \/ m = i + 1
      BY <1>1
    <3>5. \E n \in 1..(i + 1) : /\ prog[n].do = "run" /\ prog[n].client = d
                                /\ \A m \in (n + 1)..(i + 1) : prog[m] # Flush(d)
      BY <1>1, <3>2, <3>3, <3>4
    <3> QED
      BY <1>11, <3>1, <3>5
  <2>2. ASSUME NEW p \in Lports, NEW k \in 1..(i + 1)
        PROVE  /\ prog[k] = Run(Vsctl(chosen[p]), "del", p) => OnlyNetns(p)'
               /\ prog[k] = Run(Ssh(chosen[p]), "nsDel", p) =>
                     ~Has("netns", p)' \/ In(ALine("nsDel", p), cmds'[Ssh(chosen[p])])
    <3>1. In(ALine("nsDel", p), lines) => ~Has("netns", p)'
      <4>1. ALine("nsDel", p).on = p
        BY DEF ALine
      <4> QED
        BY <1>13, <4>1 DEF In
    <3>2. CASE k \in 1..i
      <4>1. /\ prog[k] = Run(Vsctl(chosen[p]), "del", p) => OnlyNetns(p)
            /\ prog[k] = Run(Ssh(chosen[p]), "nsDel", p) =>
                  ~Has("netns", p) \/ In(ALine("nsDel", p), cmds[Ssh(chosen[p])])
        BY <3>2 DEF CleanAt
      <4>2. Ssh(chosen[p]) # c => cmds'[Ssh(chosen[p])] = cmds[Ssh(chosen[p])]
        BY <1>8, <1>10
      <4> QED
        BY <1>3, <1>6, <1>8, <3>1, <4>1, <4>2, StillClean
    <3>3. CASE k = i + 1
      BY <1>1, <1>12, <3>3 DEF FieldsOf
    <3> QED
      BY <1>9, <3>2, <3>3
  <2> QED
    BY <1>5, <1>6, <1>11, <2>1, <2>2, CleanNext
<1> QED
  BY <1>6, <1>8, <1>13

LEMMA NextClean ==
  ASSUME phase' = "cleanup", NEW prog, ProgramOf(phase)' = prog, NEW i, At' = i, CleanAt(prog, i)'
  PROVE  PhaseInv'
<1>1. ProgramOf("cleanup")' = prog
  BY DEF ProgramOf
<1> QED
  BY <1>1 DEF PhaseInv, CleanAt

LEMMA CleanStep ==
  ASSUME TypeInv, OnTrack, AtHome, PhaseInv, phase = "cleanup", ACall
  PROVE  OnTrack' /\ AtHome' /\ PhaseInv'
<1>1. todo # <<>> /\ UNCHANGED <<setup, ports, chosen>>
  BY TypeOfCall
<1>2. /\ Constants
      /\ \E prog, i, call : prog = ProgramOf(phase) /\ i = At /\ Point(prog, i, call)
  BY <1>1, AtPoint
<1>3. PICK prog : \E i, call : prog = ProgramOf(phase) /\ i = At /\ Point(prog, i, call)
  BY <1>2
<1>4. PICK i : \E call : prog = ProgramOf(phase) /\ i = At /\ Point(prog, i, call)
  BY <1>3
<1>5. PICK call : prog = ProgramOf(phase) /\ i = At /\ Point(prog, i, call)
  BY <1>4
<1>6. prog = ProgramOf("cleanup") /\ CleanShape(prog, Len(prog))
  BY <1>2, <1>5, CleanProgram DEF TypeInv
<1>7. CleanAt(prog, i) /\ world \subseteq HomeFacts
  BY <1>5, <1>6 DEF PhaseInv, AtHome
<1>8. CleanCall(call) /\ FieldsOf(call)
  <2>1. i + 1 \in 1..Len(prog) /\ call = prog[i + 1]
    BY <1>5 DEF Point
  <2> QED
    BY <1>6, <2>1, Fields DEF CleanShape
<1>9. /\ world' \subseteq world /\ UNCHANGED context
      /\ Raise \/ (Continue /\ CleanAt(prog, i + 1)')
  <2>1. ASSUME Continue, UNCHANGED <<cmds, world, context>>, call.do # "run",
               call.do = "flush" => cmds[C] = <<>>
        PROVE  CleanAt(prog, i + 1)'
    <3>1. C = call.client
      BY <1>5 DEF Point
    <3> QED
      BY <1>1, <1>2, <1>5, <1>7, <2>1, <3>1, CleanQuiet
  <2>2. ASSUME NEW do, Next1(do)
        PROVE  call.do = do
    BY <1>5, <2>2 DEF Next1, Point
  <2>3. CASE DoSetSandbox
    <3>1. call.do = "set" /\ Continue /\ UNCHANGED <<cmds, world, context>>
      BY <2>2, <2>3 DEF DoSetSandbox
    <3> QED
      BY <2>1, <3>1
  <2>4. CASE DoBatchMode
    <3>1. call.do \in {"batch", "direct"} /\ Continue /\ UNCHANGED <<cmds, world, context>>
      BY <2>2, <2>4 DEF DoBatchMode
    <3> QED
      BY <2>1, <3>1
  <2>5. CASE DoRun
    <3>1. call.do = "run"
      BY <2>2, <2>5 DEF DoRun
    <3>2. PICK j \in 1..Len(context) :
             \/ call = Run(Vsctl(chosen[context[j]]), "del", context[j])
             \/ call = Run(Ssh(chosen[context[j]]), "nsDel", context[j])
      BY <1>8, <3>1 DEF CleanCall
    <3>3. CASE call = Run(Vsctl(chosen[context[j]]), "del", context[j])
      BY <1>2, <1>5, <1>6, <1>7, <2>5, <3>3, CleanDel
    <3>4. CASE call = Run(Ssh(chosen[context[j]]), "nsDel", context[j])
      BY <1>2, <1>5, <1>6, <1>7, <2>5, <3>4, CleanNs
    <3> QED
      BY <3>2, <3>3, <3>4
  <2>6. CASE DoFlush
    <3>1. call.do = "flush"
      BY <2>2, <2>6 DEF DoFlush
    <3>2. CASE cmds[C] = <<>>
      <4>1. Continue /\ UNCHANGED <<cmds, world, context>>
        BY <2>6, <3>2 DEF DoFlush
      <4> QED
        BY <2>1, <3>1, <3>2, <4>1
    <3>3. CASE cmds[C] # <<>>
      BY <1>2, <1>5, <1>6, <1>7, <2>6, <3>3, CleanFlush
    <3> QED
      BY <3>2, <3>3
  <2>7. ~DoStore /\ ~DoStart /\ ~DoPing
    <3>1. call.do \in {"set", "batch", "flush", "run"}
      BY <1>8 DEF CleanCall, FieldsOf
    <3> QED
      BY <2>2, <3>1 DEF DoStore, DoStart, DoPing
  <2> QED
    BY <2>3, <2>4, <2>5, <2>6, <2>7 DEF ACall
<1>10. world' \subseteq HomeFacts
  BY <1>7, <1>9
<1>11. CASE Raise
  <2>1. phase' # "choose"
    BY <1>11 DEF Raise
  <2> QED
    BY <1>1, <1>10, <1>11, <2>1, Raised, HomeSame
<1>12. CASE Continue /\ CleanAt(prog, i + 1)'
  <2>1. phase' = phase /\ ProgramOf(phase)' = prog /\ At' = i + 1 /\ OnTrack'
    BY <1>1, <1>5, <1>9, <1>12, Advance DEF Running
  <2> QED
    BY <1>1, <1>10, <1>12, <2>1, NextClean, HomeSame
<1> QED
  BY <1>9, <1>11, <1>12

-----------------------------------------------------------------------------
(* From one method to the next *)

LEMMA InitInv ==
  ASSUME Init
  PROVE  IInv
<1>1. name \in [Clients -> Sandboxes \cup {Nowhere}] /\ batch \in [Clients -> BOOLEAN]
      /\ cmds \in [Clients -> Seq(Lines)]
  <2>1. <<>> \in Seq(Lines)
    OBVIOUS
  <2> QED
    BY <2>1 DEF Init
<1>2. elapsed \in 0..(WaitTimeout + 1)
  BY FarmAssumption DEF FarmAssumption, Init
<1>3. todo \in Seq(CallSet) /\ context \in Seq(Lports) /\ script \in Seq(Lines)
  BY DEF Init
<1>4. TypeInv
  BY <1>1, <1>2, <1>3 DEF Init, TypeInv, Phases
<1>5. OnTrack /\ AtHome /\ PhaseInv
  BY DEF Init, OnTrack, AtHome, PhaseInv, Running, NothingQueued, DirectSsh
<1> QED
  BY <1>4, <1>5 DEF IInv

LEMMA ChooseStep ==
  ASSUME IInv, BindPorts
  PROVE  IInv'
<1>1. Lports' = Lports /\ Lines' = Lines /\ CallSet' = CallSet
  BY DEF BindPorts, Lports, Lines, CallSet
<1>2. chosen' \in [Lports -> Sandboxes]
  <2>1. ports \in Nat \ {0}
    BY FarmAssumption DEF FarmAssumption, IInv, TypeInv
  <2>2. \A p \in Lports : SliceOf(p, ports) \in Sandboxes
    BY <2>1, SliceHasSandbox DEF Lports
  <2>3. [p \in Lports |-> SliceOf(p, ports)] \in [Lports -> Sandboxes]
    BY <2>2
  <2> QED
    BY <2>3 DEF BindPorts
<1>3. TypeInv'
  BY <1>1, <1>2 DEF BindPorts, IInv, TypeInv, Phases
<1>4. OnTrack' /\ AtHome' /\ PhaseInv'
  BY DEF BindPorts, IInv, OnTrack, AtHome, PhaseInv, Running, NothingQueued, DirectSsh
<1> QED
  BY <1>3, <1>4 DEF IInv

LEMMA ProgramsTyped ==
  ASSUME Constants, context \in Seq(Lports), NEW ph \in Running
  PROVE  ProgramOf(ph) \in Seq(CallSet) /\ Len(ProgramOf(ph)) \in Nat
<1>1. ProgramOf("bind") \in Seq(CallSet)
  BY BindProgram
<1>2. ProgramOf("vm") \in Seq(CallSet)
  BY VmProgram
<1>3. ProgramOf("wait") \in Seq(CallSet)
  BY WaitProgram
<1>4. ProgramOf("cleanup") \in Seq(CallSet)
  BY CleanProgram
<1>5. ProgramOf(ph) \in Seq(CallSet)
  BY <1>1, <1>2, <1>3, <1>4 DEF Running
<1> QED
  BY <1>5

\* A method starts at the first of its calls.
LEMMA Entered ==
  ASSUME TypeInv, Constants, EnterPhase, NEW ph \in Running, phase' = ph
  PROVE  /\ TypeInv' /\ OnTrack' /\ At' = 0
         /\ UNCHANGED <<setup, ports, chosen, name, batch, cmds, world, context, script>>
         /\ \E prog : ProgramOf(phase)' = prog /\ prog = ProgramOf(ph)
<1>1. /\ UNCHANGED <<setup, ports, chosen, name, batch, cmds, world, context, elapsed, script>>
      /\ todo' = ProgramOf(phase') /\ phase # "choose"
  BY DEF EnterPhase
<1>2. PICK prog : prog = ProgramOf(ph)
  OBVIOUS
<1>3. todo' = prog
  BY <1>1, <1>2
<1>4. ProgramOf(ph)' = prog
  BY <1>1, <1>2, ProgramSame
<1>5. ProgramOf(phase)' = prog
  BY <1>4
<1>6. prog \in Seq(CallSet) /\ Len(prog) \in Nat
  BY <1>2, ProgramsTyped DEF TypeInv
<1>7. Lports' = Lports /\ Lines' = Lines /\ CallSet' = CallSet
  BY <1>1 DEF Lports, Lines, CallSet
<1>8. At' = 0
  BY <1>3, <1>5, <1>6 DEF At
<1>9. OnTrack'
  <2>1. \A j \in 1..Len(prog) : todo'[j] = prog[0 + j]
    BY <1>3, <1>6
  <2>2. Len(todo') <= Len(prog)
    BY <1>3, <1>6
  <2> QED
    BY <1>3, <1>5, <1>8, <2>1, <2>2 DEF OnTrack
<1>10. TypeInv'
  BY <1>1, <1>3, <1>6, <1>7 DEF TypeInv, Phases, Running
<1> QED
  BY <1>1, <1>2, <1>5, <1>8, <1>9, <1>10

\* At the end of a method all its calls have been made.
LEMMA AtEnd ==
  ASSUME TypeInv, phase \in Running, todo = <<>>
  PROVE  Constants /\ At = Len(ProgramOf(phase)) /\ Len(ProgramOf(phase)) \in Nat
<1>1. Constants /\ Len(ProgramOf(phase)) \in Nat
  BY ProgramTyped
<1> QED
  BY <1>1 DEF At

\* Every flush() of _bind_ovs_port has been made: all the ports are bound.
LEMMA BindDone ==
  ASSUME TypeInv, Constants, NEW prog, prog = ProgramOf("bind"), BindAt(prog, Len(prog))
  PROVE  NothingQueued /\ AllBound
<1>1. /\ prog \in Seq(CallSet) /\ BindShape(prog, Len(prog))
      /\ \A p \in Lports : In(SetCall(p), prog)
  BY BindProgram
<1>2. Len(prog) \in Nat
  BY <1>1
<1>3. ASSUME NEW c \in Clients, cmds[c] # <<>>
      PROVE  FALSE
  <2>1. PICK k \in 1..Len(prog) :
           /\ prog[k].do = "run" /\ prog[k].client = c
           /\ \A m \in (k + 1)..Len(prog) : prog[m].do = "run"
    BY <1>3 DEF BindAt, Queued
  <2>2. PICK f \in (k + 1)..Len(prog) : prog[f] = Flush(c)
    BY <1>1, <2>1 DEF BindShape
  <2>3. FieldsOf(prog[f])
    BY Fields
  <2> QED
    BY <2>1, <2>2, <2>3 DEF FieldsOf
<1>4. ASSUME NEW p \in Lports
      PROVE  Bound(p)
  <2>1. PICK k \in 1..Len(prog) : prog[k] = SetCall(p)
    BY <1>1 DEF In
  <2>2. Bound(p) \/ In(ALine("set", p), cmds[Vsctl(chosen[p])])
    BY <2>1 DEF BindAt, Delivered
  <2>3. Vsctl(chosen[p]) \in Clients
    <3>1. chosen[p] \in Sandboxes
      BY DEF Constants
    <3> QED
      BY <3>1, ClientsTyped
  <2>4. cmds[Vsctl(chosen[p])] = <<>>
    BY <1>3, <2>3
  <2> QED
    BY <2>2, <2>4 DEF In
<1> QED
  BY <1>3, <1>4 DEF NothingQueued, AllBound

\* Every command of the cleanup has been sent: nothing of a stored port is left.
LEMMA CleanDone ==
  ASSUME TypeInv, Constants, NEW prog, prog = ProgramOf("cleanup"), CleanAt(prog, Len(prog)),
         world \subseteq HomeFacts, setup.cleanup
  PROVE  \A i \in DOMAIN context : \A fact \in world : fact[3] # context[i]
<1>1. /\ prog \in Seq(CallSet) /\ CleanShape(prog, Len(prog))
      /\ \A i \in 1..Len(context) :
            /\ In(Run(Vsctl(chosen[context[i]]), "del", context[i]), prog)
            /\ In(Run(Ssh(chosen[context[i]]), "nsDel", context[i]), prog)
  BY CleanProgram DEF TypeInv
<1>2. \A i \in 1..Len(context) : context[i] \in Lports
  BY DEF TypeInv
<1>3. ASSUME NEW c \in Clients, cmds[c] # <<>>
      PROVE  FALSE
  <2>1. PICK k \in 1..Len(prog) :
           /\ prog[k].do = "run" /\ prog[k].client = c
           /\ \A m \in (k + 1)..Len(prog) : prog[m] # Flush(c)
    BY <1>3 DEF CleanAt
  <2>2. c[2] = "ssh"
    BY <1>3 DEF CleanAt
  <2> QED
    BY <1>1, <2>1, <2>2 DEF CleanShape
<1>4. ASSUME NEW i \in 1..Len(context), NEW fact \in world, fact[3] = context[i]
      PROVE  FALSE
  <2>1. PICK p \in Lports : p = context[i]
    BY <1>2
  <2>2. PICK q \in Lports, what \in Facts : fact = <<Home(chosen[q]), what, q>>
    BY DEF HomeFacts
  <2>3. Has(what, p)
    BY <1>4, <2>1, <2>2 DEF Has
  <2>4. PICK k \in 1..Len(prog) : prog[k] = Run(Vsctl(chosen[p]), "del", p)
    BY <1>1, <2>1 DEF In
  <2>5. PICK m \in 1..Len(prog) : prog[m] = Run(Ssh(chosen[p]), "nsDel", p)
    BY <1>1, <2>1 DEF In
  <2>6. OnlyNetns(p)
    BY <2>4 DEF CleanAt
  <2>7. ~Has("netns", p) \/ In(ALine("nsDel", p), cmds[Ssh(chosen[p])])
    BY <2>5 DEF CleanAt
  <2>8. Ssh(chosen[p]) \in Clients
    <3>1. chosen[p] \in Sandboxes
      BY DEF Constants
    <3> QED
      BY <3>1, ClientsTyped
  <2>9. cmds[Ssh(chosen[p])] = <<>>
    BY <1>3, <2>8
  <2>10. ~Has("netns", p)
    BY <2>7, <2>9 DEF In
  <2> QED
    BY <2>2, <2>3, <2>6, <2>10 DEF OnlyNetns
<1>5. DOMAIN context = 1..Len(context)
  BY DEF TypeInv
<1> QED
  BY <1>4, <1>5

\* The parts of the invariant that are only about what EnterPhase leaves.
LEMMA EnterKeeps ==
  ASSUME EnterPhase
  PROVE  /\ AllBound' <=> AllBound
         /\ Beside' <=> Beside
         /\ StoredConfigured' <=> StoredConfigured
         /\ NothingQueued' <=> NothingQueued
         /\ DirectSsh' <=> DirectSsh
         /\ HomeFacts' = HomeFacts
<1>1. UNCHANGED <<setup, ports, chosen, batch, cmds, world, context>>
  BY DEF EnterPhase
<1>2. /\ \A q \in Lports : Reached(chosen[q])' <=> Reached(chosen[q])
      /\ \A p : Bound(p)' <=> Bound(p)
      /\ \A p : Configured(p)' <=> Configured(p)
  BY <1>1 DEF Bound, Configured, Has, Home, Reached, Lports
<1>3. Lports' = Lports
  BY <1>1 DEF Lports
<1>4. AllBound' <=> AllBound
  BY <1>2, <1>3 DEF AllBound
<1>5. Beside' <=> Beside
  BY <1>1 DEF Beside, Has, Home, Reached, Lports
<1>6. StoredConfigured' <=> StoredConfigured
  BY <1>1, <1>2 DEF StoredConfigured
<1>7. (NothingQueued' <=> NothingQueued) /\ (DirectSsh' <=> DirectSsh)
  BY <1>1 DEF NothingQueued, DirectSsh
<1>8. HomeFacts' = HomeFacts
  BY <1>1 DEF HomeFacts, Home, Lports
<1> QED
  BY <1>4, <1>5, <1>6, <1>7, <1>8

LEMMA ToBind ==
  ASSUME IInv, EnterPhase, phase = "start"
  PROVE  IInv'
<1>1. phase' = "bind" /\ UNCHANGED <<setup, ports, chosen, name, batch, cmds, world, context, script>>
  BY DEF EnterPhase
<1>2. TypeInv /\ Constants /\ world = {} /\ NothingQueued /\ DirectSsh /\ context = <<>>
  BY ConstantsHold DEF IInv, PhaseInv
<1>3. /\ TypeInv' /\ OnTrack' /\ At' = 0
      /\ \E prog : ProgramOf(phase)' = prog /\ prog = ProgramOf("bind")
  BY <1>1, <1>2, Entered DEF Running
<1>4. PICK prog : ProgramOf(phase)' = prog
  BY <1>3
<1>5. AtHome'
  BY <1>1, <1>2 DEF AtHome
<1>6. Beside'
  BY <1>1, <1>2 DEF Beside, Has
<1>7. 1..0 = {}
  OBVIOUS
<1>8. \A c \in Clients : cmds'[c] = <<>>
  BY <1>1, <1>2 DEF NothingQueued
<1>9. Prepared(prog, 0)' /\ Queued(prog, 0)' /\ Delivered(prog, 0)'
  BY <1>7, <1>8 DEF Prepared, Queued, Delivered
<1>10. context' = <<>> /\ DirectSsh'
  BY <1>1, <1>2 DEF DirectSsh
<1>11. BindAt(prog, 0)'
  BY <1>9, <1>10 DEF BindAt
<1>12. PhaseInv'
  BY <1>1, <1>3, <1>4, <1>6, <1>11, NextBind
<1> QED
  BY <1>3, <1>5, <1>12 DEF IInv

LEMMA ToVm ==
  ASSUME IInv, EnterPhase, phase' = "vm", setup.internal,
         NothingQueued, DirectSsh, AllBound, Beside, context = <<>>
  PROVE  IInv'
<1>1. UNCHANGED <<setup, ports, chosen, name, batch, cmds, world, context, script>> /\ phase # "choose"
  BY DEF EnterPhase
<1>2. TypeInv /\ Constants /\ world \subseteq HomeFacts
  BY <1>1, ConstantsHold DEF IInv, AtHome
<1>3. /\ TypeInv' /\ OnTrack' /\ At' = 0
      /\ \E prog : ProgramOf(phase)' = prog /\ prog = ProgramOf("vm")
  BY <1>2, Entered DEF Running
<1>4. PICK prog : ProgramOf(phase)' = prog
  BY <1>3
<1>5. AtHome'
  BY <1>1, <1>2, EnterKeeps DEF AtHome
<1>6. Beside' /\ NothingQueued' /\ DirectSsh' /\ AllBound' /\ setup'.internal
  BY <1>1, EnterKeeps
<1>7. StoredConfigured'
  <2>1. Len(context') = 0
    BY <1>1
  <2> QED
    BY <2>1 DEF StoredConfigured
<1>8. 1..0 = {}
  OBVIOUS
<1>9. VmAt(prog, 0)'
  BY <1>6, <1>7, <1>8 DEF VmAt
<1>10. PhaseInv'
  BY <1>3, <1>4, <1>6, <1>9, NextVm
<1> QED
  BY <1>3, <1>5, <1>10 DEF IInv

LEMMA ToWait ==
  ASSUME IInv, EnterPhase, phase = "vm", phase' = "wait",
         NEW prog, prog = ProgramOf("vm"), VmAt(prog, Len(prog))
  PROVE  IInv'
<1>1. UNCHANGED <<setup, ports, chosen, name, batch, cmds, world, context, script>>
  BY DEF EnterPhase
<1>2. TypeInv /\ Constants /\ world \subseteq HomeFacts /\ Beside
  BY ConstantsHold DEF IInv, AtHome, PhaseInv
<1>3. TypeInv' /\ OnTrack'
  <2>1. "wait" \in Running
    BY DEF Running
  <2> QED
    BY <1>2, <2>1, Entered
<1>4. AtHome'
  BY <1>1, <1>2, EnterKeeps DEF AtHome
<1>5. \E j \in 1..Len(prog) : prog[j].do = "run"
  BY <1>2, VmProgram
<1>6. setup.internal /\ NothingQueued /\ AllBound /\ StoredConfigured /\ Len(script) <= 1
  BY <1>5 DEF VmAt
<1>7. WaitAt' /\ Beside'
  BY <1>1, <1>2, <1>6, EnterKeeps DEF WaitAt
<1>8. PhaseInv'
  BY <1>7 DEF PhaseInv
<1> QED
  BY <1>3, <1>4, <1>8 DEF IInv

LEMMA ToClean ==
  ASSUME IInv, EnterPhase, phase' = "cleanup", NothingQueued, AllBound, Beside,
         StoredConfigured, context # <<>> => setup.internal
  PROVE  IInv'
<1>1. UNCHANGED <<setup, ports, chosen, name, batch, cmds, world, context, script>> /\ phase # "choose"
  BY DEF EnterPhase
<1>2. TypeInv /\ Constants /\ world \subseteq HomeFacts
  BY <1>1, ConstantsHold DEF IInv, AtHome
<1>3. /\ TypeInv' /\ OnTrack' /\ At' = 0
      /\ \E prog : ProgramOf(phase)' = prog /\ prog = ProgramOf("cleanup")
  BY <1>2, Entered DEF Running
<1>4. PICK prog : ProgramOf(phase)' = prog
  BY <1>3
<1>5. AtHome'
  BY <1>1, <1>2, EnterKeeps DEF AtHome
<1>6. \A j \in 1..Len(context) : Reached(chosen[context[j]])
  <2> TAKE j \in 1..Len(context)
  <2>1. context[j] \in Lports
    BY <1>2 DEF TypeInv
  <2>2. Has("port", context[j])
    BY DEF StoredConfigured, Configured, Facts
  <2> QED
    BY <2>1, <2>2 DEF Beside
<1>7. \A j \in 1..Len(context') : Reached(chosen[context[j]])'
  BY <1>1, <1>6 DEF Reached
<1>8. AllBound' /\ (context' # <<>> => setup'.internal)
  BY <1>1, EnterKeeps
<1>9. \A c \in Clients : cmds'[c] = <<>>
  BY <1>1 DEF NothingQueued
<1>10. 1..0 = {}
  OBVIOUS
<1>11. CleanAt(prog, 0)'
  BY <1>7, <1>8, <1>9, <1>10 DEF CleanAt
<1>12. PhaseInv'
  BY <1>3, <1>4, <1>11, NextClean
<1> QED
  BY <1>3, <1>5, <1>12 DEF IInv

LEMMA ToReturned ==
  ASSUME IInv, EnterPhase, phase = "cleanup",
         NEW prog, prog = ProgramOf("cleanup"), CleanAt(prog, Len(prog))
  PROVE  IInv'
<1>1. /\ UNCHANGED <<setup, ports, chosen, name, batch, cmds, world, context, elapsed, script>>
      /\ phase' = "returned" /\ todo' = ProgramOf("returned")
  <2>1. PhaseAfter("cleanup") = "returned"
    BY DEF PhaseAfter
  <2> QED
    BY <2>1 DEF EnterPhase
<1>2. TypeInv /\ Constants /\ world \subseteq HomeFacts
  BY ConstantsHold DEF IInv, AtHome
<1>3. todo' = <<>>
  BY <1>1 DEF ProgramOf
<1>4. Lports' = Lports /\ Lines' = Lines /\ CallSet' = CallSet
  BY <1>1 DEF Lports, Lines, CallSet
<1>5. TypeInv'
  <2>1. todo' \in Seq(CallSet) /\ phase' \in Phases
    <3>1. <<>> \in Seq(CallSet)
      OBVIOUS
    <3> QED
      BY <1>1, <1>3, <3>1 DEF Phases
  <2> QED
    BY <1>1, <1>2, <1>4, <2>1 DEF TypeInv
<1>6. OnTrack'
  BY <1>1, <1>3 DEF OnTrack, Running
<1>7. AtHome'
  BY <1>1, <1>2, EnterKeeps DEF AtHome
<1>8. (setup.cleanup /\ setup.internal) \/ AllBound
  BY DEF CleanAt
<1>9. (setup'.cleanup /\ setup'.internal) \/ AllBound'
  BY <1>1, <1>8, EnterKeeps
<1>10. setup.cleanup => \A i \in DOMAIN context : \A fact \in world : fact[3] # context[i]
  BY <1>2, CleanDone
<1>11. setup'.cleanup => NothingLeft'
  BY <1>1, <1>10 DEF NothingLeft
<1>12. PhaseInv'
  BY <1>1, <1>9, <1>11 DEF PhaseInv
<1> QED
  BY <1>5, <1>6, <1>7, <1>12 DEF IInv

\* A method is entered when all the calls of the one before it returned.
LEMMA EnterStep ==
  ASSUME IInv, EnterPhase
  PROVE  IInv'
<1>1. /\ phase \in Phases /\ phase \notin {"choose", "returned", "raised"} /\ todo = <<>>
      /\ phase' = IF phase = "start" THEN "bind" ELSE PhaseAfter(phase)
      /\ setup' = setup
  BY DEF EnterPhase, IInv, TypeInv
<1>2. CASE phase = "start"
  BY <1>2, ToBind
<1>3. ASSUME phase \in Running
      PROVE  /\ TypeInv /\ Constants /\ PhaseInv /\ At = Len(ProgramOf(phase))
  BY <1>1, <1>3, AtEnd DEF IInv
<1>4. CASE phase = "bind"
  <2>1. TypeInv /\ Constants /\ BindAt(ProgramOf("bind"), Len(ProgramOf("bind"))) /\ Beside
    BY <1>3, <1>4 DEF PhaseInv, Running
  <2>2. NothingQueued /\ AllBound
    BY <2>1, BindDone
  <2>3. DirectSsh /\ context = <<>>
    BY <2>1 DEF BindAt
  <2>4. phase' = IF setup.internal THEN "vm" ELSE "cleanup"
    BY <1>1, <1>4 DEF PhaseAfter
  <2>5. StoredConfigured
    BY <2>3 DEF StoredConfigured
  <2> QED
    BY <2>1, <2>2, <2>3, <2>4, <2>5, ToVm, ToClean
<1>5. CASE phase = "vm"
  <2>1. TypeInv /\ Constants /\ VmAt(ProgramOf("vm"), Len(ProgramOf("vm"))) /\ Beside
    BY <1>3, <1>5 DEF PhaseInv, Running
  <2>2. setup.internal /\ NothingQueued /\ AllBound /\ StoredConfigured
    BY <2>1 DEF VmAt
  <2>3. phase' = IF setup.ping THEN "wait" ELSE "cleanup"
    BY <1>1, <1>5 DEF PhaseAfter
  <2> QED
    BY <1>5, <2>1, <2>2, <2>3, ToWait, ToClean
<1>6. CASE phase = "wait"
  <2>1. WaitAt /\ Beside
    BY <1>3, <1>6 DEF PhaseInv, Running
  <2>2. phase' = "cleanup"
    BY <1>1, <1>6 DEF PhaseAfter
  <2> QED
    BY <2>1, <2>2, ToClean DEF WaitAt
<1>7. CASE phase = "cleanup"
  <2>1. CleanAt(ProgramOf("cleanup"), Len(ProgramOf("cleanup")))
    BY <1>3, <1>7 DEF PhaseInv, Running
  <2> QED
    BY <1>7, <2>1, ToReturned
<1> QED
  BY <1>1, <1>2, <1>4, <1>5, <1>6, <1>7 DEF Phases

-----------------------------------------------------------------------------
(* The invariant holds *)

\* A step that changes nothing but the time waited.
LEMMA Untouched ==
  ASSUME IInv, elapsed' \in 0..(WaitTimeout + 1),
         UNCHANGED <<setup, ports, chosen, phase, todo, name, batch, cmds, world, context, script>>
  PROVE  IInv'
<1>1. TypeInv /\ OnTrack /\ AtHome /\ PhaseInv
  BY DEF IInv
<1>2. Lports' = Lports /\ Lines' = Lines /\ CallSet' = CallSet
  BY DEF Lports, Lines, CallSet
<1>3. TypeInv'
  BY <1>1, <1>2 DEF TypeInv
<1>4. AtHome'
  BY <1>1 DEF AtHome, HomeFacts, Home, Lports
<1>5. CASE phase \notin Running
  <2>1. OnTrack'
    BY <1>1, <1>5 DEF OnTrack
  <2>2. AllBound' <=> AllBound
    BY DEF AllBound, Bound, Has, Home, Reached, Lports
  <2>3. (NothingQueued' <=> NothingQueued) /\ (DirectSsh' <=> DirectSsh)
    BY DEF NothingQueued, DirectSsh
  <2>4. NothingLeft' <=> NothingLeft
    BY DEF NothingLeft
  <2>5. PhaseInv'
    BY <1>1, <1>5, <2>2, <2>3, <2>4 DEF PhaseInv, Running
  <2> QED
    BY <1>3, <1>4, <2>1, <2>5 DEF IInv
<1> SUFFICES ASSUME phase \in Running PROVE IInv'
  BY <1>5
<1>7. PICK prog : prog = ProgramOf(phase)
  OBVIOUS
<1>8. ProgramOf(phase)' = prog
  <2>1. PICK ph \in Running : ph = phase
    OBVIOUS
  <2>2. ProgramOf(ph)' = ProgramOf(ph)
    BY <2>1, ProgramSame
  <2> QED
    BY <1>7, <2>1, <2>2
<1>9. PICK i : i = At
  OBVIOUS
<1>10. At' = i
  BY <1>7, <1>8, <1>9 DEF At
<1>11. OnTrack'
  BY <1>1, <1>7, <1>8, <1>9, <1>10 DEF OnTrack
<1>13. /\ \A what, p : Has(what, p)' <=> Has(what, p)
       /\ \A s \in Sandboxes : Reached(s)' <=> Reached(s)
       /\ \A p : Reached(chosen[p])' <=> Reached(chosen[p])
  BY DEF Has, Home, Reached
<1>14. Beside' <=> Beside
  BY <1>2, <1>13 DEF Beside
<1>15. /\ \A p : Bound(p)' <=> Bound(p)
       /\ \A p : Configured(p)' <=> Configured(p)
       /\ \A p : OnlyNetns(p)' <=> OnlyNetns(p)
  BY <1>13 DEF Bound, Configured, OnlyNetns
<1>16. (AllBound' <=> AllBound) /\ (StoredConfigured' <=> StoredConfigured)
  BY <1>2, <1>15 DEF AllBound, StoredConfigured
<1>17. (NothingQueued' <=> NothingQueued) /\ (DirectSsh' <=> DirectSsh)
  BY DEF NothingQueued, DirectSsh
<1>18. CASE phase = "bind"
  <2>1. BindAt(prog, i) /\ Beside
    BY <1>1, <1>7, <1>9, <1>18 DEF PhaseInv
  <2>2. Prepared(prog, i)' <=> Prepared(prog, i)
    BY DEF Prepared
  <2>3. Queued(prog, i)' <=> Queued(prog, i)
    BY DEF Queued
  <2>4. Delivered(prog, i)' <=> Delivered(prog, i)
    BY <1>2, <1>15 DEF Delivered, SetCall, Run, Call, Vsctl
  <2>5. BindAt(prog, i)'
    BY <1>17, <2>1, <2>2, <2>3, <2>4 DEF BindAt
  <2> QED
    BY <1>3, <1>4, <1>8, <1>10, <1>11, <1>14, <1>18, <2>1, <2>5, NextBind DEF IInv
<1>19. CASE phase = "vm"
  <2>1. VmAt(prog, i) /\ Beside
    BY <1>1, <1>7, <1>9, <1>19 DEF PhaseInv
  <2>2. VmAt(prog, i)'
    BY <1>15, <1>16, <1>17, <2>1 DEF VmAt
  <2> QED
    BY <1>3, <1>4, <1>8, <1>10, <1>11, <1>14, <1>19, <2>1, <2>2, NextVm DEF IInv
<1>20. CASE phase = "wait"
  <2>1. WaitAt /\ Beside
    BY <1>1, <1>20 DEF PhaseInv
  <2>2. WaitAt' /\ Beside'
    BY <1>14, <1>16, <1>17, <2>1 DEF WaitAt
  <2>3. PhaseInv'
    BY <1>20, <2>2 DEF PhaseInv
  <2> QED
    BY <1>3, <1>4, <1>11, <2>3 DEF IInv
<1>21. CASE phase = "cleanup"
  <2>1. CleanAt(prog, i)
    BY <1>1, <1>7, <1>9, <1>21 DEF PhaseInv
  <2>2. /\ context' # <<>> => setup'.internal
        /\ (setup'.cleanup /\ setup'.internal) \/ AllBound'
        /\ \A j \in 1..Len(context') : Reached(chosen[context[j]])'
    BY <1>13, <1>16, <2>1 DEF CleanAt
  <2>3. \A c \in Clients : cmds'[c] # <<>> =>
          /\ c[2] = "ssh"
          /\ \E k \in 1..i : /\ prog[k].do = "run" /\ prog[k].client = c
                             /\ \A m \in (k + 1)..i : prog[m] # Flush(c)
          /\ \A j \in 1..Len(cmds'[c]) :
                cmds'[c][j].op = "nsDel" /\ Ssh(chosen'[cmds'[c][j].on]) = c
    BY <2>1 DEF CleanAt
  <2>4. \A p \in Lports : \A k \in 1..i :
          /\ prog[k] = Run(Vsctl(chosen[p]), "del", p) => OnlyNetns(p)'
          /\ prog[k] = Run(Ssh(chosen[p]), "nsDel", p) =>
                ~Has("netns", p)' \/ In(ALine("nsDel", p), cmds[Ssh(chosen[p])])
    BY <1>13, <1>15, <2>1 DEF CleanAt
  <2>5. CleanAt(prog, i)'
    BY <1>2, <2>2, <2>3, <2>4 DEF CleanAt
  <2> QED
    BY <1>3, <1>4, <1>8, <1>10, <1>11, <1>21, <2>5, NextClean DEF IInv
<1> QED
  BY <1>18, <1>19, <1>20, <1>21 DEF Running

LEMMA CallStep ==
  ASSUME IInv, ACall
  PROVE  IInv'
<1>1. TypeInv /\ OnTrack /\ AtHome /\ PhaseInv
  BY DEF IInv
<1>2. todo # <<>> /\ TypeInv'
  BY <1>1, TypeOfCall
<1>3. phase \in Running
  BY <1>1, <1>2 DEF OnTrack
<1>4. OnTrack' /\ AtHome' /\ PhaseInv'
  BY <1>1, <1>3, BindStep, VmStep, WaitStep, CleanStep DEF Running
<1> QED
  BY <1>2, <1>4 DEF IInv

THEOREM NextInv ==
  ASSUME IInv, [Next]_vars
  PROVE  IInv'
<1>1. CASE BindPorts
  BY <1>1, ChooseStep
<1>2. CASE EnterPhase
  BY <1>2, EnterStep
<1>3. CASE ACall
  BY <1>3, CallStep
<1>4. CASE Second
  <2>1. elapsed \in Nat /\ WaitTimeout \in Nat /\ elapsed <= WaitTimeout /\ elapsed' = elapsed + 1
    BY <1>4, FarmAssumption DEF FarmAssumption, Second, IInv, TypeInv
  <2>2. elapsed' \in 0..(WaitTimeout + 1)
    BY <2>1
  <2> QED
    BY <1>4, <2>2, Untouched DEF Second
<1>5. CASE UNCHANGED vars
  <2>1. elapsed' \in 0..(WaitTimeout + 1)
    BY <1>5 DEF vars, IInv, TypeInv
  <2> QED
    BY <1>5, <2>1, Untouched DEF vars
<1> QED
  BY <1>1, <1>2, <1>3, <1>4, <1>5 DEF Next, Step, ACall, Ended

THEOREM Invariant == Spec => []IInv
<1>1. Init => IInv
  BY InitInv
<1>2. IInv /\ [Next]_vars => IInv'
  BY NextInv
<1> QED
  BY <1>1, <1>2, PTL DEF Spec

\* The parts of the state have their types: a slice is always that of a
\* sandbox of the list (ovn.py:563), and what exists on a host is a part of one
\* of the ports.
THEOREM TypeCorrect == Spec => []TypeOK
<1>1. IInv => TypeOK
  <2> SUFFICES ASSUME IInv PROVE TypeOK
    OBVIOUS
  <2>1. TypeInv /\ AtHome
    BY DEF IInv
  <2>2. \A c \in Clients : name[c] \in Sandboxes \cup {Nowhere}
    BY <2>1 DEF TypeInv
  <2>3. ASSUME NEW fact \in world
        PROVE  fact[1] \in Sandboxes \cup Farms /\ fact[2] \in Facts /\ fact[3] \in Lports
    <3>1. phase # "choose" /\ fact \in HomeFacts
      BY <2>1, <2>3 DEF AtHome
    <3>2. PICK q \in Lports, what \in Facts : fact = <<Home(chosen[q]), what, q>>
      BY <3>1 DEF HomeFacts
    <3>3. chosen[q] \in Sandboxes
      BY <2>1, <3>1 DEF TypeInv
    <3>4. FarmOf[chosen[q]] \in Farms
      BY <3>3, FarmAssumption DEF FarmAssumption
    <3>5. Home(chosen[q]) \in Sandboxes \cup Farms
      BY <3>3, <3>4 DEF Home
    <3> QED
      BY <3>2, <3>5
  <2>4. \A i \in DOMAIN context : context[i] \in Lports
    BY <2>1 DEF TypeInv
  <2> QED
    BY <2>1, <2>2, <2>3, <2>4 DEF TypeInv, TypeOK
<1> QED
  BY <1>1, Invariant, PTL

\* Every state that a step of the two methods leads to.
LEMMA StoredKept ==
  ASSUME IInv, [Next]_vars, phase \in {"vm", "wait"}
  PROVE  StoredConfigured'
<1>1. TypeInv /\ OnTrack /\ AtHome /\ PhaseInv
  BY DEF IInv
<1>2. StoredConfigured
  BY <1>1 DEF PhaseInv, VmAt, WaitAt
<1>3. CASE ACall
  BY <1>1, <1>3, VmStep, WaitStep
<1>4. CASE UNCHANGED <<setup, chosen, world, context>>
  BY <1>2, <1>4 DEF StoredConfigured, Configured, Has, Home
<1>5. ~BindPorts
  BY DEF BindPorts
<1> QED
  BY <1>3, <1>4, <1>5 DEF Next, Step, ACall, EnterPhase, Second, Ended, vars

\* What _bind_ovs_internal_vm and _ping_port leave, at each of their steps and
\* when one of their calls failed: a port that is in the context is up in its
\* namespace, beside its Open vSwitch.
THEOREM StoredPortsConfigured == Spec => ContextPortsConfigured
<1>1. IInv /\ [Next]_vars => [(phase \in {"vm", "wait"}) => StoredAreConfigured']_vars
  <2> SUFFICES ASSUME IInv, [Next]_vars, phase \in {"vm", "wait"},
                      NEW i \in DOMAIN context', NEW what \in Facts
               PROVE  <<Home(chosen[context[i]])', what, context'[i]>> \in world'
    BY DEF StoredAreConfigured, InPlace
  <2>1. StoredConfigured'
    BY StoredKept
  <2>2. IInv'
    BY NextInv
  <2>3. i \in 1..Len(context')
    BY <2>2 DEF IInv, TypeInv
  <2> QED
    BY <2>1, <2>3 DEF StoredConfigured, Configured, Has
<1> QED
  BY <1>1, Invariant, PTL DEF Spec, ContextPortsConfigured

\* Each attempt of the wait sends one ping, however many failed before it
\* (_ping_port).
THEOREM OnePingPerAttempt == Spec => []AttemptSendsOnePing
<1>1. IInv => AttemptSendsOnePing
  BY DEF IInv, PhaseInv, WaitAt, AttemptSendsOnePing
<1> QED
  BY <1>1, Invariant, PTL

\* An iteration that returned after its cleanup left nothing of its internal
\* ports on any host (_cleanup_ovs_internal_ports).
THEOREM CleanupLeavesNothing == Spec => []NothingLeft
<1>1. IInv => NothingLeft
  BY DEF IInv, PhaseInv, NothingLeft
<1> QED
  BY <1>1, Invariant, PTL

\* Where flush() has a command to send for every sandbox, sharing the client of
\* the farm never sends a port to the Open vSwitch of another sandbox, and
\* leaves none out (_bind_ovs_port).
THEOREM BoundOnItsSandbox ==
  ASSUME SwitchEverywhere
  PROVE  Spec => []BoundWhereChosen
<1>1. IInv => BoundWhereChosen
  <2> SUFFICES ASSUME IInv,
                      phase \in {"vm", "wait"}
                      \/ (phase = "returned" /\ ~(setup.cleanup /\ setup.internal)),
                      NEW p \in Lports
               PROVE  /\ <<Home(chosen[p]), "iface", p>> \in world
                      /\ \A fact \in world : fact[3] = p => fact[1] = Home(chosen[p])
    BY DEF BoundWhereChosen
  <2>1. AllBound /\ world \subseteq HomeFacts
    BY DEF IInv, PhaseInv, VmAt, WaitAt, AtHome
  <2>2. setup \in Setups /\ chosen[p] \in Sandboxes
    BY DEF IInv, TypeInv
  <2>3. Reached(chosen[p])
    BY <2>2 DEF SwitchEverywhere, Reached
  <2>4. <<Home(chosen[p]), "iface", p>> \in world
    BY <2>1, <2>3 DEF AllBound, Bound, Has
  <2>5. ASSUME NEW fact \in world, fact[3] = p
        PROVE  fact[1] = Home(chosen[p])
    <3>1. PICK q \in Lports, what \in Facts : fact = <<Home(chosen[q]), what, q>>
      BY <2>1 DEF HomeFacts
    <3> QED
      BY <2>5, <3>1
  <2> QED
    BY <2>4, <2>5
<1> QED
  BY <1>1, Invariant, PTL
=============================================================================
