--------------------------- MODULE IgmpTest_proofs ---------------------------
(***************************************************************************)
(* The testers never run ahead of the rounds, and join what the plan says, *)
(* for any ports, hosts, names and plans.                                  *)
(***************************************************************************)
EXTENDS IgmpTest, FiniteSetTheorems, TLAPS

Lists == {plan[r].groups[p] : r \in Nat, p \in Ports}

\* The signals that a tester with a name of its own has been sent.
Signals(p) ==
    IF at \in {"config", "start"} THEN 0
    ELSE IF at = "trigger" /\ HostOf[p] \in left THEN round - 1 ELSE round

IgmpType ==
    /\ setup \in Setups
    /\ at \in {"config", "start", "trigger", "poll", "returned", "raised"}
    /\ round \in Nat /\ left \subseteq Hosts
    /\ at \in {"config", "trigger"} => round >= 1
    /\ files \in [Ports -> Seq(Lists)]
    /\ sem \in [Ports -> Nat] /\ joined \in [Ports -> Nat]

\* While the files are written, a host has the rounds before this one, or also
\* this one.
FilesOf(p) ==
    /\ \A r \in DOMAIN files[p] : files[p][r] = plan[r].groups[p]
    /\ at = "config" => Len(files[p]) = IF HostOf[p] \in left THEN round - 1 ELSE round

IgmpInv ==
    /\ IgmpType
    /\ \A p \in Ports : FilesOf(p) /\ (OwnName(p) => joined[p] + sem[p] <= Signals(p))

LEMMA SameLists == UNCHANGED plan => UNCHANGED Lists
  BY DEF Lists

LEMMA InitInv == Init => IgmpInv
<1> SUFFICES ASSUME Init PROVE IgmpInv
  OBVIOUS
<1>1. IgmpType
  BY DEF Init, IgmpType
<1>2. ASSUME NEW p \in Ports PROVE HostOf[p] \in Hosts /\ files[p] = <<>> /\ joined[p] + sem[p] = 0
  BY DEF Init, Hosts
<1> QED
  BY <1>1, <1>2 DEF Init, IgmpInv, FilesOf, Signals

\* What arrives at the testers of a host: one signal at each that has a name
\* of its own.
LEMMA ArriveType ==
  ASSUME IgmpType, NEW h \in Hosts, NEW got \in Arrive(h)
  PROVE  \A q \in On(h) : got[q] \in Nat /\ (OwnName(q) => got[q] = 1)
<1>1. Cardinality(On(h)) \in Nat
  <2>1. PICK s \in Setups : Ports = 0..(s.switches * PerSwitch - 1)
    BY IgmpAssumption DEF IgmpType, IgmpAssumption
  <2>2. s.switches * PerSwitch - 1 \in Int
    BY IgmpAssumption DEF IgmpAssumption
  <2>3. IsFiniteSet(Ports)
    BY <2>1, <2>2, FS_Interval
  <2> QED
    BY <2>3, FS_Subset, FS_CardinalityType DEF On
<1>2. PICK more \in [{q \in On(h) : ~OwnName(q)} -> 1..Cardinality(On(h))] :
         got = [q \in On(h) |-> IF OwnName(q) THEN 1 ELSE more[q]]
  BY DEF Arrive
<1> QED
  BY <1>1, <1>2

\* A step that neither writes a file, nor joins, nor starts a round.
LEMMA QuietInv ==
  ASSUME IgmpInv, UNCHANGED <<setup, plan, files, sem, joined>>,
         at' \in {"config", "start", "trigger", "poll", "returned", "raised"},
         round' \in Nat, left' \subseteq Hosts, at' \in {"config", "trigger"} => round' >= 1,
         \A p \in Ports : Signals(p) <= Signals(p)',
         at' = "config" => \A p \in Ports : FilesOf(p)'
  PROVE  IgmpInv'
<1>1. IgmpType'
  BY DEF IgmpInv, IgmpType, Lists
<1>2. ASSUME NEW p \in Ports PROVE FilesOf(p)'
  BY DEF IgmpInv, FilesOf
<1>3. ASSUME NEW p \in Ports, OwnName(p) PROVE joined'[p] + sem'[p] <= Signals(p)'
  <2>1. joined[p] + sem[p] <= Signals(p) /\ joined[p] \in Nat /\ sem[p] \in Nat
    BY <1>3 DEF IgmpInv, IgmpType
  <2>2. Signals(p) \in Int /\ Signals(p)' \in Int
    BY DEF Signals, IgmpInv, IgmpType
  <2> QED
    BY <2>1, <2>2
<1> QED
  BY <1>1, <1>2, <1>3 DEF IgmpInv, OwnName, Matches, On

LEMMA ConfigureInv ==
  ASSUME IgmpInv, NEW h \in Hosts, Configure(h)
  PROVE  IgmpInv'
<1>1. /\ at = "config" /\ h \in left /\ left' = left \ {h} /\ UNCHANGED <<at, round>>
      /\ UNCHANGED <<setup, plan, sem, joined>>
      /\ files' = [p \in Ports |->
                      IF p \in On(h) THEN Append(files[p], plan[round].groups[p]) ELSE files[p]]
  BY DEF Configure, Session, Sent
<1>2. ASSUME NEW p \in Ports PROVE files'[p] \in Seq(Lists) /\ FilesOf(p)'
  <2>1. /\ files[p] \in Seq(Lists) /\ round \in Nat /\ plan[round].groups[p] \in Lists
        /\ \A r \in DOMAIN files[p] : files[p][r] = plan[r].groups[p]
        /\ Len(files[p]) = IF HostOf[p] \in left THEN round - 1 ELSE round
    BY <1>1 DEF IgmpInv, IgmpType, FilesOf, Lists
  <2>2. CASE HostOf[p] = h
    <3>1. files'[p] = Append(files[p], plan[round].groups[p]) /\ Len(files[p]) = round - 1
      BY <1>1, <2>1, <2>2 DEF On
    <3>2. /\ files'[p] \in Seq(Lists) /\ Len(files'[p]) = round
          /\ \A r \in DOMAIN files'[p] : files'[p][r] = plan[r].groups[p]
      BY <2>1, <3>1
    <3> QED
      BY <1>1, <2>2, <3>2 DEF FilesOf
  <2>3. CASE HostOf[p] # h
    <3>1. files'[p] = files[p]
      BY <1>1, <2>3 DEF On
    <3> QED
      BY <1>1, <2>1, <2>3, <3>1 DEF FilesOf
  <2> QED
    BY <2>2, <2>3
<1>3. files' \in [Ports -> Seq(Lists)]
  BY <1>1, <1>2
<1>4. IgmpType'
  BY <1>1, <1>3, SameLists DEF IgmpInv, IgmpType
<1> QED
  BY <1>1, <1>2, <1>4 DEF IgmpInv, OwnName, Matches, On, Signals

LEMMA TriggerInv ==
  ASSUME IgmpInv, NEW h \in Hosts, TriggerTesters(h)
  PROVE  IgmpInv'
<1>1. PICK got \in Arrive(h) :
         sem' = [q \in Ports |-> IF q \in On(h) THEN sem[q] + got[q] ELSE sem[q]]
  BY DEF TriggerTesters
<1>2. /\ at = "trigger" /\ h \in left /\ round \in Nat /\ round >= 1 /\ left \subseteq Hosts
      /\ \/ at' = at /\ left' = left \ {h}
         \/ at' = "raised" /\ left' = {}
      /\ UNCHANGED <<round, setup, plan, files, joined>>
  BY DEF TriggerTesters, Session, Sent, Raised, IgmpInv, IgmpType
<1>3. \A q \in On(h) : got[q] \in Nat /\ (OwnName(q) => got[q] = 1)
  BY ArriveType DEF IgmpInv
<1>4. sem' \in [Ports -> Nat]
  BY <1>1, <1>3 DEF IgmpInv, IgmpType
<1>5. IgmpType'
  BY <1>2, <1>4, SameLists DEF IgmpInv, IgmpType
<1>6. ASSUME NEW p \in Ports, OwnName(p) PROVE joined'[p] + sem'[p] <= Signals(p)'
  <2>1. /\ joined[p] + sem[p] <= IF HostOf[p] \in left THEN round - 1 ELSE round
        /\ joined[p] \in Nat /\ sem[p] \in Nat
    BY <1>2, <1>6 DEF IgmpInv, IgmpType, Signals
  <2>2. CASE HostOf[p] = h
    <3>1. sem'[p] = sem[p] + 1
      BY <1>1, <1>3, <1>6, <2>2 DEF On
    <3>2. Signals(p)' = round
      BY <1>2, <2>2 DEF Signals
    <3> QED
      BY <1>2, <2>1, <2>2, <3>1, <3>2
  <2>3. CASE HostOf[p] # h
    <3>1. sem'[p] = sem[p]
      BY <1>1, <2>3 DEF On
    <3>2. Signals(p)' = IF at' = "trigger" /\ HostOf[p] \in left THEN round - 1 ELSE round
      BY <1>2, <2>3 DEF Signals
    <3> QED
      BY <1>2, <2>1, <3>1, <3>2
  <2> QED
    BY <2>2, <2>3
<1>7. ASSUME NEW p \in Ports PROVE FilesOf(p)'
  BY <1>2 DEF IgmpInv, FilesOf
<1> QED
  BY <1>5, <1>6, <1>7 DEF IgmpInv, OwnName, Matches, On

LEMMA JoinInv ==
  ASSUME IgmpInv, NEW p \in Ports, Join(p)
  PROVE  IgmpInv'
<1>1. /\ sem[p] \in Nat /\ sem[p] > 0 /\ joined[p] \in Nat
      /\ sem' = [sem EXCEPT ![p] = @ - 1] /\ joined' = [joined EXCEPT ![p] = @ + 1]
      /\ UNCHANGED <<setup, plan, at, round, left, files>>
  BY DEF Join, IgmpInv, IgmpType
<1>2. IgmpType'
  <2>1. sem' \in [Ports -> Nat] /\ joined' \in [Ports -> Nat]
    BY <1>1 DEF IgmpInv, IgmpType
  <2> QED
    BY <1>1, <2>1, SameLists DEF IgmpInv, IgmpType
<1>3. \A q \in Ports : joined'[q] + sem'[q] = joined[q] + sem[q]
  BY <1>1 DEF IgmpInv, IgmpType
<1> QED
  BY <1>1, <1>2, <1>3 DEF IgmpInv, FilesOf, Signals, OwnName, Matches, On

LEMMA StepInv == IgmpInv /\ [Next]_vars => IgmpInv'
<1> SUFFICES ASSUME IgmpInv, [Next]_vars PROVE IgmpInv'
  OBVIOUS
<1>1. /\ round \in Nat /\ left \subseteq Hosts
      /\ at \in {"config", "start", "trigger", "poll", "returned", "raised"}
      /\ at \in {"config", "trigger"} => round >= 1
      /\ \A p \in Ports : HostOf[p] \in Hosts
  BY DEF IgmpInv, IgmpType, Hosts
<1>2. CASE UNCHANGED vars
  BY <1>2 DEF vars, IgmpInv, IgmpType, Lists, FilesOf, Signals, OwnName, Matches, On
<1>3. CASE Tester
  BY <1>3, JoinInv DEF Tester
<1>4. ASSUME NEW h \in Hosts, Configure(h) \/ TriggerTesters(h) PROVE IgmpInv'
  BY <1>4, ConfigureInv, TriggerInv
<1>5. CASE Configured
  <2>1. /\ at = "config" /\ left = {} /\ left' = Hosts
        /\ \/ at' = "config" /\ round' = round + 1
           \/ at' = "start" /\ round' = 0
        /\ UNCHANGED <<setup, plan, files, sem, joined>>
    BY <1>5 DEF Configured, Reached, Goto
  <2>2. at' = "config" => \A p \in Ports : FilesOf(p)'
    BY <1>1, <2>1 DEF IgmpInv, FilesOf
  <2> QED
    BY <1>1, <2>1, <2>2, QuietInv DEF Signals
<1>6. ASSUME NEW h \in Hosts, StartTesters(h) PROVE IgmpInv'
  <2>1. /\ at = "start" /\ at' \in {"start", "raised"} /\ left' \subseteq left
        /\ UNCHANGED <<round, setup, plan, files, sem, joined>>
    BY <1>6 DEF StartTesters, Session, Sent, Raised
  <2> QED
    BY <1>1, <2>1, QuietInv DEF Signals
<1>7. CASE Started
  <2>1. /\ at = "start" /\ at' = "trigger" /\ round' = 1 /\ left' = Hosts
        /\ UNCHANGED <<setup, plan, files, sem, joined>>
    BY <1>7 DEF Started, Reached, Goto
  <2> QED
    BY <1>1, <2>1, QuietInv DEF Signals
<1>8. CASE Triggered
  <2>1. /\ at = "trigger" /\ left = {} /\ at' = "poll" /\ round' = round /\ left' = Hosts
        /\ UNCHANGED <<setup, plan, files, sem, joined>>
    BY <1>8 DEF Triggered, Reached, Goto
  <2> QED
    BY <1>1, <2>1, QuietInv DEF Signals
<1>9. CASE SessionLost
  <2>1. /\ at' = "raised" /\ left' = {} /\ UNCHANGED <<round, setup, plan, files, sem, joined>>
    BY <1>9 DEF SessionLost, Raised
  <2> QED
    BY <1>1, <2>1, QuietInv DEF Signals
<1>10. CASE PollFlows
  <2>1. /\ at = "poll" /\ UNCHANGED <<setup, plan, files, sem, joined>>
        /\ \/ at' = "trigger" /\ round' = round + 1 /\ left' = Hosts
           \/ at' = "returned" /\ round' = round /\ left' = Hosts
           \/ UNCHANGED <<at, round, left>>
    BY <1>10 DEF PollFlows, NextRound, Goto
  <2> QED
    BY <1>1, <2>1, QuietInv DEF Signals
<1> QED
  BY <1>2, <1>3, <1>4, <1>5, <1>6, <1>7, <1>8, <1>9, <1>10 DEF Next, Scenario

THEOREM Invariance == Spec => []IgmpInv
  BY InitInv, StepInv, PTL DEF Spec

\* A tester joins a round that its file has, with the groups that the plan has
\* there for its port; and unless its name begins with that of another one on
\* its host, only when the scenario has begun to trigger that round.
TesterFollows ==
    \A p \in Ports : joined'[p] # joined[p] =>
        /\ joined'[p] \in DOMAIN files[p]
        /\ files[p][joined'[p]] = plan[joined'[p]].groups[p]
        /\ OwnName(p) => joined'[p] <= round

\* However late testers run, whatever sessions fail and waits give up: they
\* keep to the rounds (_config_mcast_testers, _trigger_mcast_tester,
\* mcast-tester.c).
THEOREM TestersFollow == Spec => [][TesterFollows]_joined
<1>1. ASSUME IgmpInv, [Next]_vars PROVE [TesterFollows]_joined
  <2>1. CASE UNCHANGED joined
    BY <2>1
  <2>2. ASSUME NEW p \in Ports, Join(p) PROVE TesterFollows
    <3>1. /\ joined[p] \in Nat /\ sem[p] \in Nat /\ round \in Nat /\ files[p] \in Seq(Lists)
          /\ sem[p] > 0 /\ joined[p] < Len(files[p])
          /\ joined' = [joined EXCEPT ![p] = @ + 1]
      BY <1>1, <2>2 DEF Join, IgmpInv, IgmpType
    <3>2. joined'[p] = joined[p] + 1 /\ \A q \in Ports \ {p} : joined'[q] = joined[q]
      BY <3>1, <1>1 DEF IgmpInv, IgmpType
    <3>3. joined'[p] \in DOMAIN files[p]
      BY <3>1, <3>2
    <3>4. files[p][joined'[p]] = plan[joined'[p]].groups[p]
      BY <1>1, <3>3 DEF IgmpInv, FilesOf
    <3>5. OwnName(p) => joined'[p] <= round
      <4>1. OwnName(p) => joined[p] + sem[p] <= Signals(p)
        BY <1>1 DEF IgmpInv
      <4>2. Signals(p) \in Int /\ Signals(p) <= round
        BY <3>1 DEF Signals
      <4> QED
        BY <3>1, <3>2, <4>1, <4>2
    <3> QED
      BY <3>2, <3>3, <3>4, <3>5 DEF TesterFollows
  <2>3. CASE Scenario
    BY <2>1, <2>3 DEF Scenario, Configure, Configured, StartTesters, Started, TriggerTesters,
                      Triggered, SessionLost, PollFlows
  <2> QED
    BY <1>1, <2>1, <2>2, <2>3 DEF Next, Tester, vars
<1> QED
  BY <1>1, Invariance, PTL DEF Spec
=============================================================================
