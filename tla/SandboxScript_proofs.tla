------------------------ MODULE SandboxScript_proofs ------------------------
(***************************************************************************)
(* What ovs-sandbox.sh keeps true of its daemons and of the address of a   *)
(* sandbox, for any daemons, orders, and number of commands and crashes.   *)
(***************************************************************************)
EXTENDS SandboxScript, TLAPS

(***************************************************************************)
(* Types.                                                                  *)
(***************************************************************************)
States == {"up", "asked", "killed", "gone"}
Items == Services \cup Calls \cup {Bind, Record}

FilesType ==
    /\ box \in BOOLEAN /\ ip \in BOOLEAN /\ main \in BOOLEAN /\ rcIp \in BOOLEAN
    /\ program \subseteq Services
    /\ pidFile \in [Services -> Nat]
    /\ named \in [Services -> SUBSET Nat]

ProcsType ==
    /\ procs \in [Services -> Seq(States)]
    /\ \A s \in Services : pidFile[s] \in 0..Len(procs[s]) /\ named[s] \subseteq 1..Len(procs[s])

ScriptType ==
    /\ command \in {"none", "create", "start", "stop", "cleanup"} /\ graceful \in BOOLEAN
    /\ at \in Places /\ pid \in Nat
    /\ todo \in Seq(Items)
    /\ at \in {"exit", "wait", "start"} => todo \in Seq(Services)
    /\ at = "wait" => todo # <<>>

HistoryType ==
    /\ count \in 0..MaxCommands /\ crashes \in 0..MaxCrashes
    /\ excused \subseteq Services \cup {Bind} /\ overlapped \subseteq Services

TypeInv == FilesType /\ ProcsType /\ ScriptType /\ HistoryType

LEMMA TypeInvTypeOK == TypeInv => TypeOK
  BY DEF TypeInv, FilesType, ProcsType, ScriptType, HistoryType, TypeOK, Pids, States, Items

\* The loop over todo.
LEMMA NextItem ==
  ASSUME NEW S, NEW list \in Seq(S), list # <<>>
  PROVE  /\ Head(list) \in S /\ Tail(list) \in Seq(S)
         /\ 1 \in DOMAIN list /\ Head(list) = list[1]
         /\ \A k \in DOMAIN Tail(list) : k + 1 \in DOMAIN list /\ Tail(list)[k] = list[k + 1]
         /\ \A k \in DOMAIN list : k = 1 \/ (k - 1 \in DOMAIN Tail(list) /\ Tail(list)[k - 1] = list[k])
  OBVIOUS

\* A step that only moves in the script.
LEMMA OrdersType == StopOrder \in Seq(Services) /\ CreateOrder \in Seq(Items) /\ <<>> \in Seq(Services)
  BY SandboxAssumption DEF SandboxAssumption, Items

LEMMA ServiceItems == Seq(Services) \subseteq Seq(Items)
  BY DEF Items

\* The steps of the script that change no process.
LEMMA TailType ==
  ASSUME ScriptType, todo # <<>>, at \in {"exit", "wait", "start", "create"},
         todo' = Tail(todo),
         at' = at \/ (at = "wait" /\ at' = "exit"), at' # "wait",
         UNCHANGED <<command, graceful>>, pid' \in {pid, 0}
  PROVE  ScriptType'
<1>1. Tail(todo) \in Seq(Items)
  BY NextItem DEF ScriptType
<1>2. at \in {"exit", "wait", "start"} => Tail(todo) \in Seq(Services)
  BY NextItem DEF ScriptType
<1> QED
  BY <1>1, <1>2 DEF ScriptType, Places

LEMMA IdleType ==
  ASSUME ScriptType, at' = "idle", todo' = <<>>, UNCHANGED <<command, graceful, pid>>
  PROVE  ScriptType'
  BY OrdersType, ServiceItems DEF ScriptType, Places

\* What happens to one process.
LEMMA ProcessType ==
  ASSUME ProcsType, FilesType, NEW s \in Services,
         \/ procs' = procs
         \/ \E p \in Pids(s), state \in States : procs' = [procs EXCEPT ![s][p] = state],
         pidFile' = pidFile \/ pidFile' = [pidFile EXCEPT ![s] = 0],
         \/ named' = named
         \/ \E p : named' = [named EXCEPT ![s] = @ \ {p}]
  PROVE  ProcsType' /\ pidFile' \in [Services -> Nat] /\ named' \in [Services -> SUBSET Nat]
<1>1. /\ procs' \in [Services -> Seq(States)]
      /\ \A t \in Services : Len(procs'[t]) = Len(procs[t])
  <2>1. CASE procs' = procs
    BY <2>1 DEF ProcsType
  <2>2. ASSUME NEW p \in Pids(s), NEW state \in States, procs' = [procs EXCEPT ![s][p] = state]
        PROVE  /\ procs' \in [Services -> Seq(States)]
               /\ \A t \in Services : Len(procs'[t]) = Len(procs[t])
    <3>1. procs[s] \in Seq(States) /\ p \in 1..Len(procs[s])
      BY DEF ProcsType, Pids
    <3>2. /\ [procs[s] EXCEPT ![p] = state] \in Seq(States)
          /\ Len([procs[s] EXCEPT ![p] = state]) = Len(procs[s])
      BY <3>1
    <3>3. procs' = [procs EXCEPT ![s] = [procs[s] EXCEPT ![p] = state]]
      BY <2>2
    <3> QED
      BY <3>2, <3>3 DEF ProcsType
  <2> QED
    BY <2>1, <2>2
<1>2. pidFile' \in [Services -> Nat] /\ \A t \in Services : pidFile'[t] \in {pidFile[t], 0}
  BY DEF FilesType
<1>3. named' \in [Services -> SUBSET Nat] /\ \A t \in Services : named'[t] \subseteq named[t]
  BY DEF FilesType
<1>4. \A t \in Services : Len(procs[t]) \in Nat
  BY DEF ProcsType
<1>5. ASSUME NEW t \in Services
      PROVE  pidFile'[t] \in 0..Len(procs'[t]) /\ named'[t] \subseteq 1..Len(procs'[t])
  <2>1. pidFile[t] \in 0..Len(procs[t]) /\ named[t] \subseteq 1..Len(procs[t])
    BY DEF ProcsType
  <2>2. pidFile'[t] \in {pidFile[t], 0} /\ named'[t] \subseteq named[t]
        /\ Len(procs'[t]) = Len(procs[t]) /\ Len(procs[t]) \in Nat
    BY <1>1, <1>2, <1>3, <1>4
  <2>3. pidFile'[t] \in 0..Len(procs[t])
    BY <2>1, <2>2
  <2> QED
    BY <2>1, <2>2, <2>3
<1> QED
  BY <1>1, <1>2, <1>3, <1>5 DEF ProcsType

LEMMA KillType ==
  ASSUME NEW s \in Services, NEW p, Kill(s, p)
  PROVE  \/ procs' = procs
         \/ \E q \in Pids(s), state \in States : procs' = [procs EXCEPT ![s][q] = state]
  BY DEF Kill, Live, States

\* The new process of a service.
LEMMA LaunchType ==
  ASSUME ProcsType, FilesType, NEW s \in Services, NEW hasName, Launch(s, hasName)
  PROVE  ProcsType' /\ pidFile' \in [Services -> Nat] /\ named' \in [Services -> SUBSET Nat]
<1> DEFINE p == Len(procs[s]) + 1
<1>1. p \in Nat /\ Append(procs[s], "up") \in Seq(States) /\ Len(Append(procs[s], "up")) = p
  BY DEF ProcsType, States
<1>2. procs' = [procs EXCEPT ![s] = Append(procs[s], "up")] /\ pidFile' = [pidFile EXCEPT ![s] = p]
  BY DEF Launch
<1>3. named' \in [Services -> SUBSET Nat]
      /\ \A t \in Services : named'[t] \subseteq IF t = s THEN named[t] \cup {p} ELSE named[t]
  BY <1>1 DEF Launch, FilesType
<1> HIDE DEF p
<1>4. \A t \in Services : Len(procs[t]) \in Nat /\ (t = s => p = Len(procs[t]) + 1)
  BY DEF ProcsType, p
<1>5. \A t \in Services : Len(procs'[t]) = IF t = s THEN p ELSE Len(procs[t])
  BY <1>1, <1>2 DEF ProcsType
<1>6. procs' \in [Services -> Seq(States)]
  BY <1>1, <1>2 DEF ProcsType
<1>7. pidFile' \in [Services -> Nat] /\ \A t \in Services : pidFile'[t] = IF t = s THEN p ELSE pidFile[t]
  BY <1>1, <1>2 DEF FilesType
<1>8. ASSUME NEW t \in Services
      PROVE  pidFile'[t] \in 0..Len(procs'[t]) /\ named'[t] \subseteq 1..Len(procs'[t])
  <2>1. /\ pidFile[t] \in 0..Len(procs[t]) /\ named[t] \subseteq 1..Len(procs[t])
        /\ Len(procs[t]) \in Nat
    BY <1>4 DEF ProcsType
  <2>2. CASE t = s
    <3>1. pidFile'[t] = p /\ named'[t] \subseteq named[t] \cup {p} /\ Len(procs'[t]) = p
      BY <1>3, <1>5, <1>7, <2>2
    <3>2. p = Len(procs[t]) + 1
      BY <1>4, <2>2
    <3> QED
      BY <2>1, <3>1, <3>2
  <2>3. CASE t # s
    BY <1>3, <1>5, <1>7, <2>1, <2>3
  <2> QED
    BY <2>2, <2>3
<1> QED
  BY <1>3, <1>6, <1>7, <1>8 DEF ProcsType

\* rm -rf, and the signals before it.
LEMMA RemoveType ==
  ASSUME ProcsType, FilesType,
         procs' = [s \in Services |-> [p \in Pids(s) |->
                     IF p = pidFile[s] /\ p \in Live(s) THEN "killed" ELSE procs[s][p]]],
         pidFile' = None, named' = [s \in Services |-> {}]
  PROVE  /\ ProcsType' /\ pidFile' \in [Services -> Nat] /\ named' \in [Services -> SUBSET Nat]
         /\ \A s \in Services : Len(procs'[s]) = Len(procs[s])
<1>1. ASSUME NEW s \in Services
      PROVE  procs'[s] \in Seq(States) /\ Len(procs'[s]) = Len(procs[s])
  <2>1. procs[s] \in Seq(States) /\ Pids(s) = 1..Len(procs[s]) /\ Len(procs[s]) \in Nat
    BY DEF ProcsType, Pids
  <2>2. procs'[s] = [p \in 1..Len(procs[s]) |->
                        IF p = pidFile[s] /\ p \in Live(s) THEN "killed" ELSE procs[s][p]]
    BY <2>1
  <2>3. \A p \in 1..Len(procs[s]) :
           (IF p = pidFile[s] /\ p \in Live(s) THEN "killed" ELSE procs[s][p]) \in States
    BY <2>1 DEF States
  <2> QED
    BY <2>1, <2>2, <2>3
<1>2. procs' \in [Services -> Seq(States)]
  BY <1>1
<1> QED
  BY <1>1, <1>2 DEF ProcsType, None

-----------------------------------------------------------------------------
\* The item the loop is at.
LEMMA CurrentType ==
  ASSUME ScriptType, at \in {"exit", "wait", "start"}, todo # <<>>
  PROVE  Current \in Services
  BY NextItem DEF ScriptType, Current

\* The parts that most steps leave alone.
LEMMA SameFilesType ==
  ASSUME TypeInv, UNCHANGED <<files, procs>>
  PROVE  FilesType' /\ ProcsType'
  BY DEF TypeInv, files, FilesType, ProcsType

LEMMA SameHistoryType ==
  ASSUME TypeInv, UNCHANGED <<bounds, history>>
  PROVE  HistoryType'
  BY DEF TypeInv, bounds, history, HistoryType

LEMMA BeginType ==
  ASSUME TypeInv, NEW c \in {"create", "start", "stop", "cleanup"}, NEW g \in Graceful, Begin(c, g)
  PROVE  TypeInv'
<1>1. MaxCommands \in Nat /\ g \in BOOLEAN
  BY SandboxAssumption DEF SandboxAssumption
<1>2. FilesType' /\ ProcsType'
  BY SameFilesType DEF Begin
<1>3. HistoryType'
  BY <1>1 DEF Begin, TypeInv, HistoryType, history
<1>4. graceful' \in BOOLEAN
  BY <1>1, Zenon DEF Begin
<1>5. \/ at' \in {"start", "exit"} /\ todo' = StopOrder
      \/ at' = "remove" /\ todo' = <<>>
  BY DEF Begin, Goto
<1>6. command' \in {"create", "start", "stop", "cleanup"} /\ pid' \in Nat
  BY DEF Begin, TypeInv, ScriptType
<1>7. ScriptType'
  BY <1>4, <1>5, <1>6, OrdersType, ServiceItems DEF ScriptType, Places
<1> QED
  BY <1>2, <1>3, <1>7 DEF TypeInv

\* The steps that only move in the script.
LEMMA MoveType ==
  ASSUME TypeInv, SkipExit \/ SkipStart \/ StopEnds \/ LoopEnds \/ Call
  PROVE  TypeInv'
<1>1. FilesType' /\ ProcsType'
  BY SameFilesType DEF SkipExit, SkipStart, StopEnds, LoopEnds, Call
<1>2. HistoryType'
  BY SameHistoryType DEF SkipExit, SkipStart, StopEnds, LoopEnds, Call
<1>3. ScriptType'
  BY TailType, IdleType DEF SkipExit, SkipStart, StopEnds, LoopEnds, Call, Goto, TypeInv
<1> QED
  BY <1>1, <1>2, <1>3 DEF TypeInv

LEMMA AskExitType ==
  ASSUME TypeInv, AskExit
  PROVE  TypeInv'
<1>1. Current \in Services
  BY CurrentType DEF AskExit, TypeInv
<1>2. \E p \in Pids(Current), state \in States : procs' = [procs EXCEPT ![Current][p] = state]
  BY DEF AskExit, Up, States
<1>3. ProcsType' /\ pidFile' \in [Services -> Nat] /\ named' \in [Services -> SUBSET Nat]
  BY <1>1, <1>2, ProcessType DEF AskExit, TypeInv, files
<1>4. FilesType'
  BY <1>3 DEF AskExit, TypeInv, files, FilesType
<1>5. HistoryType'
  BY SameHistoryType DEF AskExit
<1>6. pid' \in Nat
  BY <1>1 DEF AskExit, TypeInv, FilesType
<1>7. ScriptType'
  BY <1>6 DEF AskExit, WaitForPidFile, Goto, TypeInv, ScriptType, Places
<1> QED
  BY <1>3, <1>4, <1>5, <1>7 DEF TypeInv

LEMMA KilledType ==
  ASSUME TypeInv, KillNow \/ WaitTimeout
  PROVE  TypeInv'
<1>1. Current \in Services /\ todo # <<>> /\ at \in {"exit", "wait"}
  BY CurrentType DEF KillNow, WaitTimeout, TypeInv, ScriptType
<1>2. \/ procs' = procs
      \/ \E q \in Pids(Current), state \in States : procs' = [procs EXCEPT ![Current][q] = state]
  BY <1>1, KillType DEF KillNow, WaitTimeout, KilledInstead
<1>3. ProcsType' /\ pidFile' \in [Services -> Nat] /\ named' \in [Services -> SUBSET Nat]
  BY <1>1, <1>2, ProcessType DEF KillNow, WaitTimeout, Unnamed, TypeInv
<1>4. FilesType'
  BY <1>3 DEF KillNow, WaitTimeout, TypeInv, FilesType
<1>5. HistoryType'
  BY <1>1 DEF KillNow, WaitTimeout, KilledInstead, TypeInv, HistoryType, bounds
<1>6. ScriptType'
  BY <1>1, TailType DEF KillNow, WaitTimeout, Goto, TypeInv
<1> QED
  BY <1>3, <1>4, <1>5, <1>6 DEF TypeInv

LEMMA WaitDoneType ==
  ASSUME TypeInv, WaitDone
  PROVE  TypeInv'
<1>1. Current \in Services /\ todo # <<>>
  BY CurrentType DEF WaitDone, TypeInv, ScriptType
<1>2. ProcsType' /\ pidFile' \in [Services -> Nat] /\ named' \in [Services -> SUBSET Nat]
  BY <1>1, ProcessType DEF WaitDone, Unnamed, TypeInv
<1>3. FilesType'
  BY <1>2 DEF WaitDone, TypeInv, FilesType
<1>4. HistoryType'
  BY DEF WaitDone, TypeInv, HistoryType, bounds, history
<1>5. ScriptType'
  BY <1>1, TailType DEF WaitDone, Goto, TypeInv
<1> QED
  BY <1>2, <1>3, <1>4, <1>5 DEF TypeInv

LEMMA RemoveBoxType ==
  ASSUME TypeInv, RemoveBox
  PROVE  TypeInv'
<1>1. ProcsType' /\ pidFile' \in [Services -> Nat] /\ named' \in [Services -> SUBSET Nat]
  BY RemoveType DEF RemoveBox, TypeInv
<1>2. ip' \in BOOLEAN /\ rcIp' \in BOOLEAN /\ box' \in BOOLEAN
  BY Zenon DEF RemoveBox, IpAfterCleanup
<1>3. FilesType'
  BY <1>1, <1>2 DEF RemoveBox, TypeInv, FilesType
<1>4. HistoryType'
  BY DEF RemoveBox, TypeInv, HistoryType, bounds
<1>5. ScriptType'
  BY OrdersType, ServiceItems DEF RemoveBox, Goto, TypeInv, ScriptType, Places
<1> QED
  BY <1>1, <1>3, <1>4, <1>5 DEF TypeInv

LEMMA LaunchedType ==
  ASSUME TypeInv, RunService \/ AppStart
  PROVE  TypeInv'
<1>1. Current \in Services /\ todo # <<>>
  BY CurrentType DEF RunService, AppStart, TypeInv
<1>2. PICK hasName : Launch(Current, hasName)
  BY DEF RunService, AppStart
<1>3. ProcsType' /\ pidFile' \in [Services -> Nat] /\ named' \in [Services -> SUBSET Nat]
  BY <1>1, <1>2, LaunchType DEF TypeInv
<1>4. FilesType'
  BY <1>1, <1>3 DEF RunService, AppStart, TypeInv, FilesType
<1>5. HistoryType'
  BY <1>1, <1>2 DEF Launch, RunService, AppStart, TypeInv, HistoryType, bounds
<1>6. ScriptType'
  BY <1>1, TailType DEF RunService, AppStart, Goto, TypeInv
<1> QED
  BY <1>3, <1>4, <1>5, <1>6 DEF TypeInv

LEMMA StartFailsType ==
  ASSUME TypeInv, RunFails \/ AppStartFails
  PROVE  TypeInv'
<1>1. todo # <<>> /\ (AppStartFails => Current \in Services)
  BY CurrentType DEF RunFails, AppStartFails, TypeInv
<1>2. FilesType'
  BY DEF RunFails, AppStartFails, TypeInv, FilesType, files
<1>3. ProcsType'
  BY DEF RunFails, AppStartFails, TypeInv, ProcsType, files
<1>4. HistoryType'
  BY <1>1 DEF RunFails, AppStartFails, TypeInv, HistoryType, bounds
<1>5. ScriptType'
  BY <1>1, TailType, IdleType DEF RunFails, AppStartFails, Goto, TypeInv
<1> QED
  BY <1>2, <1>3, <1>4, <1>5 DEF TypeInv

LEMMA BindOrRecordType ==
  ASSUME TypeInv, BindOrRecord
  PROVE  TypeInv'
<1>1. ip' \in BOOLEAN /\ rcIp' \in BOOLEAN
  BY Zenon DEF BindOrRecord
<1>2. FilesType' /\ ProcsType'
  BY <1>1 DEF BindOrRecord, TypeInv, FilesType, ProcsType
<1>3. HistoryType'
  BY SameHistoryType DEF BindOrRecord
<1>4. ScriptType'
  BY TailType DEF BindOrRecord, Goto, TypeInv
<1> QED
  BY <1>2, <1>3, <1>4 DEF TypeInv

LEMMA DaemonType ==
  ASSUME TypeInv, NEW s \in Services, NEW p \in Pids(s), Exits(s, p) \/ Crash(s, p)
  PROVE  TypeInv'
<1>1. procs' = [procs EXCEPT ![s][p] = "gone"] /\ "gone" \in States
  BY DEF Exits, Crash, States
<1>2. ProcsType' /\ pidFile' \in [Services -> Nat] /\ named' \in [Services -> SUBSET Nat]
  BY <1>1, ProcessType DEF Exits, Crash, Unnamed, TypeInv, files
<1>3. FilesType'
  BY <1>2 DEF Exits, Crash, TypeInv, FilesType, files
<1>4. MaxCrashes \in Nat
  BY SandboxAssumption DEF SandboxAssumption
<1>5. HistoryType'
  BY <1>4 DEF Exits, Crash, TypeInv, HistoryType, bounds, history
<1>6. ScriptType'
  BY DEF Exits, Crash, TypeInv, ScriptType, script
<1> QED
  BY <1>2, <1>3, <1>5, <1>6 DEF TypeInv

LEMMA TypeStep == TypeInv /\ [Next]_vars => TypeInv'
<1> SUFFICES ASSUME TypeInv, [Next]_vars PROVE TypeInv'
  OBVIOUS
<1>1. CASE UNCHANGED vars
  <2>1. FilesType' /\ ProcsType' /\ HistoryType'
    BY <1>1, SameFilesType, SameHistoryType DEF vars
  <2>2. UNCHANGED <<command, graceful, at, todo, pid>>
    BY <1>1 DEF vars, script
  <2>3. ScriptType'
    BY <2>2 DEF TypeInv, ScriptType
  <2> QED
    BY <2>1, <2>3 DEF TypeInv
<1>2. CASE StopStep \/ StartStep
  BY <1>2, MoveType, AskExitType, KilledType, WaitDoneType, RemoveBoxType, LaunchedType,
     StartFailsType, BindOrRecordType DEF StopStep, StartStep
<1>3. CASE \E c \in {"create", "start", "stop", "cleanup"}, g \in Graceful : Begin(c, g)
  BY <1>3, BeginType
<1>4. CASE \E s \in Services : \E p \in Pids(s) : Exits(s, p) \/ Crash(s, p)
  BY <1>4, DaemonType
<1> QED
  BY <1>1, <1>2, <1>3, <1>4 DEF Next

LEMMA TypeInit == Init => TypeInv
<1> SUFFICES ASSUME Init PROVE TypeInv
  OBVIOUS
<1>1. MaxCommands \in Nat /\ MaxCrashes \in Nat
  BY SandboxAssumption DEF SandboxAssumption
<1>2. FilesType
  BY DEF Init, FilesType, None
<1>3. ProcsType
  <2>1. <<>> \in Seq(States) /\ Len(<<>>) = 0
    OBVIOUS
  <2>2. procs \in [Services -> Seq(States)]
    BY <2>1 DEF Init
  <2>3. \A s \in Services : procs[s] = <<>> /\ pidFile[s] = 0 /\ named[s] = {}
    BY DEF Init, None
  <2> QED
    BY <2>1, <2>2, <2>3 DEF ProcsType
<1>4. ScriptType
  BY OrdersType, ServiceItems DEF Init, ScriptType, Places
<1>5. HistoryType
  BY <1>1 DEF Init, HistoryType
<1> QED
  BY <1>2, <1>3, <1>4, <1>5 DEF TypeInv

\* Every variable has its type, and a pidfile names a process that was
\* started, whatever daemons hang, fail or are killed (ovs-sandbox.sh).
THEOREM TypeCorrect == Spec => []TypeOK
  BY TypeInit, TypeStep, TypeInvTypeOK, PTL DEF Spec

-----------------------------------------------------------------------------
(***************************************************************************)
(* The loop of create: each daemon is started once, and the address is     *)
(* recorded after it was given out.                                        *)
(***************************************************************************)
Has(list, item) == \E k \in DOMAIN list : list[k] = item
Distinct(list) == \A j, k \in DOMAIN list : list[j] = list[k] => j = k
BindsFirst(list) ==
    \A j \in DOMAIN list : list[j] = Bind => \E k \in DOMAIN list : j < k /\ list[k] = Record

LoopInv == at = "create" => box /\ Distinct(todo) /\ BindsFirst(todo)

LEMMA CreateOrderGood == Distinct(CreateOrder) /\ BindsFirst(CreateOrder)
<1>1. Record \in {CreateOrder[k] : k \in DOMAIN CreateOrder}
  BY SandboxAssumption DEF SandboxAssumption
<1>2. PICK k \in DOMAIN CreateOrder : CreateOrder[k] = Record
  BY <1>1
<1>3. \A j \in DOMAIN CreateOrder : CreateOrder[j] = Bind => j < k
  BY <1>2, SandboxAssumption DEF SandboxAssumption
<1> QED
  BY <1>2, <1>3, SandboxAssumption DEF SandboxAssumption, Distinct, BindsFirst

LEMMA TailGood ==
  ASSUME NEW S, NEW list \in Seq(S), list # <<>>, Distinct(list), BindsFirst(list)
  PROVE  Distinct(Tail(list)) /\ BindsFirst(Tail(list))
<1>1. /\ DOMAIN Tail(list) = 1..(Len(list) - 1) /\ DOMAIN list = 1..Len(list) /\ Len(list) \in Nat
      /\ \A k \in 1..(Len(list) - 1) : Tail(list)[k] = list[k + 1]
  OBVIOUS
<1>2. Distinct(Tail(list))
  BY <1>1 DEF Distinct
<1>3. BindsFirst(Tail(list))
  <2> SUFFICES ASSUME NEW j \in DOMAIN Tail(list), Tail(list)[j] = Bind
               PROVE  \E k \in DOMAIN Tail(list) : j < k /\ Tail(list)[k] = Record
    BY DEF BindsFirst
  <2>1. j + 1 \in DOMAIN list /\ list[j + 1] = Bind
    BY <1>1
  <2>2. PICK k \in DOMAIN list : j + 1 < k /\ list[k] = Record
    BY <2>1 DEF BindsFirst
  <2>3. k - 1 \in DOMAIN Tail(list) /\ j < k - 1 /\ Tail(list)[k - 1] = Record
    BY <1>1, <2>2
  <2> QED
    BY <2>3
<1> QED
  BY <1>2, <1>3

LEMMA LoopStep == TypeInv /\ LoopInv /\ [Next]_vars => LoopInv'
<1> SUFFICES ASSUME TypeInv, LoopInv, [Next]_vars PROVE LoopInv'
  OBVIOUS
<1>1. CASE UNCHANGED vars \/ \E s \in Services : \E p \in Pids(s) : Exits(s, p) \/ Crash(s, p)
  <2>1. UNCHANGED <<at, todo, box>>
    BY <1>1 DEF vars, files, script, Exits, Crash
  <2> QED
    BY <2>1 DEF LoopInv, Distinct, BindsFirst
<1>2. CASE \E c \in {"create", "start", "stop", "cleanup"}, g \in Graceful : Begin(c, g)
  BY <1>2 DEF Begin, Goto, LoopInv
<1>3. CASE RemoveBox
  BY <1>3, CreateOrderGood DEF RemoveBox, Goto, LoopInv
<1>4. CASE RunService \/ Call \/ BindOrRecord
  <2>1. at = "create" /\ todo # <<>> /\ todo' = Tail(todo) /\ UNCHANGED box
    BY <1>4 DEF RunService, Call, BindOrRecord, files, Goto
  <2>2. todo \in Seq(Items)
    BY DEF TypeInv, ScriptType
  <2> QED
    BY <2>1, <2>2, TailGood DEF LoopInv
<1>5. CASE \/ SkipExit \/ AskExit \/ KillNow \/ WaitDone \/ WaitTimeout \/ StopEnds
           \/ RunFails \/ SkipStart \/ AppStart \/ AppStartFails \/ LoopEnds
  <2>1. at' \in {"exit", "wait", "idle", "start"}
    BY <1>5 DEF SkipExit, AskExit, WaitForPidFile, KillNow, WaitDone, WaitTimeout, StopEnds,
                RunFails, SkipStart, AppStart, AppStartFails, LoopEnds, Goto
  <2> QED
    BY <2>1 DEF LoopInv
<1> QED
  BY <1>1, <1>2, <1>3, <1>4, <1>5 DEF Next, StopStep, StartStep

-----------------------------------------------------------------------------
(***************************************************************************)
(* The address.  It is on the device without being recorded only while     *)
(* create is between the two, or after it failed there.                    *)
(***************************************************************************)
AddressInv ==
    /\ AddressReleased
    /\ ip /\ ~rcIp /\ ~main /\ Bind \notin excused => at = "create" /\ Has(todo, Record)

LEMMA AddressStep == TypeInv /\ LoopInv /\ AddressInv /\ [Next]_vars => AddressInv'
<1> SUFFICES ASSUME TypeInv, LoopInv, AddressInv, [Next]_vars PROVE AddressInv'
  OBVIOUS
<1>1. /\ ip \in BOOLEAN /\ rcIp \in BOOLEAN /\ box \in BOOLEAN /\ Bind \notin Services
      /\ todo \in Seq(Items) /\ Bind # Record
  <2>1. Bind \notin Services
    BY SandboxAssumption DEF SandboxAssumption
  <2>2. Bind # Record
    BY CreateOrderGood, SandboxAssumption DEF SandboxAssumption, Distinct, BindsFirst
  <2> QED
    BY <2>1, <2>2 DEF TypeInv, FilesType, ScriptType
\* A step outside the loop of create.
<1>2. ASSUME at # "create", UNCHANGED <<ip, rcIp, box, main>>, excused \ Services \subseteq excused'
      PROVE  AddressInv'
  BY <1>1, <1>2 DEF AddressInv, AddressReleased
<1>3. CASE UNCHANGED vars \/ \E s \in Services : \E p \in Pids(s) : Exits(s, p) \/ Crash(s, p)
  <2>1. UNCHANGED <<at, todo, box, ip, rcIp, main>> /\ excused \subseteq excused'
    BY <1>3 DEF vars, files, script, history, Exits, Crash
  <2> QED
    BY <2>1 DEF AddressInv, AddressReleased, Has
<1>4. CASE \E c \in {"create", "start", "stop", "cleanup"}, g \in Graceful : Begin(c, g)
  BY <1>2, <1>4 DEF Begin, files, history
<1>5. CASE RemoveBox
  <2>1. at # "create" /\ ip' = (ip /\ (rcIp => main)) /\ main' = main /\ excused \subseteq excused'
    BY <1>5 DEF RemoveBox, IpAfterCleanup
  <2> QED
    BY <1>1, <2>1 DEF AddressInv, AddressReleased
<1>6. CASE RunService \/ Call
  <2>1. /\ at = "create" /\ at' = "create" /\ todo # <<>> /\ todo' = Tail(todo)
        /\ UNCHANGED <<ip, rcIp, box, main, excused>> /\ Head(todo) # Record
    BY <1>6, SandboxAssumption DEF RunService, Call, Goto, Current, SandboxAssumption, files, history
  <2>2. ASSUME Has(todo, Record) PROVE Has(Tail(todo), Record)
    <3>1. PICK k \in DOMAIN todo : todo[k] = Record
      BY <2>2 DEF Has
    <3>2. k - 1 \in DOMAIN Tail(todo) /\ Tail(todo)[k - 1] = Record
      BY <1>1, <2>1, <3>1, NextItem
    <3> QED
      BY <3>2 DEF Has
  <2> QED
    BY <2>1, <2>2 DEF AddressInv, AddressReleased
<1>7. CASE BindOrRecord
  <2>1. /\ at = "create" /\ at' = "create" /\ todo # <<>> /\ todo' = Tail(todo)
        /\ UNCHANGED <<box, main, excused>> /\ box
    BY <1>7 DEF BindOrRecord, Goto, history, LoopInv
  <2>2. CASE Head(todo) = Record
    <3>1. rcIp' /\ (ip' <=> ip)
      BY <1>1, <1>7, <2>2 DEF BindOrRecord, Current
    <3> QED
      BY <2>1, <3>1 DEF AddressInv, AddressReleased
  <2>3. CASE Head(todo) = Bind
    <3>1. PICK k \in DOMAIN todo : 1 < k /\ todo[k] = Record
      BY <1>1, <2>1, <2>3, NextItem DEF LoopInv, BindsFirst
    <3>2. Has(Tail(todo), Record)
      BY <1>1, <2>1, <3>1, NextItem DEF Has
    <3> QED
      BY <2>1, <3>2 DEF AddressInv, AddressReleased
  <2> QED
    BY <1>7, <2>2, <2>3 DEF BindOrRecord, Current
<1>8. CASE RunFails
  BY <1>1, <1>8 DEF RunFails, AddressInv, AddressReleased
<1>9. CASE LoopEnds
  <2>1. /\ todo = <<>> /\ UNCHANGED <<ip, rcIp, box, main, excused>>
    BY <1>9 DEF LoopEnds, files, history
  <2>2. ~Has(todo, Record)
    BY <2>1 DEF Has
  <2> QED
    BY <2>1, <2>2 DEF AddressInv, AddressReleased
<1>10. CASE SkipExit \/ AskExit \/ KillNow \/ WaitDone \/ WaitTimeout \/ StopEnds
  <2>1. at # "create" /\ UNCHANGED <<ip, rcIp, box, main>>
    BY <1>10 DEF SkipExit, AskExit, KillNow, WaitDone, WaitTimeout, StopEnds, files
  <2>2. excused \ Services \subseteq excused'
    <3>1. CASE WaitDone
      BY <3>1, CurrentType DEF WaitDone, history, TypeInv, ScriptType
    <3> QED
      BY <1>10, <3>1 DEF SkipExit, AskExit, KillNow, WaitTimeout, StopEnds, KilledInstead, history
  <2> QED
    BY <1>2, <2>1, <2>2
<1>11. CASE SkipStart \/ AppStart \/ AppStartFails
  BY <1>2, <1>11 DEF SkipStart, AppStart, AppStartFails, files, history
<1> QED
  BY <1>3, <1>4, <1>5, <1>6, <1>7, <1>8, <1>9, <1>10, <1>11 DEF Next, StopStep, StartStep

\* The address of a sandbox is on the device only as long as the sandbox is
\* there, unless it is the first address on the device, or a call or the start
\* of a daemon failed between ip_addr_add and sandbox.rc: for any sequence of
\* commands (ip_addr_del, do_cleanup, start_ovs, ovs-sandbox.sh).
THEOREM AddressIsReleased == Spec => []AddressReleased
<1>1. Init => TypeInv /\ LoopInv /\ AddressInv
  <2>1. Init => (ip => main)
    BY Zenon DEF Init
  <2>2. Init => AddressInv
    BY <2>1, TypeInit DEF AddressInv, AddressReleased, TypeInv, FilesType
  <2>3. Init => LoopInv
    BY DEF Init, LoopInv
  <2> QED
    BY <2>2, <2>3, TypeInit
<1>2. TypeInv /\ LoopInv /\ AddressInv /\ [Next]_vars => TypeInv' /\ LoopInv' /\ AddressInv'
  BY TypeStep, LoopStep, AddressStep
<1>3. AddressInv => AddressReleased
  BY DEF AddressInv
<1> QED
  BY <1>1, <1>2, <1>3, PTL DEF Spec

-----------------------------------------------------------------------------
(***************************************************************************)
(* Two processes of one daemon.  What lives of a daemon is in its pidfile, *)
(* unless it is excused; and create starts only daemons without one.       *)
(***************************************************************************)
InPidFile(s) == s \in excused \/ Live(s) \subseteq {pidFile[s]}

OverlapInv ==
    /\ OverlapOnlyAfterKill
    /\ \A s \in Services : InPidFile(s)
    /\ at = "create" => \A k \in DOMAIN todo : todo[k] \in Services => pidFile[todo[k]] = 0

LEMMA NoPidZero == TypeInv => \A s \in Services : 0 \notin Live(s)
  BY DEF TypeInv, ProcsType, Live, Pids

\* A daemon without a pidfile can be started, unless it is excused.
LEMMA LaunchOverlap ==
  ASSUME TypeInv, OverlapInv, NEW s \in Services, pidFile[s] = 0, NEW hasName, Launch(s, hasName),
         excused' = excused
  PROVE  /\ OverlapOnlyAfterKill' /\ \A t \in Services : InPidFile(t)'
         /\ \A t \in Services \ {s} : pidFile'[t] = pidFile[t]
<1>1. s \in excused \/ Live(s) = {}
  BY NoPidZero DEF OverlapInv, InPidFile
<1>2. OverlapOnlyAfterKill'
  BY <1>1 DEF Launch, OverlapInv, OverlapOnlyAfterKill
<1> DEFINE p == Len(procs[s]) + 1
<1>3. procs' = [procs EXCEPT ![s] = Append(procs[s], "up")] /\ pidFile' = [pidFile EXCEPT ![s] = p]
  BY DEF Launch
<1>4. ASSUME NEW t \in Services, t # s PROVE InPidFile(t)' /\ pidFile'[t] = pidFile[t]
  <2>1. procs'[t] = procs[t] /\ pidFile'[t] = pidFile[t]
    BY <1>3, <1>4 DEF TypeInv, FilesType, ProcsType
  <2> QED
    BY <2>1 DEF OverlapInv, InPidFile, Live, Pids
<1>5. InPidFile(s)'
  <2>1. CASE s \in excused
    BY <2>1 DEF InPidFile
  <2>2. CASE Live(s) = {}
    <3>1. procs[s] \in Seq(States)
      BY DEF TypeInv, ProcsType
    <3>2. procs'[s] = Append(procs[s], "up") /\ pidFile'[s] = p
      BY <1>3 DEF TypeInv, FilesType, ProcsType
    <3>3. \A q \in DOMAIN procs'[s] : q # p => q \in DOMAIN procs[s] /\ procs'[s][q] = procs[s][q]
      BY <3>1, <3>2
    <3>4. \A q \in DOMAIN procs[s] : procs[s][q] = "gone"
      BY <2>2 DEF Live, Pids
    <3> QED
      BY <3>2, <3>3, <3>4 DEF InPidFile, Live, Pids
  <2> QED
    BY <1>1, <2>1, <2>2
<1> QED
  BY <1>2, <1>4, <1>5

\* A process changes from one state to another, or is gone.
LEMMA ProcessOverlap ==
  ASSUME TypeInv, OverlapInv, NEW s \in Services, NEW p \in Live(s), NEW state \in States,
         procs' = [procs EXCEPT ![s][p] = state],
         \/ UNCHANGED <<pidFile, excused>>
         \/ state = "gone" /\ pidFile' = [pidFile EXCEPT ![s] = 0] /\ UNCHANGED excused
         \/ UNCHANGED pidFile /\ excused' = excused \cup {s},
         UNCHANGED overlapped
  PROVE  OverlapOnlyAfterKill' /\ \A t \in Services : InPidFile(t)'
<1>1. excused \subseteq excused'
  OBVIOUS
<1>2. OverlapOnlyAfterKill'
  BY <1>1 DEF OverlapInv, OverlapOnlyAfterKill
<1>3. procs[s] \in Seq(States) /\ p \in DOMAIN procs[s]
  BY DEF TypeInv, ProcsType, Live, Pids
<1>4. /\ procs'[s] = [procs[s] EXCEPT ![p] = state]
      /\ \A t \in Services \ {s} : procs'[t] = procs[t] /\ pidFile'[t] = pidFile[t]
  BY DEF TypeInv, ProcsType, FilesType
<1>5. ASSUME NEW t \in Services, t # s PROVE InPidFile(t)'
  BY <1>1, <1>4, <1>5 DEF OverlapInv, InPidFile, Live, Pids
<1>6. Live(s)' \subseteq IF state = "gone" THEN Live(s) \ {p} ELSE Live(s)
  BY <1>3, <1>4 DEF Live, Pids
<1>7. InPidFile(s)'
  BY <1>6 DEF OverlapInv, InPidFile
<1> QED
  BY <1>2, <1>5, <1>7

\* A kill: the daemon is excused.
LEMMA KillOverlap ==
  ASSUME TypeInv, OverlapInv, NEW s \in Services, NEW p, KilledInstead(s, p),
         UNCHANGED <<pidFile, overlapped>>
  PROVE  OverlapOnlyAfterKill' /\ \A t \in Services : InPidFile(t)'
<1>1. CASE p \in Live(s)
  BY <1>1, ProcessOverlap DEF KilledInstead, Kill, States
<1>2. CASE p \notin Live(s)
  <2>1. UNCHANGED procs /\ excused \subseteq excused'
    BY <1>2 DEF KilledInstead, Kill
  <2> QED
    BY <2>1 DEF OverlapInv, OverlapOnlyAfterKill, InPidFile, Live, Pids
<1> QED
  BY <1>1, <1>2

LEMMA WaitDoneOverlap ==
  ASSUME TypeInv, OverlapInv, WaitDone
  PROVE  OverlapOnlyAfterKill' /\ \A t \in Services : InPidFile(t)'
<1>1. CASE Live(Current) = {}
  <2>1. excused' = excused \ {Current} /\ overlapped' = overlapped \ {Current}
        /\ UNCHANGED <<procs, pidFile>>
    BY <1>1 DEF WaitDone
  <2> QED
    BY <1>1, <2>1 DEF OverlapInv, OverlapOnlyAfterKill, InPidFile, Live, Pids
<1>2. CASE UNCHANGED history
  BY <1>2 DEF WaitDone, history, OverlapInv, OverlapOnlyAfterKill, InPidFile, Live, Pids
<1> QED
  BY <1>1, <1>2 DEF WaitDone

LEMMA RemoveOverlap ==
  ASSUME TypeInv, OverlapInv, RemoveBox
  PROVE  OverlapOnlyAfterKill' /\ \A t \in Services : InPidFile(t)'
<1>1. excused' = excused \cup {s \in Services : pidFile[s] \in Live(s)} /\ UNCHANGED overlapped
  BY DEF RemoveBox
<1>2. ASSUME NEW t \in Services, t \notin excused' PROVE Live(t)' = {}
  <2>1. Live(t) = {}
    BY <1>1, <1>2 DEF OverlapInv, InPidFile
  <2>2. procs'[t] = [p \in Pids(t) |->
                        IF p = pidFile[t] /\ p \in Live(t) THEN "killed" ELSE procs[t][p]]
    BY DEF RemoveBox
  <2> QED
    BY <2>1, <2>2 DEF Live, Pids
<1> QED
  BY <1>1, <1>2 DEF OverlapInv, OverlapOnlyAfterKill, InPidFile

LEMMA OverlapStep == TypeInv /\ LoopInv /\ OverlapInv /\ [Next]_vars => OverlapInv'
<1> SUFFICES ASSUME TypeInv, LoopInv, OverlapInv, [Next]_vars PROVE OverlapInv'
  OBVIOUS
<1>1. ASSUME UNCHANGED <<procs, pidFile, overlapped>>, excused \subseteq excused',
             at' # "create" \/ (at = "create" /\ todo # <<>> /\ todo' = Tail(todo))
                            \/ UNCHANGED <<at, todo>>
      PROVE  OverlapInv'
  <2>1. OverlapOnlyAfterKill' /\ \A t \in Services : InPidFile(t)'
    BY <1>1 DEF OverlapInv, OverlapOnlyAfterKill, InPidFile, Live, Pids
  <2>2. todo \in Seq(Items)
    BY DEF TypeInv, ScriptType
  <2>3. at' = "create" => \A k \in DOMAIN todo' : todo'[k] \in Services => pidFile'[todo'[k]] = 0
    BY <1>1, <2>2, NextItem DEF OverlapInv
  <2> QED
    BY <2>1, <2>3 DEF OverlapInv
<1>2. CASE UNCHANGED vars
  BY <1>1, <1>2 DEF vars, files, script, history
<1>3. CASE \E c \in {"create", "start", "stop", "cleanup"}, g \in Graceful : Begin(c, g)
  <2>1. UNCHANGED <<procs, pidFile, overlapped, excused>> /\ at' # "create"
    BY <1>3 DEF Begin, Goto, files, history
  <2> QED
    BY <1>1, <2>1
<1>4. CASE \/ SkipExit \/ StopEnds \/ Call \/ RunFails \/ BindOrRecord \/ SkipStart
           \/ AppStartFails \/ LoopEnds
  BY <1>1, <1>4 DEF SkipExit, StopEnds, Call, RunFails, BindOrRecord, SkipStart, AppStartFails,
                    LoopEnds, Goto, files, history
<1>5. CASE AskExit
  <2>1. Current \in Services /\ at' # "create"
    BY <1>5, CurrentType DEF AskExit, WaitForPidFile, Goto, TypeInv
  <2>2. pidFile[Current] \in Live(Current)
    BY <1>5 DEF AskExit, Up, Live
  <2>3. OverlapOnlyAfterKill' /\ \A t \in Services : InPidFile(t)'
    BY <1>5, <2>1, <2>2, ProcessOverlap DEF AskExit, States, files, history
  <2> QED
    BY <2>1, <2>3 DEF OverlapInv
<1>6. CASE KillNow \/ WaitTimeout
  <2>1. Current \in Services /\ at' # "create"
    BY <1>6, CurrentType DEF KillNow, WaitTimeout, Goto, TypeInv, ScriptType
  <2>2. OverlapOnlyAfterKill' /\ \A t \in Services : InPidFile(t)'
    BY <1>6, <2>1, KillOverlap DEF KillNow, WaitTimeout
  <2> QED
    BY <2>1, <2>2 DEF OverlapInv
<1>7. CASE WaitDone
  BY <1>7, WaitDoneOverlap DEF WaitDone, Goto, OverlapInv
<1>8. CASE RemoveBox
  <2>1. at' = "create" => todo' = CreateOrder
    BY <1>8 DEF RemoveBox, Goto
  <2>2. \A s \in Services : pidFile'[s] = 0
    BY <1>8 DEF RemoveBox, None
  <2> QED
    BY <1>8, <2>1, <2>2, RemoveOverlap DEF OverlapInv
<1>9. CASE RunService
  <2>1. /\ at = "create" /\ todo # <<>> /\ todo' = Tail(todo) /\ Current \in Services
        /\ Launch(Current, TRUE) /\ UNCHANGED excused
    BY <1>9 DEF RunService, Goto
  <2>2. todo \in Seq(Items) /\ Distinct(todo)
    BY <2>1 DEF TypeInv, ScriptType, LoopInv
  <2>3. pidFile[Current] = 0
    BY <2>1, <2>2, NextItem DEF OverlapInv, Current
  <2>4. /\ OverlapOnlyAfterKill' /\ \A t \in Services : InPidFile(t)'
        /\ \A t \in Services \ {Current} : pidFile'[t] = pidFile[t]
    BY <2>1, <2>3, LaunchOverlap
  <2>5. \A k \in DOMAIN Tail(todo) : Tail(todo)[k] \in Services => pidFile'[Tail(todo)[k]] = 0
    <3> SUFFICES ASSUME NEW k \in DOMAIN Tail(todo), Tail(todo)[k] \in Services
                 PROVE  pidFile'[Tail(todo)[k]] = 0
      OBVIOUS
    <3>1. /\ k \in Nat \ {0} /\ k + 1 \in DOMAIN todo /\ Tail(todo)[k] = todo[k + 1]
          /\ 1 \in DOMAIN todo /\ todo[1] = Current
      BY <2>1, <2>2, NextItem DEF Current
    <3>2. todo[k + 1] # Current
      BY <2>2, <3>1 DEF Distinct
    <3> QED
      BY <2>1, <2>4, <3>1, <3>2 DEF OverlapInv
  <2> QED
    BY <2>1, <2>4, <2>5 DEF OverlapInv
<1>10. CASE AppStart
  <2>1. /\ Current \in Services /\ pidFile[Current] = 0 /\ at' # "create" /\ UNCHANGED excused
    BY <1>10, CurrentType DEF AppStart, SkipsStart, Goto, TypeInv
  <2> QED
    BY <1>10, <2>1, LaunchOverlap DEF AppStart, OverlapInv
<1>11. ASSUME NEW s \in Services, NEW p \in Pids(s), Exits(s, p) \/ Crash(s, p)
       PROVE  OverlapInv'
  <2>1. p \in Live(s)
    BY <1>11 DEF Exits, Crash, Live
  <2>2. OverlapOnlyAfterKill' /\ \A t \in Services : InPidFile(t)'
    BY <1>11, <2>1, ProcessOverlap DEF Exits, Crash, States, files, history
  <2>3. UNCHANGED <<at, todo>>
    BY <1>11 DEF Exits, Crash, script
  <2>4. \A t \in Services : pidFile[t] = 0 => pidFile'[t] = 0
    BY <1>11 DEF Exits, Crash, files, TypeInv, FilesType
  <2> QED
    BY <2>2, <2>3, <2>4 DEF OverlapInv
<1> QED
  BY <1>2, <1>3, <1>4, <1>5, <1>6, <1>7, <1>8, <1>9, <1>10, <1>11 DEF Next, StopStep, StartStep

\* Two processes of one daemon only ever run together when the first was
\* killed without waiting for its exit, crashed or failed to start: for any
\* sequence of commands (app_exit, app_start, run_service).
THEOREM NoDaemonTwice == Spec => []OverlapOnlyAfterKill
<1>1. Init => TypeInv /\ LoopInv /\ OverlapInv
  <2>1. Init => LoopInv
    BY DEF Init, LoopInv
  <2>2. Init => OverlapInv
    BY DEF Init, OverlapInv, OverlapOnlyAfterKill, InPidFile, Live, Pids
  <2> QED
    BY <2>1, <2>2, TypeInit
<1>2. TypeInv /\ LoopInv /\ OverlapInv /\ [Next]_vars => TypeInv' /\ LoopInv' /\ OverlapInv'
  BY TypeStep, LoopStep, OverlapStep
<1>3. OverlapInv => OverlapOnlyAfterKill
  BY DEF OverlapInv
<1> QED
  BY <1>1, <1>2, <1>3, PTL DEF Spec

-----------------------------------------------------------------------------
(***************************************************************************)
(* What a stop leaves.  Of a daemon that was not started over another one  *)
(* the only process, if one is up, is the one in its pidfile; and the stop *)
(* has taken down those its loop has been through.                         *)
(***************************************************************************)
OnlyOne(s) == s \in overlapped \/ Up(s) = {} \/ Live(s) = {pidFile[s]}
Down(s) == s \in overlapped \/ Up(s) = {}

\* The command at the places that only one has.
PlaceInv ==
    /\ at \in {"remove", "create"} => command = "create"
    /\ at = "start" => command = "start"

LEMMA PlaceStep == PlaceInv /\ [Next]_vars => PlaceInv'
<1> SUFFICES ASSUME PlaceInv, [Next]_vars PROVE PlaceInv'
  OBVIOUS
<1>1. CASE UNCHANGED vars \/ \E s \in Services : \E p \in Pids(s) : Exits(s, p) \/ Crash(s, p)
  <2>1. UNCHANGED <<at, command>>
    BY <1>1 DEF vars, script, Exits, Crash
  <2> QED
    BY <2>1 DEF PlaceInv
<1>2. CASE \E c \in {"create", "start", "stop", "cleanup"}, g \in Graceful : Begin(c, g)
  BY <1>2 DEF Begin, Goto, PlaceInv
<1>3. CASE RemoveBox
  BY <1>3 DEF RemoveBox, Goto, PlaceInv
<1>4. CASE RunService \/ Call \/ BindOrRecord \/ SkipStart \/ AppStart \/ AppStartFails
  <2>1. UNCHANGED <<at, command>>
    BY <1>4 DEF RunService, Call, BindOrRecord, SkipStart, AppStart, AppStartFails, Goto
  <2> QED
    BY <2>1 DEF PlaceInv
<1>5. CASE \/ SkipExit \/ AskExit \/ KillNow \/ WaitDone \/ WaitTimeout \/ StopEnds
           \/ RunFails \/ LoopEnds
  BY <1>5 DEF SkipExit, AskExit, WaitForPidFile, KillNow, WaitDone, WaitTimeout, StopEnds,
              RunFails, LoopEnds, Goto, PlaceInv
<1> QED
  BY <1>1, <1>2, <1>3, <1>4, <1>5 DEF Next, StopStep, StartStep

\* What app_exit waits for is the pid in the file, as long as there is one.
PidInv == at = "wait" => pidFile[Current] \in {pid, 0}

LEMMA PidStep == TypeInv /\ PidInv /\ [Next]_vars => PidInv'
<1> SUFFICES ASSUME TypeInv, PidInv, [Next]_vars PROVE PidInv'
  OBVIOUS
<1>1. CASE UNCHANGED vars
  BY <1>1 DEF vars, files, script, PidInv, Current
<1>2. CASE AskExit
  BY <1>2 DEF AskExit, WaitForPidFile, Goto, files, PidInv, Current
<1>3. ASSUME NEW s \in Services, NEW p \in Pids(s), Exits(s, p) \/ Crash(s, p) PROVE PidInv'
  <2>1. UNCHANGED <<at, todo, pid>> /\ (pidFile' = pidFile \/ pidFile' = [pidFile EXCEPT ![s] = 0])
    BY <1>3 DEF Exits, Crash, script, files
  <2>2. at = "wait" => pidFile'[Current] \in {pidFile[Current], 0}
    BY <2>1, CurrentType DEF TypeInv, FilesType, ScriptType
  <2> QED
    BY <2>1, <2>2 DEF PidInv, Current
<1>4. CASE \E c \in {"create", "start", "stop", "cleanup"}, g \in Graceful : Begin(c, g)
  BY <1>4 DEF Begin, Goto, PidInv
<1>5. CASE StopStep /\ ~AskExit
  BY <1>5 DEF StopStep, SkipExit, KillNow, WaitDone, WaitTimeout, StopEnds, RemoveBox, Goto, PidInv
<1>6. CASE StartStep
  <2>1. at \in {"create", "start"} /\ at' \in {at, "idle"}
    BY <1>6 DEF StartStep, RunService, Call, RunFails, BindOrRecord, SkipStart, AppStart,
                AppStartFails, LoopEnds, Goto
  <2> QED
    BY <2>1 DEF PidInv
<1> QED
  BY <1>1, <1>2, <1>3, <1>4, <1>5, <1>6 DEF Next

DownInv ==
    /\ \A s \in Services : OnlyOne(s)
    /\ at \in {"exit", "wait"} => \A s \in Services : Has(todo, s) \/ Down(s)
    /\ DownAfterStop

LEMMA NoPidFileDown == TypeInv => \A s \in Services : pidFile[s] = 0 /\ OnlyOne(s) => Down(s)
  BY NoPidZero DEF OnlyOne, Down, Up, Live

LEMMA StopOrderHasAll == \A s \in Services : Has(StopOrder, s)
  BY DEF Services, Has

\* A process that stops being up leaves the others as they were.
LEMMA ProcessDown ==
  ASSUME TypeInv, NEW s \in Services, NEW p \in Live(s), NEW state \in States \ {"up"},
         procs' = [procs EXCEPT ![s][p] = state],
         \/ UNCHANGED pidFile
         \/ state = "gone" /\ pidFile' = [pidFile EXCEPT ![s] = 0] /\ procs[s][p] # "up",
         UNCHANGED overlapped,
         \A t \in Services : OnlyOne(t)
  PROVE  /\ \A t \in Services : OnlyOne(t)' /\ (Down(t) => Down(t)')
         /\ p = pidFile[s] => Down(s)'
<1>1. procs[s] \in Seq(States) /\ p \in DOMAIN procs[s]
  BY DEF TypeInv, ProcsType, Live, Pids
<1>2. /\ procs'[s] = [procs[s] EXCEPT ![p] = state]
      /\ \A t \in Services \ {s} : procs'[t] = procs[t] /\ pidFile'[t] = pidFile[t]
  BY DEF TypeInv, ProcsType, FilesType
<1>3. ASSUME NEW t \in Services, t # s PROVE OnlyOne(t)' /\ (Down(t) => Down(t)')
  BY <1>2, <1>3 DEF OnlyOne, Down, Up, Live, Pids
<1>4. Up(s)' = Up(s) \ {p} /\ Live(s)' \subseteq Live(s)
  BY <1>1, <1>2 DEF Up, Live, Pids
<1>5. Up(s) \subseteq Live(s)
  BY DEF Up, Live
<1>6. Down(s) => Down(s)'
  BY <1>4 DEF Down
<1>7. s \in overlapped \/ Up(s) = {} \/ Up(s)' = {} \/ p \notin Up(s)
  BY <1>4, <1>5 DEF OnlyOne
<1>8. OnlyOne(s)'
  <2>1. CASE s \in overlapped \/ Up(s) = {}
    BY <1>4, <2>1 DEF OnlyOne
  <2>2. CASE Up(s) # {} /\ Live(s) = {pidFile[s]}
    <3>1. Up(s)' = {}
      BY <1>4, <1>5, <2>2
    <3> QED
      BY <3>1 DEF OnlyOne
  <2> QED
    BY <2>1, <2>2 DEF OnlyOne
<1>9. ASSUME p = pidFile[s] PROVE Down(s)'
  <2>1. s \in overlapped \/ Up(s) \subseteq {p}
    BY <1>5, <1>9 DEF OnlyOne
  <2> QED
    BY <1>4, <2>1 DEF Down
<1> QED
  BY <1>3, <1>6, <1>8, <1>9

\* A kill takes down the daemon in the pidfile.
LEMMA KillDown ==
  ASSUME TypeInv, NEW s \in Services, Kill(s, pidFile[s]), UNCHANGED <<pidFile, overlapped>>,
         \A t \in Services : OnlyOne(t)
  PROVE  /\ \A t \in Services : OnlyOne(t)' /\ (Down(t) => Down(t)')
         /\ Down(s)'
<1>1. CASE pidFile[s] \in Live(s)
  BY <1>1, ProcessDown DEF Kill, States
<1>2. CASE pidFile[s] \notin Live(s)
  <2>1. UNCHANGED procs
    BY <1>2 DEF Kill
  <2>2. \A t \in Services : OnlyOne(t)' /\ (Down(t) => Down(t)')
    BY <2>1 DEF OnlyOne, Down, Up, Live, Pids
  <2>3. Down(s)
    BY <1>2 DEF OnlyOne, Down
  <2> QED
    BY <2>2, <2>3
<1> QED
  BY <1>1, <1>2

\* The loop of a stop goes on when the daemon it is at is down.
LEMMA LoopDown ==
  ASSUME TypeInv, todo # <<>>, todo' = Tail(todo), at' = "exit",
         NEW s, s = Current, Down(s)', \A t \in Services : Down(t) => Down(t)',
         \A t \in Services : Has(todo, t) \/ Down(t)
  PROVE  \A t \in Services : Has(todo, t)' \/ Down(t)'
<1> SUFFICES ASSUME NEW t \in Services, ~Down(t)' PROVE Has(todo, t)'
  OBVIOUS
<1>1. todo \in Seq(Items)
  BY DEF TypeInv, ScriptType
<1>2. PICK k \in DOMAIN todo : todo[k] = t
  BY DEF Has
<1>3. k # 1
  BY <1>1, <1>2, NextItem DEF Current
<1>4. k - 1 \in DOMAIN Tail(todo) /\ Tail(todo)[k - 1] = t
  BY <1>1, <1>2, <1>3, NextItem
<1> QED
  BY <1>4 DEF Has

LEMMA LaunchDown ==
  ASSUME TypeInv, NEW s \in Services, NEW hasName, Launch(s, hasName), \A t \in Services : OnlyOne(t)
  PROVE  \A t \in Services : OnlyOne(t)'
<1> DEFINE p == Len(procs[s]) + 1
<1>1. /\ procs' = [procs EXCEPT ![s] = Append(procs[s], "up")] /\ pidFile' = [pidFile EXCEPT ![s] = p]
      /\ overlapped' = IF Live(s) = {} THEN overlapped ELSE overlapped \cup {s}
  BY DEF Launch
<1>2. ASSUME NEW t \in Services, t # s PROVE OnlyOne(t)'
  <2>1. procs'[t] = procs[t] /\ pidFile'[t] = pidFile[t] /\ (t \in overlapped => t \in overlapped')
    BY <1>1, <1>2 DEF TypeInv, FilesType, ProcsType
  <2> QED
    BY <2>1 DEF OnlyOne, Up, Live, Pids
<1>3. CASE Live(s) = {}
  <2>1. procs[s] \in Seq(States)
    BY DEF TypeInv, ProcsType
  <2>2. procs'[s] = Append(procs[s], "up") /\ pidFile'[s] = p
    BY <1>1 DEF TypeInv, FilesType, ProcsType
  <2>3. /\ \A q \in DOMAIN procs'[s] : q # p => q \in DOMAIN procs[s] /\ procs'[s][q] = procs[s][q]
        /\ p \in DOMAIN procs'[s] /\ procs'[s][p] = "up"
    BY <2>1, <2>2
  <2>4. \A q \in DOMAIN procs[s] : procs[s][q] = "gone"
    BY <1>3 DEF Live, Pids
  <2>5. Live(s)' = {pidFile[s]'}
    BY <2>2, <2>3, <2>4 DEF Live, Pids
  <2> QED
    BY <1>2, <2>5 DEF OnlyOne
<1>4. CASE Live(s) # {}
  BY <1>1, <1>2, <1>4 DEF OnlyOne
<1> QED
  BY <1>3, <1>4

LEMMA RemoveDown ==
  ASSUME TypeInv, RemoveBox, \A t \in Services : OnlyOne(t)
  PROVE  \A t \in Services : OnlyOne(t)' /\ Down(t)'
<1>1. UNCHANGED overlapped
  BY DEF RemoveBox
<1> SUFFICES ASSUME NEW t \in Services, t \notin overlapped PROVE Up(t)' = {}
  BY <1>1 DEF OnlyOne, Down
<1>2. procs'[t] = [p \in Pids(t) |->
                      IF p = pidFile[t] /\ p \in Live(t) THEN "killed" ELSE procs[t][p]]
  BY DEF RemoveBox
<1>3. \A p \in Pids(t) : procs[t][p] = "up" => p = pidFile[t] /\ p \in Live(t)
  BY DEF OnlyOne, Up, Live
<1> QED
  BY <1>2, <1>3 DEF Up, Pids

LEMMA DownStep == TypeInv /\ PlaceInv /\ PidInv /\ DownInv /\ [Next]_vars => DownInv'
<1> SUFFICES ASSUME TypeInv, PlaceInv, PidInv, DownInv, [Next]_vars PROVE DownInv'
  OBVIOUS
<1>1. /\ \A s \in Services : OnlyOne(s)
      /\ \A s \in Services : pidFile[s] = 0 => Down(s)
      /\ at \in {"exit", "wait"} => \A s \in Services : Has(todo, s) \/ Down(s)
      /\ \A s \in Services : ~Has(<<>>, s)
      /\ at \in {"exit", "wait"} /\ todo # <<>> => Current \in Services
  BY NoPidFileDown, CurrentType DEF DownInv, Has, TypeInv
\* A step that changes no process.
<1>2. ASSUME UNCHANGED <<procs, pidFile, overlapped>>
      PROVE  \A t \in Services : OnlyOne(t)' /\ (Down(t) => Down(t)')
  BY <1>1, <1>2 DEF OnlyOne, Down, Up, Live, Pids
<1>3. ASSUME \A t \in Services : OnlyOne(t)' /\ (Down(t) => Down(t)'), UNCHANGED script
      PROVE  DownInv'
  BY <1>3 DEF DownInv, DownAfterStop, Down, Has, script
<1>4. ASSUME \A t \in Services : OnlyOne(t)', at' \notin {"exit", "wait", "idle"}
      PROVE  DownInv'
  BY <1>4 DEF DownInv, DownAfterStop
<1>5. ASSUME \A t \in Services : OnlyOne(t)' /\ (Down(t) => Down(t)'), at \in {"exit", "wait"},
             todo # <<>>, at' = "exit", todo' = Tail(todo), NEW s, s = Current, Down(s)'
      PROVE  DownInv'
  BY <1>1, <1>5, LoopDown DEF DownInv, DownAfterStop
<1>6. CASE UNCHANGED vars
  BY <1>2, <1>3, <1>6 DEF vars, files, history
<1>7. CASE \E c \in {"create", "start", "stop", "cleanup"}, g \in Graceful : Begin(c, g)
  <2>1. /\ UNCHANGED <<procs, pidFile, overlapped>> /\ at' \in {"start", "remove", "exit"}
        /\ at' = "exit" => todo' = StopOrder
    BY <1>7 DEF Begin, Goto, files, history
  <2>2. at' = "exit" => \A s \in Services : Has(todo', s)
    BY <2>1, StopOrderHasAll
  <2> QED
    BY <1>2, <2>1, <2>2 DEF DownInv, DownAfterStop, Has
<1>8. CASE SkipExit
  <2>1. /\ at = "exit" /\ todo # <<>> /\ pidFile[Current] = 0 /\ at' = "exit" /\ todo' = Tail(todo)
        /\ UNCHANGED <<procs, pidFile, overlapped>>
    BY <1>8 DEF SkipExit, Goto, files, history
  <2>2. PICK s \in Services : s = Current
    BY <1>1, <2>1
  <2>3. Down(s)'
    BY <1>1, <1>2, <2>1, <2>2
  <2> QED
    BY <1>2, <1>5, <2>1, <2>2, <2>3
<1>9. CASE AskExit
  <2>1. /\ at = "exit" /\ at' = "wait" /\ todo' = todo /\ Current \in Services
        /\ procs' = [procs EXCEPT ![Current][pidFile[Current]] = "asked"]
        /\ pidFile[Current] \in Live(Current) /\ UNCHANGED <<pidFile, overlapped>>
    BY <1>1, <1>9 DEF AskExit, WaitForPidFile, Goto, Up, Live, files, history
  <2>2. \A t \in Services : OnlyOne(t)' /\ (Down(t) => Down(t)')
    BY <1>1, <2>1, ProcessDown DEF States
  <2> QED
    BY <1>1, <2>1, <2>2 DEF DownInv, DownAfterStop, Has
<1>10. CASE KillNow \/ WaitTimeout
  <2>1. /\ at \in {"exit", "wait"} /\ todo # <<>> /\ at' = "exit" /\ todo' = Tail(todo)
        /\ Kill(Current, pidFile[Current]) /\ UNCHANGED <<pidFile, overlapped>>
    BY <1>10 DEF KillNow, WaitTimeout, KilledInstead, Goto, TypeInv, ScriptType, PidInv
  <2>2. PICK s \in Services : s = Current
    BY <1>1, <2>1
  <2>3. /\ \A t \in Services : OnlyOne(t)' /\ (Down(t) => Down(t)')
        /\ Down(s)'
    BY <1>1, <2>1, <2>2, KillDown
  <2> QED
    BY <1>5, <2>1, <2>2, <2>3
<1>11. CASE WaitDone
  <2>1. /\ at = "wait" /\ todo # <<>> /\ at' = "exit" /\ todo' = Tail(todo) /\ pidFile[Current] = 0
        /\ UNCHANGED <<procs, pidFile>>
    BY <1>11 DEF WaitDone, Goto, TypeInv, ScriptType
  <2>2. PICK s \in Services : s = Current
    BY <1>1, <2>1
  <2>3. \/ UNCHANGED overlapped
        \/ Live(s) = {} /\ overlapped' = overlapped \ {s}
    BY <1>11, <2>2 DEF WaitDone, history
  <2>4. CASE UNCHANGED overlapped
    <3>1. Down(s)'
      BY <1>1, <1>2, <2>1, <2>2, <2>4
    <3> QED
      BY <1>2, <1>5, <2>1, <2>2, <2>4, <3>1
  <2>5. CASE Live(s) = {} /\ overlapped' = overlapped \ {s}
    <3>1. \A t \in Services : /\ Up(t)' = Up(t) /\ Live(t)' = Live(t)
                              /\ t # s => (t \in overlapped' <=> t \in overlapped)
      BY <2>1, <2>5 DEF Up, Live, Pids
    <3>2. Up(s) = {}
      BY <2>5 DEF Up, Live
    <3>3. ASSUME NEW t \in Services PROVE OnlyOne(t)' /\ (Down(t) => Down(t)')
      <4>1. CASE t = s
        BY <3>1, <3>2, <4>1 DEF OnlyOne, Down
      <4>2. CASE t # s
        <5>1. pidFile' = pidFile
          BY <2>1
        <5> QED
          BY <1>1, <3>1, <4>2, <5>1 DEF OnlyOne, Down
      <4> QED
        BY <4>1, <4>2
    <3>4. Down(s)'
      BY <3>1, <3>2 DEF Down
    <3> QED
      BY <1>5, <2>1, <2>2, <3>3, <3>4
  <2> QED
    BY <2>3, <2>4, <2>5
<1>12. CASE StopEnds
  <2>1. /\ at = "exit" /\ todo = <<>> /\ at' = "idle" /\ UNCHANGED <<procs, pidFile, overlapped>>
    BY <1>12 DEF StopEnds, Goto, files, history
  <2>2. \A s \in Services : Down(s)'
    BY <1>1, <1>2, <2>1
  <2> QED
    BY <1>2, <2>1, <2>2 DEF DownInv, DownAfterStop, Down
<1>13. CASE RemoveBox
  <2>1. at' \in {"create", "idle"}
    BY <1>13 DEF RemoveBox, Goto
  <2> QED
    BY <1>1, <1>13, <2>1, RemoveDown DEF DownInv, DownAfterStop, Down
<1>14. CASE RunService \/ AppStart
  <2>1. Current \in Services /\ at' \notin {"exit", "wait", "idle"}
    BY <1>14, CurrentType DEF RunService, AppStart, Goto, TypeInv
  <2>2. PICK hasName : Launch(Current, hasName)
    BY <1>14 DEF RunService, AppStart
  <2> QED
    BY <1>1, <1>4, <2>1, <2>2, LaunchDown
<1>15. CASE Call \/ BindOrRecord \/ SkipStart \/ AppStartFails
  <2>1. UNCHANGED <<procs, pidFile, overlapped>> /\ at' \notin {"exit", "wait", "idle"}
    BY <1>15 DEF Call, BindOrRecord, SkipStart, AppStartFails, Goto, files, history
  <2> QED
    BY <1>2, <1>4, <2>1
<1>16. CASE RunFails \/ LoopEnds
  <2>1. /\ UNCHANGED <<procs, pidFile, overlapped, command>> /\ at \in {"create", "start"} /\ at' = "idle"
    BY <1>16 DEF RunFails, LoopEnds, Goto, files, history
  <2>2. command \notin {"stop", "cleanup"}
    BY <2>1 DEF PlaceInv
  <2> QED
    BY <1>2, <2>1, <2>2 DEF DownInv, DownAfterStop
<1>17. ASSUME NEW s \in Services, NEW p \in Pids(s), Exits(s, p) \/ Crash(s, p)
       PROVE  DownInv'
  <2>1. /\ p \in Live(s) /\ procs' = [procs EXCEPT ![s][p] = "gone"]
        /\ \/ UNCHANGED pidFile
           \/ pidFile' = [pidFile EXCEPT ![s] = 0] /\ procs[s][p] # "up"
        /\ UNCHANGED overlapped /\ UNCHANGED script
    BY <1>17 DEF Exits, Crash, Live, files, history
  <2>2. \A t \in Services : OnlyOne(t)' /\ (Down(t) => Down(t)')
    BY <1>1, <2>1, ProcessDown DEF States
  <2> QED
    BY <1>3, <2>1, <2>2
<1> QED
  BY <1>6, <1>7, <1>8, <1>9, <1>10, <1>11, <1>12, <1>13, <1>14, <1>15, <1>16, <1>17
     DEF Next, StopStep, StartStep

\* When --stop or --cleanup has ended, no daemon is up that was not started
\* over a process still exiting; for any sequence of commands, with daemons
\* that hang, fail or are killed (do_stop, do_cleanup, app_exit).
THEOREM StoppedIsDown == Spec => []DownAfterStop
<1>1. Init => TypeInv /\ PlaceInv /\ PidInv /\ DownInv
  <2>1. Init => DownInv
    BY DEF Init, DownInv, OnlyOne, Down, DownAfterStop, Up, Live, Pids
  <2>2. Init => PlaceInv /\ PidInv
    BY DEF Init, PlaceInv, PidInv
  <2> QED
    BY <2>1, <2>2, TypeInit
<1>2. TypeInv /\ PlaceInv /\ PidInv /\ DownInv /\ [Next]_vars
      => TypeInv' /\ PlaceInv' /\ PidInv' /\ DownInv'
  BY TypeStep, PlaceStep, PidStep, DownStep
<1>3. DownInv => DownAfterStop
  BY DEF DownInv
<1> QED
  BY <1>1, <1>2, <1>3, PTL DEF Spec

-----------------------------------------------------------------------------
(***************************************************************************)
(* What a start leaves.  A daemon with a pidfile is up, unless it is       *)
(* excused or is being waited for; so a start that passes it by is right   *)
(* to do so.                                                               *)
(***************************************************************************)
FileIsUp(s) ==
    s \in excused \/ pidFile[s] = 0 \/ pidFile[s] \in Up(s) \/ (at = "wait" /\ s = Current)
Whole(s) == s \in excused \/ pidFile[s] \in Up(s)

WholeInv ==
    /\ \A s \in Services : FileIsUp(s)
    /\ at = "start" => \A s \in program : Has(todo, s) \/ Whole(s)
    /\ WholeAfterStart

\* Outside the loop of --start only the pidfiles matter.
LEMMA NotStartWhole ==
  ASSUME \A s \in Services : FileIsUp(s)', at' # "start", at' # "idle" \/ command' # "start"
  PROVE  WholeInv'
  BY DEF WholeInv, WholeAfterStart

LEMMA LaunchWhole ==
  ASSUME TypeInv, NEW s \in Services, NEW hasName, Launch(s, hasName), UNCHANGED excused,
         \A t \in Services : FileIsUp(t), at # "wait"
  PROVE  /\ \A t \in Services : FileIsUp(t)' /\ (Whole(t) => Whole(t)')
         /\ Whole(s)'
<1> DEFINE p == Len(procs[s]) + 1
<1>1. procs' = [procs EXCEPT ![s] = Append(procs[s], "up")] /\ pidFile' = [pidFile EXCEPT ![s] = p]
  BY DEF Launch
<1>2. procs[s] \in Seq(States)
  BY DEF TypeInv, ProcsType
<1>3. procs'[s] = Append(procs[s], "up") /\ pidFile'[s] = p
  BY <1>1 DEF TypeInv, FilesType, ProcsType
<1>4. p \in DOMAIN procs'[s] /\ procs'[s][p] = "up"
  BY <1>2, <1>3
<1>5. Whole(s)'
  BY <1>3, <1>4 DEF Whole, Up, Pids
<1>6. ASSUME NEW t \in Services, t # s PROVE FileIsUp(t)' /\ (Whole(t) => Whole(t)')
  <2>1. procs'[t] = procs[t] /\ pidFile'[t] = pidFile[t]
    BY <1>1, <1>6 DEF TypeInv, FilesType, ProcsType
  <2> QED
    BY <2>1 DEF FileIsUp, Whole, Up, Pids
<1>7. FileIsUp(s)'
  BY <1>5 DEF FileIsUp, Whole
<1> QED
  BY <1>5, <1>6, <1>7

\* The daemon at which one process changed is excused, or has no pidfile.
LEMMA ProcessWhole ==
  ASSUME TypeInv, NEW s \in Services, NEW p, NEW state,
         procs' = procs \/ procs' = [procs EXCEPT ![s][p] = state],
         pidFile' = pidFile \/ pidFile' = [pidFile EXCEPT ![s] = 0],
         excused \subseteq excused', s \in excused' \/ pidFile'[s] = 0,
         \A t \in Services : FileIsUp(t),
         at = "wait" => Current = s \/ UNCHANGED <<at, todo>>
  PROVE  /\ \A t \in Services : FileIsUp(t)'
         /\ \A t \in Services \ {s} : Whole(t) => Whole(t)'
<1>1. ASSUME NEW t \in Services, t # s PROVE FileIsUp(t)' /\ (Whole(t) => Whole(t)')
  <2>1. procs'[t] = procs[t] /\ pidFile'[t] = pidFile[t]
    BY <1>1 DEF TypeInv, FilesType, ProcsType
  <2>2. Up(t)' = Up(t)
    BY <2>1 DEF Up, Pids
  <2> QED
    BY <1>1, <2>1, <2>2 DEF FileIsUp, Whole, Current
<1>2. FileIsUp(s)'
  BY DEF FileIsUp
<1> QED
  BY <1>1, <1>2

\* The loop of a start goes on when the daemon it is at is whole, or was not
\* created.
LEMMA LoopWhole ==
  ASSUME TypeInv, todo # <<>>, todo' = Tail(todo), at' = at, at = "start", UNCHANGED program,
         \A t \in Services : FileIsUp(t)' /\ (Whole(t) => Whole(t)'),
         NEW s, s = Current, s \notin program \/ Whole(s)',
         WholeInv
  PROVE  WholeInv'
<1>1. todo \in Seq(Items) /\ program \subseteq Services
  BY DEF TypeInv, ScriptType, FilesType
<1>2. ASSUME NEW t \in program, ~Whole(t)' PROVE Has(todo, t)'
  <2>1. Has(todo, t)
    BY <1>1, <1>2 DEF WholeInv
  <2>2. PICK k \in DOMAIN todo : todo[k] = t
    BY <2>1 DEF Has
  <2>3. k # 1
    BY <1>1, <1>2, <2>2, NextItem DEF Current
  <2>4. k - 1 \in DOMAIN Tail(todo) /\ Tail(todo)[k - 1] = t
    BY <1>1, <2>2, <2>3, NextItem
  <2> QED
    BY <2>4 DEF Has
<1> QED
  BY <1>2 DEF WholeInv, WholeAfterStart

LEMMA WholeStep ==
  TypeInv /\ PlaceInv /\ PidInv /\ OverlapInv /\ WholeInv /\ [Next]_vars => WholeInv'
<1> SUFFICES ASSUME TypeInv, PlaceInv, PidInv, OverlapInv, WholeInv, [Next]_vars PROVE WholeInv'
  OBVIOUS
<1>1. /\ \A s \in Services : FileIsUp(s)
      /\ program \subseteq Services
      /\ at \in {"exit", "wait", "start"} /\ todo # <<>> => Current \in Services
  BY CurrentType DEF WholeInv, TypeInv, FilesType
\* A step that changes no process.
<1>2. ASSUME UNCHANGED <<procs, pidFile>>, excused \subseteq excused', at # "wait"
      PROVE  \A t \in Services : FileIsUp(t)' /\ (Whole(t) => Whole(t)')
  BY <1>1, <1>2 DEF FileIsUp, Whole, Up, Pids
<1>3. CASE UNCHANGED vars
  <2>1. UNCHANGED <<procs, pidFile, excused, program, at, todo, command>>
    BY <1>3 DEF vars, files, script, history
  <2> QED
    BY <2>1 DEF WholeInv, WholeAfterStart, FileIsUp, Whole, Has, Up, Pids, Current
<1>4. CASE \E c \in {"create", "start", "stop", "cleanup"}, g \in Graceful : Begin(c, g)
  <2>1. /\ UNCHANGED <<procs, pidFile, excused, program>> /\ at = "idle" /\ at' # "idle"
        /\ at' = "start" => todo' = StopOrder
    BY <1>4 DEF Begin, Goto, files, history
  <2>2. at' = "start" => \A s \in Services : Has(todo, s)'
    BY <2>1, StopOrderHasAll DEF Has
  <2> QED
    BY <1>1, <1>2, <2>1, <2>2 DEF WholeInv, WholeAfterStart
<1>5. CASE SkipExit \/ StopEnds \/ Call \/ RunFails \/ BindOrRecord
  <2>1. UNCHANGED <<procs, pidFile>> /\ excused \subseteq excused' /\ at # "wait"
    BY <1>5 DEF SkipExit, StopEnds, Call, RunFails, BindOrRecord, files, history
  <2>2. at' # "start" /\ (at' # "idle" \/ command' # "start")
    BY <1>5 DEF SkipExit, StopEnds, Call, RunFails, BindOrRecord, Goto, PlaceInv
  <2> QED
    BY <1>2, <2>1, <2>2, NotStartWhole
<1>6. CASE AskExit
  <2>1. /\ at = "exit" /\ at' = "wait" /\ todo' = todo /\ Current \in Services
        /\ procs' = [procs EXCEPT ![Current][pidFile[Current]] = "asked"]
        /\ UNCHANGED <<pidFile, excused>>
    BY <1>1, <1>6 DEF AskExit, WaitForPidFile, Goto, files, history
  <2>2. ASSUME NEW t \in Services PROVE FileIsUp(t)'
    <3>1. CASE t = Current
      BY <2>1, <3>1 DEF FileIsUp, Current
    <3>2. CASE t # Current
      <4>1. procs'[t] = procs[t] /\ pidFile'[t] = pidFile[t]
        BY <2>1, <3>2 DEF TypeInv, ProcsType
      <4> QED
        BY <1>1, <2>1, <4>1 DEF FileIsUp, Up, Pids
    <3> QED
      BY <3>1, <3>2
  <2> QED
    BY <2>1, <2>2, NotStartWhole
<1>7. CASE KillNow \/ WaitTimeout
  <2>1. /\ at \in {"exit", "wait"} /\ todo # <<>> /\ at' = "exit"
        /\ KilledInstead(Current, pidFile[Current]) /\ UNCHANGED pidFile
    BY <1>7 DEF KillNow, WaitTimeout, Goto, TypeInv, ScriptType, PidInv
  <2>2. PICK s \in Services : s = Current
    BY <1>1, <2>1
  <2>3. /\ procs' = procs \/ procs' = [procs EXCEPT ![s][pidFile[s]] = "killed"]
        /\ excused' = excused \cup {s}
    BY <2>1, <2>2 DEF KilledInstead, Kill
  <2>4. \A t \in Services : FileIsUp(t)'
    BY <1>1, <2>1, <2>2, <2>3, ProcessWhole
  <2> QED
    BY <2>1, <2>4, NotStartWhole
<1>8. CASE WaitDone
  <2>1. /\ at = "wait" /\ at' = "exit" /\ pidFile[Current] = 0 /\ UNCHANGED <<procs, pidFile>>
        /\ excused' = excused \/ excused' = excused \ {Current}
    BY <1>8 DEF WaitDone, Goto, history
  <2>2. \A t \in Services : FileIsUp(t)'
    BY <1>1, <2>1 DEF FileIsUp, Up, Pids
  <2> QED
    BY <2>1, <2>2, NotStartWhole
<1>9. CASE RemoveBox
  <2>1. pidFile' = None /\ at' # "start" /\ UNCHANGED command /\ command \in {"cleanup", "create"}
    BY <1>9 DEF RemoveBox, Goto, PlaceInv
  <2>2. \A t \in Services : FileIsUp(t)'
    BY <2>1 DEF FileIsUp, None
  <2> QED
    BY <2>1, <2>2, NotStartWhole
<1>10. CASE RunService
  <2>1. /\ at = "create" /\ at' = "create" /\ Current \in Services
        /\ Launch(Current, TRUE) /\ UNCHANGED excused
    BY <1>10 DEF RunService, Goto
  <2> QED
    BY <1>1, <2>1, LaunchWhole, NotStartWhole
<1>11. CASE SkipStart
  <2>1. /\ at = "start" /\ todo # <<>> /\ at' = at /\ todo' = Tail(todo)
        /\ UNCHANGED <<procs, pidFile, program, excused>>
        /\ Current \notin program \/ pidFile[Current] # 0
    BY <1>11 DEF SkipStart, SkipsStart, Goto, files, history
  <2>2. PICK s \in Services : s = Current
    BY <1>1, <2>1
  <2>3. s \notin program \/ Whole(s)
    BY <1>1, <2>1, <2>2 DEF FileIsUp, Whole
  <2> QED
    BY <1>2, <2>1, <2>2, <2>3, LoopWhole
<1>12. CASE AppStart
  <2>1. /\ at = "start" /\ todo # <<>> /\ at' = at /\ todo' = Tail(todo)
        /\ UNCHANGED <<program, excused>>
    BY <1>12 DEF AppStart, Goto
  <2>2. PICK s \in Services : s = Current
    BY <1>1, <2>1
  <2>3. PICK hasName : Launch(s, hasName)
    BY <1>12, <2>2 DEF AppStart
  <2> QED
    BY <1>1, <2>1, <2>2, <2>3, LaunchWhole, LoopWhole
<1>13. CASE AppStartFails
  <2>1. /\ at = "start" /\ todo # <<>> /\ at' = at /\ todo' = Tail(todo)
        /\ UNCHANGED <<procs, pidFile, program>> /\ excused' = excused \cup {Current}
    BY <1>13 DEF AppStartFails, Goto, files
  <2>2. PICK s \in Services : s = Current
    BY <1>1, <2>1
  <2>3. Whole(s)'
    BY <2>1, <2>2 DEF Whole
  <2> QED
    BY <1>2, <2>1, <2>2, <2>3, LoopWhole
<1>14. CASE LoopEnds
  <2>1. /\ at \in {"create", "start"} /\ todo = <<>> /\ at' = "idle"
        /\ UNCHANGED <<procs, pidFile, program, excused, command>>
    BY <1>14 DEF LoopEnds, Goto, files, history
  <2>2. command = "start" => \A s \in program : Whole(s)
    BY <2>1 DEF PlaceInv, WholeInv, Has
  <2>3. WholeAfterStart'
    BY <2>1, <2>2 DEF WholeAfterStart, Whole, Up, Pids
  <2> QED
    BY <1>2, <2>1, <2>3 DEF WholeInv
<1>15. ASSUME NEW s \in Services, NEW p \in Pids(s), Exits(s, p) \/ Crash(s, p)
       PROVE  WholeInv'
  <2>1. /\ procs' = [procs EXCEPT ![s][p] = "gone"]
        /\ pidFile' = pidFile \/ pidFile' = [pidFile EXCEPT ![s] = 0]
        /\ excused \subseteq excused' /\ UNCHANGED <<program, at, todo, command>>
    BY <1>15 DEF Exits, Crash, files, script, history
  <2>2. s \in excused' \/ pidFile'[s] = 0
    <3>1. CASE Crash(s, p)
      BY <3>1 DEF Crash
    <3>2. CASE Exits(s, p)
      <4>1. pidFile' = [pidFile EXCEPT ![s] = 0] /\ pidFile \in [Services -> Nat]
        BY <3>2 DEF Exits, TypeInv, FilesType
      <4> QED
        BY <4>1
    <3> QED
      BY <1>15, <3>1, <3>2
  <2>3. /\ \A t \in Services : FileIsUp(t)'
        /\ \A t \in Services \ {s} : Whole(t) => Whole(t)'
    BY <1>1, <2>1, <2>2, ProcessWhole
  <2>4. Whole(s) => s \in excused'
    <3>1. CASE Crash(s, p)
      BY <3>1 DEF Crash
    <3>2. CASE Exits(s, p)
      <4>1. p \in Live(s) /\ p \notin Up(s)
        BY <3>2 DEF Exits, Live, Up
      <4>2. s \in excused \/ p = pidFile[s]
        BY <4>1 DEF OverlapInv, InPidFile
      <4> QED
        BY <2>1, <4>1, <4>2 DEF Whole
    <3> QED
      BY <1>15, <3>1, <3>2
  <2>5. \A t \in Services : Whole(t) => Whole(t)'
    BY <2>3, <2>4 DEF Whole
  <2>6. WholeAfterStart'
    <3> SUFFICES ASSUME at = "idle", command = "start", NEW t \in program, t \notin excused'
                 PROVE  (pidFile[t] \in Up(t))'
      BY <2>1 DEF WholeAfterStart
    <3>1. Whole(t)
      BY <2>1 DEF WholeInv, WholeAfterStart, Whole
    <3> QED
      BY <1>1, <2>5, <3>1 DEF Whole
  <2> QED
    BY <1>1, <2>1, <2>3, <2>5, <2>6 DEF WholeInv, Has
<1> QED
  BY <1>3, <1>4, <1>5, <1>6, <1>7, <1>8, <1>9, <1>10, <1>11, <1>12, <1>13, <1>14, <1>15
     DEF Next, StopStep, StartStep

\* When --start has ended, every daemon the sandbox was created with is up and
\* is the one in its pidfile, unless it was killed without waiting, crashed or
\* did not start: what was stopped in time starts again (do_start, app_start).
THEOREM StartedIsWhole == Spec => []WholeAfterStart
<1>1. Init => TypeInv /\ LoopInv /\ PlaceInv /\ PidInv /\ OverlapInv /\ WholeInv
  <2>1. Init => LoopInv /\ PlaceInv /\ PidInv
    BY DEF Init, LoopInv, PlaceInv, PidInv
  <2>2. Init => OverlapInv
    BY DEF Init, OverlapInv, OverlapOnlyAfterKill, InPidFile, Live, Pids
  <2>3. Init => WholeInv
    BY DEF Init, WholeInv, FileIsUp, WholeAfterStart, None
  <2> QED
    BY <2>1, <2>2, <2>3, TypeInit
<1>2. TypeInv /\ LoopInv /\ PlaceInv /\ PidInv /\ OverlapInv /\ WholeInv /\ [Next]_vars
      => TypeInv' /\ LoopInv' /\ PlaceInv' /\ PidInv' /\ OverlapInv' /\ WholeInv'
  BY TypeStep, LoopStep, PlaceStep, PidStep, OverlapStep, WholeStep
<1>3. WholeInv => WholeAfterStart
  BY DEF WholeInv
<1> QED
  BY <1>1, <1>2, <1>3, PTL DEF Spec
=============================================================================
