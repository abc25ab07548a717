--------------------------- MODULE SandboxScript ---------------------------
(***************************************************************************)
(* ovs-sandbox.sh: one sandbox (a directory with sandbox.rc, a pidfile and *)
(* a control socket for each daemon, and $proc.sh to start it again), the  *)
(* daemons that run in it, and the commands that rally_ovs runs over ssh   *)
(* one after the other: create, --start, --stop, --cleanup, with or        *)
(* without --graceful.                                                     *)
(*                                                                         *)
(* The daemons are Open vSwitch's, not the repository's.  The script counts *)
(* on this: a daemon has written its pidfile when its start returns, and   *)
(* deletes the file of that name when it exits; `kill` (SIGTERM) makes it  *)
(* exit some time later; `ovs-appctl exit` answers before the daemon has   *)
(* exited.  A daemon may hang, before or after that answer, and may be     *)
(* killed from outside (SIGKILL), which leaves its pidfile.                *)
(*                                                                         *)
(* The calls of create that only write databases (ovsdb-tool, ovs-vsctl,   *)
(* ovn-nbctl) are Calls.  They and the starts of daemons may fail, which   *)
(* ends the script (run()), and may hang: nothing makes them end.          *)
(*                                                                         *)
(* Operators named after a mistake (WaitSkipped, ...) stand before the one *)
(* they could replace; they are used by no definition.                     *)
(***************************************************************************)
EXTENDS Naturals, Sequences, FiniteSets

CONSTANTS
    StopOrder,    \* the daemons, in the order of do_start() and do_stop()
    CreateOrder,  \* what creating does: daemons, Calls, Bind and Record, in order
    Bind,         \* ip_addr_add
    Record,       \* SANDBOX_BIND_IP goes to sandbox.rc
    Calls,        \* ovsdb-tool create, init_ovsdb_server, ovs-vsctl, ...
    Renamed,      \* the daemons whose control socket gets its pid by `mv`
    Graceful,     \* the values of --graceful the caller uses
    MaxCommands,  \* bound: commands run
    MaxCrashes,   \* bound: daemons killed from outside
    MayFail       \* whether a call or the start of a daemon can fail

Services == {StopOrder[k] : k \in DOMAIN StopOrder}

ASSUME SandboxAssumption ==
    /\ MaxCommands \in Nat /\ MaxCrashes \in Nat
    /\ Graceful \subseteq BOOLEAN /\ MayFail \in BOOLEAN
    /\ Renamed \subseteq Services
    /\ {Bind, Record} \cap (Services \cup Calls) = {} /\ Services \cap Calls = {}
    /\ StopOrder \in Seq(Services)
    /\ CreateOrder \in Seq(Services \cup Calls \cup {Bind, Record})
    /\ {CreateOrder[k] : k \in DOMAIN CreateOrder} = Services \cup Calls \cup {Bind, Record}
    /\ \A j, k \in DOMAIN CreateOrder :
          /\ CreateOrder[j] = CreateOrder[k] => j = k
          /\ CreateOrder[j] = Bind /\ CreateOrder[k] = Record => j < k

VARIABLES
    box,       \* the directory is a sandbox (is_sandbox)
    program,   \* the daemons that have a $proc.sh
    pidFile,   \* the pid in $proc.pid, 0 when there is no such file
    named,     \* the pids whose socket is called $proc.$pid.ctl
    procs,     \* procs[s][pid] : what the pid-th process of s is doing
    ip,        \* the sandbox's address is on the device
    main,      \* it is, or would be, the first one there (IP_CIDR_ARRAY[0])
    rcIp,      \* sandbox.rc has SANDBOX_BIND_IP
    command,   \* the command, the last one when at = "idle"
    graceful,  \* --graceful
    at,        \* where in the script it is
    todo,      \* what is left of the loop
    pid,       \* $pid of the app_exit that waits, else 0
    count, crashes,
    excused,   \* history: daemons killed without waiting, crashed, not started
    overlapped \* history: daemons started while an earlier process still ran

files == <<box, program, pidFile, named, ip, rcIp, main>>
script == <<command, graceful, at, todo, pid>>
bounds == <<count, crashes>>
history == <<excused, overlapped>>
vars == <<files, procs, script, bounds, history>>

Pids(s) == DOMAIN procs[s]
Live(s) == {p \in Pids(s) : procs[s][p] # "gone"}
Up(s) == {p \in Pids(s) : procs[s][p] = "up"}
Current == Head(todo)
None == [s \in Services |-> 0]

\* The address may be the host's own, which is the first on the device; one
\* that is not the first is there because of the sandbox only.
Init ==
    /\ box = FALSE /\ program = {} /\ pidFile = None
    /\ named = [s \in Services |-> {}]
    /\ procs = [s \in Services |-> <<>>]
    /\ main \in BOOLEAN /\ ip \in {FALSE, main} /\ rcIp = FALSE
    /\ command = "none" /\ graceful = FALSE /\ at = "idle" /\ todo = <<>> /\ pid = 0
    /\ count = 0 /\ crashes = 0 /\ excused = {} /\ overlapped = {}

Goto(place, rest) == at' = place /\ todo' = rest

\* A command starts.  create begins with do_cleanup of what is there;
\* the others return at once when there is no sandbox.
Begin(c, g) ==
    /\ at = "idle" /\ count < MaxCommands
    /\ c # "create" => box
    /\ command' = c /\ count' = count + 1
    /\ graceful' = (g /\ c \in {"stop", "cleanup"})
    /\ CASE c = "start" -> Goto("start", StopOrder)
         [] c = "create" /\ ~box -> Goto("remove", <<>>)
         [] OTHER -> Goto("exit", StopOrder)
    /\ UNCHANGED <<files, procs, pid, crashes, history>>

-----------------------------------------------------------------------------
\* kill $pid: a process that is gone is not there to be killed.
Kill(s, p) ==
    procs' = IF p \in Live(s) THEN [procs EXCEPT ![s][p] = "killed"] ELSE procs

NotKilled(s, p) ==
    /\ UNCHANGED procs
    /\ excused' = excused \cup {s}

\* The end of an app_exit that killed: it does not wait for the exit.
KilledInstead(s, p) ==
    /\ Kill(s, p)
    /\ excused' = excused \cup {s}

\* app_exit of a daemon that has no pidfile.
SkipExit ==
    /\ at = "exit" /\ todo # <<>> /\ pidFile[Current] = 0
    /\ Goto("exit", Tail(todo))
    /\ UNCHANGED <<files, procs, command, graceful, pid, bounds, history>>

\* ovs-appctl exit, which answers.
WaitSkipped == Goto("exit", Tail(todo))

WaitForPidFile == Goto("wait", todo)

AskExit ==
    /\ at = "exit" /\ todo # <<>> /\ pidFile[Current] # 0 /\ graceful
    /\ pidFile[Current] \in named[Current] \cap Up(Current)
    /\ procs' = [procs EXCEPT ![Current][pidFile[Current]] = "asked"]
    /\ WaitForPidFile
    /\ pid' = pidFile[Current]
    /\ UNCHANGED <<files, command, graceful, bounds, history>>

\* The socket `rm -f` deletes at the end of app_exit.
Unnamed(s, p) == [named EXCEPT ![s] = @ \ {p}]

\* Not graceful, or ovs-appctl failed (no such socket, a daemon that hangs or
\* is not there): kill.
KillNow ==
    /\ at = "exit" /\ todo # <<>> /\ pidFile[Current] # 0
    /\ KilledInstead(Current, pidFile[Current])
    /\ named' = Unnamed(Current, pidFile[Current])
    /\ Goto("exit", Tail(todo))
    /\ UNCHANGED <<box, program, pidFile, ip, rcIp, main, command, graceful, pid, bounds, overlapped>>

\* The pidfile is gone within 15 seconds.
WaitDone ==
    /\ at = "wait" /\ pidFile[Current] = 0
    /\ IF Live(Current) = {}
       THEN excused' = excused \ {Current} /\ overlapped' = overlapped \ {Current}
       ELSE UNCHANGED history
    /\ named' = Unnamed(Current, pid) /\ pid' = 0
    /\ Goto("exit", Tail(todo))
    /\ UNCHANGED <<box, program, pidFile, ip, rcIp, main, procs, command, graceful, bounds>>

\* It is not: kill.
NoDeadline == FALSE

WaitTimeout ==
    /\ at = "wait" /\ pidFile[Current] # 0
    /\ KilledInstead(Current, pid)
    /\ named' = Unnamed(Current, pid) /\ pid' = 0
    /\ Goto("exit", Tail(todo))
    /\ UNCHANGED <<box, program, pidFile, ip, rcIp, main, command, graceful, bounds, overlapped>>

StopEnds ==
    /\ at = "exit" /\ todo = <<>> /\ command = "stop"
    /\ Goto("idle", <<>>)
    /\ UNCHANGED <<files, procs, command, graceful, pid, bounds, history>>

\* ip_addr_del, for the address in sandbox.rc ("skip main ip").
IpKept == ip

IpAfterCleanup == ip /\ (rcIp => main)

\* The rest of do_cleanup: kill -15 the pids still in a pidfile, give the
\* address back, rm -rf.  create goes on with mkdir and sandbox.rc.

RemoveBox ==
    /\ \/ at = "exit" /\ todo = <<>> /\ command \in {"cleanup", "create"}
       \/ at = "remove"
    /\ procs' = [s \in Services |-> [p \in Pids(s) |->
                    IF p = pidFile[s] /\ p \in Live(s) THEN "killed" ELSE procs[s][p]]]
    /\ excused' = excused \cup {s \in Services : pidFile[s] \in Live(s)}
    /\ ip' = IpAfterCleanup /\ rcIp' = FALSE
    /\ program' = {} /\ pidFile' = None /\ named' = [s \in Services |-> {}]
    /\ box' = (command = "create")
    /\ IF command = "create" THEN Goto("create", CreateOrder) ELSE Goto("idle", <<>>)
    /\ UNCHANGED <<main, command, graceful, pid, bounds, overlapped>>

-----------------------------------------------------------------------------
\* A new process of s, whose socket has its pid in its name or not.
NoProcess(s, hasName) ==
    /\ pidFile' = [pidFile EXCEPT ![s] = Len(procs[s]) + 1]
    /\ UNCHANGED <<procs, named, overlapped>>

Launch(s, hasName) ==
    LET p == Len(procs[s]) + 1
    IN  /\ procs' = [procs EXCEPT ![s] = Append(@, "up")]
        /\ pidFile' = [pidFile EXCEPT ![s] = p]
        /\ named' = IF hasName THEN [named EXCEPT ![s] = @ \cup {p}] ELSE named
        /\ overlapped' = IF Live(s) = {} THEN overlapped ELSE overlapped \cup {s}

\* run_service in start_ovs and start_ovn: $proc.sh, then the daemon.
RunService ==
    /\ at = "create" /\ todo # <<>> /\ Current \in Services
    /\ program' = program \cup {Current}
    /\ Launch(Current, TRUE)
    /\ Goto("create", Tail(todo))
    /\ UNCHANGED <<box, ip, rcIp, main, command, graceful, pid, bounds, excused>>

\* A call on the databases, which leaves the daemons alone.
Call ==
    /\ at = "create" /\ todo # <<>> /\ Current \in Calls
    /\ Goto("create", Tail(todo))
    /\ UNCHANGED <<files, procs, command, graceful, pid, bounds, history>>

\* run() exits the script when a call or the start of a daemon fails.
RunFails ==
    /\ at = "create" /\ todo # <<>> /\ Current \in Services \cup Calls /\ MayFail
    /\ program' = program \cup ({Current} \cap Services)
    /\ excused' = excused \cup ({Current} \cap Services)
                           \cup (IF ip /\ ~rcIp THEN {Bind} ELSE {})
    /\ Goto("idle", <<>>)
    /\ UNCHANGED <<box, pidFile, named, procs, ip, rcIp, main, command, graceful, pid, bounds, overlapped>>

BindOrRecord ==
    /\ at = "create" /\ todo # <<>> /\ Current \in {Bind, Record}
    /\ ip' = (ip \/ Current = Bind)
    /\ rcIp' = (rcIp \/ Current = Record)
    /\ Goto("create", Tail(todo))
    /\ UNCHANGED <<box, program, pidFile, named, procs, main, command, graceful, pid, bounds, history>>

\* app_start: nothing to start, or "already running".
PidFileIgnored == Current \notin program

SkipsStart == Current \notin program \/ pidFile[Current] # 0

SkipStart ==
    /\ at = "start" /\ todo # <<>> /\ SkipsStart
    /\ Goto("start", Tail(todo))
    /\ UNCHANGED <<files, procs, command, graceful, pid, bounds, history>>

\* app_start runs $proc.sh; a socket that create had renamed is not renamed now.
AppStart ==
    /\ at = "start" /\ todo # <<>> /\ ~SkipsStart
    /\ Launch(Current, Current \notin Renamed)
    /\ Goto("start", Tail(todo))
    /\ UNCHANGED <<box, program, ip, rcIp, main, command, graceful, pid, bounds, excused>>

AppStartFails ==
    /\ at = "start" /\ todo # <<>> /\ ~SkipsStart /\ MayFail
    /\ excused' = excused \cup {Current}
    /\ Goto("start", Tail(todo))
    /\ UNCHANGED <<files, procs, command, graceful, pid, bounds, overlapped>>

LoopEnds ==
    /\ at \in {"create", "start"} /\ todo = <<>>
    /\ Goto("idle", <<>>)
    /\ UNCHANGED <<files, procs, command, graceful, pid, bounds, history>>

-----------------------------------------------------------------------------
\* A daemon that was asked or killed exits, and deletes the pidfile of its
\* name: after rm -rf and mkdir that may be the file of a newer process.  It
\* deletes its socket under the name it gave it, so not after a `mv`.
Exits(s, p) ==
    /\ procs[s][p] \in {"asked", "killed"}
    /\ procs' = [procs EXCEPT ![s][p] = "gone"]
    /\ pidFile' = [pidFile EXCEPT ![s] = 0]
    /\ named' = IF s \in Renamed THEN named ELSE Unnamed(s, p)
    /\ UNCHANGED <<box, program, ip, rcIp, main, script, bounds, history>>

Crash(s, p) ==
    /\ p \in Live(s) /\ crashes < MaxCrashes
    /\ procs' = [procs EXCEPT ![s][p] = "gone"]
    /\ crashes' = crashes + 1
    /\ excused' = excused \cup {s}
    /\ UNCHANGED <<files, script, count, overlapped>>

\* app_exit of the daemons and the rest of do_cleanup.
StopStep ==
    \/ SkipExit \/ AskExit \/ KillNow \/ WaitDone \/ WaitTimeout \/ StopEnds \/ RemoveBox

\* start_ovs, start_ovn and app_start.
StartStep ==
    \/ RunService \/ Call \/ RunFails \/ BindOrRecord
    \/ SkipStart \/ AppStart \/ AppStartFails \/ LoopEnds

Next ==
    \/ \E c \in {"create", "start", "stop", "cleanup"}, g \in Graceful : Begin(c, g)
    \/ StopStep \/ StartStep
    \/ \E s \in Services : \E p \in Pids(s) : Exits(s, p) \/ Crash(s, p)

\* Stopping goes on: what it runs is kill, ovs-appctl --timeout 5, rm and ip,
\* and its wait has a deadline.  Starting may hang at any call (the wait for
\* the socket in init_ovsdb_server has no deadline, ovs-vsctl no --timeout),
\* and nothing is assumed of the daemons, nor of the caller.
Fairness == WF_vars(StopStep)

Spec == Init /\ [][Next]_vars /\ Fairness

-----------------------------------------------------------------------------
(* Properties *)

Places == {"idle", "exit", "wait", "remove", "create", "start"}

\* Every variable has its type; a pidfile names a process that was started.
TypeOK ==
    /\ box \in BOOLEAN /\ ip \in BOOLEAN /\ main \in BOOLEAN /\ rcIp \in BOOLEAN /\ graceful \in BOOLEAN
    /\ program \subseteq Services
    /\ \A s \in Services :
          /\ procs[s] \in Seq({"up", "asked", "killed", "gone"})
          /\ pidFile[s] \in 0..Len(procs[s])
          /\ named[s] \subseteq Pids(s)
    /\ command \in {"none", "create", "start", "stop", "cleanup"}
    /\ at \in Places
    /\ todo \in Seq(Services \cup Calls \cup {Bind, Record}) /\ pid \in Nat
    /\ count \in 0..MaxCommands /\ crashes \in 0..MaxCrashes
    /\ excused \subseteq Services \cup {Bind} /\ overlapped \subseteq Services

\* When --start has ended, each daemon the sandbox was created with runs and is
\* the one in its pidfile, except one that was killed without waiting for its
\* exit, that crashed or that failed to start: what was stopped gracefully and
\* in time does start again.
WholeAfterStart ==
    at = "idle" /\ command = "start" =>
        \A s \in program \ excused : pidFile[s] \in Up(s)

\* Two processes of one daemon only ever run together when the first was
\* killed without waiting: the pidfile keeps --start from doubling a daemon.
OverlapOnlyAfterKill == overlapped \subseteq excused

\* When --stop or --cleanup has ended, no daemon is left that was neither
\* asked to exit nor killed, whether it answered, hung or was out of reach of
\* ovs-appctl; unless create had started it over a process still exiting,
\* which takes the pidfile with it.
DownAfterStop ==
    at = "idle" /\ command \in {"stop", "cleanup"} =>
        \A s \in Services \ overlapped : Up(s) = {}

\* The address of a sandbox is on the device only as long as the sandbox is
\* there, unless it is the first address there, which ip_addr_del skips, or
\* creating the sandbox failed between ip_addr_add and sandbox.rc.
AddressReleased == ip /\ ~box => main \/ Bind \in excused

Doing(s, p) == IF p \in Pids(s) THEN procs[s][p] ELSE "none"

\* A daemon that answered ovs-appctl exit and then hangs is killed.
AskedIsGoneOrKilled ==
    \A s \in Services : \A p \in 1..MaxCommands :
        Doing(s, p) = "asked" ~> (s \in overlapped \/ Doing(s, p) \in {"killed", "gone"})

\* A stop, a cleanup and the cleanup that a create begins with get to their
\* end, whatever the daemons do: no daemon that answers and hangs holds them.
StoppingEnds == []<>(at \in {"idle", "create", "start"})

\* What the docstring of stop_and_start_sandbox says of a stop and a start:
\* that the daemons are started up again.
StartedAgain ==
    at = "idle" /\ command = "start" => \A s \in program : Up(s) # {}
=============================================================================
