----------------------------- MODULE Deployment -----------------------------
(***************************************************************************)
(* `rally-ovs deployment create`, `recreate` and `destroy` of a test bed   *)
(* with a controller and farms (OvnMultihostEngine).  Each host is a       *)
(* deployment of its own, below that of the test bed: a record in Rally's  *)
(* database, its resources once it is deployed, and what ovs-sandbox.sh    *)
(* has started on the host.  A host is a number, in the order in which     *)
(* they are deployed.                                                      *)
(*                                                                         *)
(* Rally is not in the repository.  An exception from an engine ends the   *)
(* command and leaves the records as they are; a deployment is destroyed   *)
(* by its engine's cleanup(), and then its record is deleted.              *)
(***************************************************************************)
EXTENDS Naturals

CONSTANTS
    NumFarms,     \* the length of config["nodes"]
    Methods,      \* the values of install_method, the same for all hosts
    MaxCommands,  \* bound: commands given
    MaxBreaks     \* bound: connections that break and scripts that fail

ASSUME DeploymentAssumption ==
    /\ NumFarms \in Nat /\ MaxCommands \in Nat /\ MaxBreaks \in Nat
    /\ Methods \subseteq {"sandbox", "physical"}

Controller == 0
Farms == 1..NumFarms
Hosts == 0..NumFarms

VARIABLES
    method,      \* install_method
    command,     \* the command Rally is performing, or "none"
    stage, host, \* where its engine is
    record,      \* the test bed has a record
    subs,        \* the hosts that have one
    registered,  \* those with a credential, and the controller or sandboxes resource
    boxes,       \* the farms whose sandboxes resource names sandboxes
    running,     \* the hosts on which ovs-sandbox.sh started something
    excused,     \* history: those whose deployment or cleanup broke
    commands, breaks

deployVars == <<method, command, stage, host, record, subs, registered, boxes,
                running, excused, commands, breaks>>

Stages == {"idle", "record", "install", "start", "register", "cleanup"}
Idle == command = "none"

DeployInit ==
    /\ method \in Methods
    /\ command = "none" /\ stage = "idle" /\ host = Controller
    /\ record = FALSE
    /\ subs = {} /\ registered = {} /\ boxes = {} /\ running = {} /\ excused = {}
    /\ commands = 0 /\ breaks = 0

Goto(place, h) == stage' = place /\ host' = h
Break == breaks < MaxBreaks /\ breaks' = breaks + 1
End == command' = "none" /\ Goto("idle", Controller)

-----------------------------------------------------------------------------
\* deploy(): the controller, then each node.
Create ==
    /\ Idle /\ ~record /\ commands < MaxCommands /\ commands' = commands + 1
    /\ command' = "create" /\ record' = TRUE
    /\ Goto("record", Controller)
    /\ UNCHANGED <<method, subs, registered, boxes, running, excused, breaks>>

Deploying(place) == command \in {"create", "recreate"} /\ stage = place

\* _deploy_node() makes the record; everything is there on a physical host.
NewRecord ==
    /\ Deploying("record")
    /\ subs' = subs \cup {host}
    /\ Goto(IF method = "sandbox" THEN "install" ELSE "register", host)
    /\ UNCHANGED <<method, command, record, registered, boxes, running, excused, commands, breaks>>

\* _deploy(): prepare.sh, the scripts and install.sh.
Install ==
    /\ Deploying("install")
    /\ \/ /\ Goto(IF host = Controller THEN "start" ELSE "register", host)
          /\ UNCHANGED <<command, breaks>>
       \/ Break /\ End
    /\ UNCHANGED <<method, record, subs, registered, boxes, running, excused, commands>>

\* ovs-sandbox.sh --controller, before anything is registered.
Start ==
    /\ Deploying("start")
    /\ \/ /\ running' = running \cup {host}
          /\ Goto("register", host)
          /\ UNCHANGED <<command, excused, breaks>>
       \/ Break /\ End /\ UNCHANGED <<running, excused>>
       \/ /\ Break /\ End
          /\ running' = running \cup {host} /\ excused' = excused \cup {host}
    /\ UNCHANGED <<method, record, subs, registered, boxes, commands>>

Register ==
    /\ Deploying("register")
    /\ registered' = registered \cup {host}
    /\ IF host = NumFarms THEN End ELSE Goto("record", host + 1) /\ UNCHANGED command
    /\ UNCHANGED <<method, record, subs, boxes, running, excused, commands, breaks>>

-----------------------------------------------------------------------------
\* cleanup() destroys the hosts' deployments, the last one first; hosts are
\* those that are left.  Then destroy deletes the record of the test bed, and
\* recreate deploys again.
Reversed(last, hosts) == \A h \in hosts : h <= last

CleanUp(c, hosts) ==
    \/ \E last \in hosts :
          /\ Reversed(last, hosts)
          /\ command' = c /\ Goto("cleanup", last) /\ UNCHANGED record
    \/ /\ hosts = {} /\ c = "destroy"
       /\ End /\ record' = FALSE
    \/ /\ hosts = {} /\ c = "recreate"
       /\ command' = c /\ Goto("record", Controller) /\ UNCHANGED record

Destroy ==
    /\ Idle /\ record /\ commands < MaxCommands /\ commands' = commands + 1
    /\ \E c \in {"destroy", "recreate"} : CleanUp(c, subs)
    /\ UNCHANGED <<method, subs, registered, boxes, running, excused, breaks>>

\* The resources of the host and its record are deleted.
Forget ==
    /\ registered' = registered \ {host}
    /\ boxes' = boxes \ {host}
    /\ subs' = subs \ {host}
    /\ CleanUp(command, subs \ {host})

\* ovs-sandbox.sh --cleanup-all runs where there is a credential resource.
RunsOnFarms(h) == method = "sandbox" /\ h \in registered \ {Controller}
RunsScript(h) == method = "sandbox" /\ h \in registered

SkipScript ==
    /\ stage = "cleanup" /\ ~RunsScript(host)
    /\ Forget
    /\ UNCHANGED <<method, running, excused, commands, breaks>>

RunScript ==
    /\ stage = "cleanup" /\ RunsScript(host)
    /\ running' = running \ {host} /\ excused' = excused \ {host}
    /\ Forget
    /\ UNCHANGED <<method, commands, breaks>>

\* The status of the script is not looked at, and of a farm no exception
\* either.
ScriptFails ==
    /\ stage = "cleanup" /\ RunsScript(host)
    /\ Break
    /\ excused' = excused \cup {host}
    /\ Forget
    /\ UNCHANGED <<method, running, commands>>

\* An exception from the controller ends the command before anything of the
\* controller is deleted.
ControllerUnreachable ==
    /\ stage = "cleanup" /\ RunsScript(host) /\ host = Controller
    /\ Break /\ End
    /\ running' \in {running, running \ {host}}
    /\ UNCHANGED <<method, record, subs, registered, boxes, excused, commands>>

Perform == \/ NewRecord \/ Install \/ Start \/ Register
           \/ SkipScript \/ RunScript \/ ScriptFails \/ ControllerUnreachable

DeployNext == Create \/ Destroy \/ Perform

-----------------------------------------------------------------------------
\* create_sandbox on a farm (SandboxRegistry has its sessions): the script,
\* unless the farm is physical, and then the resource.  It raises when the
\* farm is not there.
CreateSandbox(f) ==
    /\ \/ /\ f \in registered
          /\ boxes' = boxes \cup {f}
          /\ running' = IF method = "sandbox" THEN running \cup {f} ELSE running
          /\ UNCHANGED breaks
       \/ f \notin registered /\ UNCHANGED <<boxes, running, breaks>>
       \/ /\ f \in registered /\ method = "sandbox" /\ Break
          /\ running' \in {running, running \cup {f}}
          /\ UNCHANGED boxes
    /\ UNCHANGED <<method, command, stage, host, record, subs, registered, excused, commands>>

-----------------------------------------------------------------------------
DeployTypeOK ==
    /\ method \in Methods
    /\ command \in {"none", "create", "destroy", "recreate"}
    /\ stage \in Stages /\ host \in Hosts
    /\ record \in BOOLEAN
    /\ subs \subseteq Hosts /\ registered \subseteq Hosts /\ boxes \subseteq Farms
    /\ running \subseteq Hosts /\ excused \subseteq Hosts
    /\ commands \in 0..MaxCommands /\ breaks \in 0..MaxBreaks

\* Between commands, what ovs-sandbox.sh started on any host is within reach
\* of the next destroy, with a record and a credential; and nothing is left
\* when there is no test bed.  The exceptions are the controller whose start
\* broke before its credential was registered, and hosts on which the cleanup
\* failed, which is logged and forgotten (OvnMultihostEngine.cleanup and the
\* engines below it).
DestroyReachesHosts ==
    Idle => /\ running \ excused \subseteq subs \cap registered
            /\ record \/ subs = {}
=============================================================================
