-------------------------- MODULE SandboxRegistry --------------------------
(***************************************************************************)
(* The sandboxes of a deployment, as rally_ovs keeps track of them: what   *)
(* exists on each farm host, and the "sandboxes" resource of the farm's    *)
(* deployment in Rally's database, a map from sandbox to tag that the      *)
(* scenarios of ovn_sandbox.py read, change and write back as a whole.     *)
(*                                                                         *)
(* A sandbox is named after its address, so it is its address here: a      *)
(* number.  The commands of one ssh session are lines of one script, whose *)
(* exit status is that of the last line; SandboxScript models a line.      *)
(* Modelled for install_method "sandbox".                                  *)
(*                                                                         *)
(* Operators named after a mistake (AlwaysBatch, ...) stand before the one *)
(* they could replace; they are used by no definition.                     *)
(***************************************************************************)
EXTENDS Naturals

CONSTANTS
    Iterations,  \* numbers: context["iteration"] of each iteration
    Farms,       \* the farm deployments
    FarmNamed,   \* FarmNamed[i] : the farm whose name is farm-prefix and i
    NoFarm,      \* "farm" is not among the arguments, or ""
    Tags,        \* the values of "tag"
    AnyTag,      \* "tag" is "" in the arguments of a deletion
    Absent,      \* a sandbox that is not there
    Task,        \* Task[it] : the scenario and its arguments
    After,       \* After[it] : iterations of subtasks that run before
    LastAddress  \* the last address of start_cidr

Addresses == 0..LastAddress
Kinds == {"create", "createDelete", "delete"}
Tasks == [kind : Kinds, farm : Farms \cup {NoFarm}, start : Nat, amount : Nat \ {0},
          batch : Nat \ {0}, tag : Tags \cup {AnyTag}]

ASSUME RegistryAssumption ==
    /\ Iterations \subseteq Nat /\ LastAddress \in Nat
    /\ FarmNamed \in [Iterations -> Farms] /\ NoFarm \notin Farms
    /\ Absent \notin Tags \cup {"whole", "partial"} /\ AnyTag \notin Tags
    /\ Task \in [Iterations -> Tasks] /\ After \in [Iterations -> SUBSET Iterations]
    /\ \A it \in Iterations :
          /\ Task[it].kind # "delete" => Task[it].tag \in Tags
          /\ Task[it].kind = "createDelete" => Task[it].farm # NoFarm

VARIABLES
    host,      \* host[f][a] : the sandbox on the host, Absent, "whole" or "partial"
    registry,  \* registry[f][a] : its tag in the farm's resource, or Absent
    at,        \* where the iteration is
    done,      \* the sandboxes its create loop has been through (i)
    copy,      \* the resource as the iteration read it
    farm,      \* the farm it is working on
    chosen,    \* the sandboxes it deletes, by farm (farm_map)
    left,      \* the farms of farm_map that are left
    tried,     \* history: the addresses it ran ovs-sandbox.sh for
    unmade,    \* history: <<farm, address>> of the lines that left nothing
    overwritten \* history: <<farm, address>> of the entries of a resource that
                \* hold what an iteration had read before another changed them

vars == <<host, registry, at, done, copy, farm, chosen, left, tried, unmade, overwritten>>

Empty == [a \in Addresses |-> Absent]
Nothing == [f \in Farms |-> {}]

Init ==
    /\ host = [f \in Farms |-> Empty] /\ registry = [f \in Farms |-> Empty]
    /\ at = [it \in Iterations |-> "begin"]
    /\ done = [it \in Iterations |-> 0]
    /\ copy = [it \in Iterations |-> Empty]
    /\ farm = FarmNamed
    /\ chosen = [it \in Iterations |-> Nothing]
    /\ left = [it \in Iterations |-> {}]
    /\ tried = [it \in Iterations |-> {}]
    /\ unmade = {} /\ overwritten = {}

Go(it, place) == at' = [at EXCEPT ![it] = place]
Ended(it) == at[it] \in {"returned", "raised"}
Smaller(x, y) == IF x <= y THEN x ELSE y

-----------------------------------------------------------------------------
\* The farm of a create: the argument, or farm-prefix and the iteration.
FarmOf(it) == IF Task[it].farm # NoFarm THEN Task[it].farm ELSE FarmNamed[it]

\* Its first address: moved by iteration * amount + 1 when the farm is not given.
AmountForgotten(it) ==
    Task[it].start + IF Task[it].farm # NoFarm THEN 0 ELSE it + 1

FirstAddress(it) ==
    Task[it].start + IF Task[it].farm # NoFarm THEN 0 ELSE it * Task[it].amount + 1

\* end_ip = start + amount must still be in the network.
BigEnough(it) == FirstAddress(it) + Task[it].amount <= LastAddress

BeginCreate(it) ==
    /\ at[it] = "begin" /\ Task[it].kind # "delete"
    /\ \A j \in After[it] : Ended(j)
    /\ Go(it, IF BigEnough(it) THEN "create" ELSE "raised")
    /\ farm' = [farm EXCEPT ![it] = FarmOf(it)]
    /\ UNCHANGED <<host, registry, done, copy, chosen, left, tried, unmade, overwritten>>

\* batch_left, the number of sandboxes of the next session.
AlwaysBatch(it) == Task[it].batch

BatchLeft(it) == Smaller(Task[it].batch, Task[it].amount - done[it])

\* The addresses of the first n lines of the next session.
NextAddresses(it, n) == {FirstAddress(it) + done[it] + k : k \in 0..(n - 1)}

\* The lines for ran on f: what each of them leaves, nothing included.
Created(f, made) ==
    /\ host' = [host EXCEPT ![f] = [a \in Addresses |->
                    IF a \in DOMAIN made THEN made[a] ELSE @[a]]]
    /\ unmade' = (unmade \ ({f} \X DOMAIN made))
                 \cup ({f} \X {a \in DOMAIN made : made[a] = Absent})

\* A line removes the sandbox there was and makes one; it may fail before it
\* does anything, after the removal, or later.
LineLeaves == {"whole", "partial", Absent}
FailedLineLeaves(f, a) == {"partial", Absent, host[f][a]}

\* One session of the create loop.  Each line may fail, but only when the last
\* one does is the session an error: the others are listed all the same.
CreateSession(it) ==
    /\ at[it] = "create"
    /\ LET n == BatchLeft(it)
           ran == NextAddresses(it, n)
           last == FirstAddress(it) + done[it] + n - 1
       IN  \E made \in [ran -> LineLeaves], ok \in BOOLEAN :
             /\ made[last] \in IF ok THEN {"whole"} ELSE FailedLineLeaves(farm[it], last)
             /\ Created(farm[it], made)
             /\ tried' = [tried EXCEPT ![it] = @ \cup ran]
             /\ done' = [done EXCEPT ![it] = @ + n]
             /\ Go(it, IF ~ok THEN "raised"
                       ELSE IF done[it] + n >= Task[it].amount THEN "read" ELSE "create")
    /\ UNCHANGED <<registry, copy, farm, chosen, left, overwritten>>

\* The connection fails: some of the lines ran, the iteration gets an error.
CreateSessionLost(it) ==
    /\ at[it] = "create"
    /\ \E n \in 0..BatchLeft(it) :
          LET ran == NextAddresses(it, n)
          IN  /\ \E made \in [ran -> LineLeaves] : Created(farm[it], made)
              /\ tried' = [tried EXCEPT ![it] = @ \cup ran]
    /\ Go(it, "raised")
    /\ UNCHANGED <<registry, done, copy, farm, chosen, left, overwritten>>

\* _add_sandbox_resource: the resource is read, ...
AddRead(it) ==
    /\ at[it] = "read"
    /\ copy' = [copy EXCEPT ![it] = registry[farm[it]]]
    /\ Go(it, "save")
    /\ UNCHANGED <<host, registry, done, farm, chosen, left, tried, unmade, overwritten>>

\* res.save(): the entries in own become what the iteration decided, all the
\* others what it had read, whatever they are by now.
Save(it, info, own) ==
    LET f == farm[it]
    IN  /\ registry' = [registry EXCEPT ![f] = info]
        /\ overwritten' = (overwritten \ ({f} \X own))
               \cup ({f} \X {a \in Addresses \ own : copy[it][a] # registry[f][a]})

\* ... and what was read is written back with the new sandboxes; they are added
\* in the other direction, so "sandboxes", which _create_sandbox returns, has
\* all those of the farm.  A scenario that also deletes goes on with them.
Returned(it) == tried[it] \cup {a \in Addresses : copy[it][a] # Absent}

NewNotAdded(it, a) == copy[it][a]

WithTried(it, a) == IF a \in tried[it] THEN Task[it].tag ELSE copy[it][a]

AddSave(it) ==
    /\ at[it] = "save"
    /\ Save(it, [a \in Addresses |-> WithTried(it, a)], tried[it])
    /\ IF Task[it].kind = "createDelete"
       THEN /\ chosen' = [chosen EXCEPT ![it][farm[it]] = Returned(it)]
            /\ left' = [left EXCEPT ![it] = {farm[it]}]
            /\ Go(it, "cleanup")
       ELSE UNCHANGED <<chosen, left>> /\ Go(it, "returned")
    /\ UNCHANGED <<host, done, copy, farm, tried, unmade>>

-----------------------------------------------------------------------------
\* get_sandboxes(): what the resources say, by farm and tag.
Selected(it, f) ==
    {a \in Addresses :
        /\ Task[it].farm \in {f, NoFarm}
        /\ registry[f][a] # Absent
        /\ Task[it].tag \in {registry[f][a], AnyTag}}

BeginDelete(it) ==
    /\ at[it] = "begin" /\ Task[it].kind = "delete"
    /\ \A j \in After[it] : Ended(j)
    /\ chosen' = [chosen EXCEPT ![it] = [f \in Farms |-> Selected(it, f)]]
    /\ left' = [left EXCEPT ![it] = {f \in Farms : Selected(it, f) # {}}]
    /\ Go(it, "cleanup")
    /\ UNCHANGED <<host, registry, done, copy, farm, tried, unmade, overwritten>>

Removed(f, ran) ==
    [host EXCEPT ![f] = [a \in Addresses |-> IF a \in ran THEN Absent ELSE @[a]]]

\* The loop over farm_map: --cleanup of the farm's sandboxes in one session,
\* an error when there is no such sandbox in the last line.
CleanupSession(it) ==
    /\ at[it] = "cleanup"
    /\ \E f \in left[it] : \E last \in chosen[it][f] :
          /\ host' = Removed(f, chosen[it][f])
          /\ farm' = [farm EXCEPT ![it] = f]
          /\ Go(it, IF host[f][last] = Absent THEN "raised" ELSE "readDelete")
    /\ UNCHANGED <<registry, done, copy, chosen, left, tried, unmade, overwritten>>

CleanupSessionLost(it) ==
    /\ at[it] = "cleanup"
    /\ \E f \in left[it] : \E ran \in SUBSET chosen[it][f] :
          host' = Removed(f, ran) /\ farm' = [farm EXCEPT ![it] = f]
    /\ Go(it, "raised")
    /\ UNCHANGED <<registry, done, copy, chosen, left, tried, unmade, overwritten>>

\* _delete_sandbox_resource: the resource is read, ...
DeleteRead(it) ==
    /\ at[it] = "readDelete"
    /\ copy' = [copy EXCEPT ![it] = registry[farm[it]]]
    /\ Go(it, "saveDelete")
    /\ UNCHANGED <<host, registry, done, farm, chosen, left, tried, unmade, overwritten>>

\* ... and what was read is written back without the deleted sandboxes.
KeptInResource(it, a) == copy[it][a]

WithoutDeleted(it, a) ==
    IF a \in chosen[it][farm[it]] THEN Absent ELSE copy[it][a]

DeleteSave(it) ==
    /\ at[it] = "saveDelete"
    /\ Save(it, [a \in Addresses |-> WithoutDeleted(it, a)], chosen[it][farm[it]])
    /\ left' = [left EXCEPT ![it] = @ \ {farm[it]}]
    /\ Go(it, "cleanup")
    /\ UNCHANGED <<host, done, copy, farm, chosen, tried, unmade>>

DeleteReturns(it) ==
    /\ at[it] = "cleanup" /\ left[it] = {}
    /\ Go(it, "returned")
    /\ UNCHANGED <<host, registry, done, copy, farm, chosen, left, tried, unmade, overwritten>>

-----------------------------------------------------------------------------
Step(it) ==
    \/ BeginCreate(it) \/ CreateSession(it) \/ CreateSessionLost(it)
    \/ AddRead(it) \/ AddSave(it)
    \/ BeginDelete(it) \/ CleanupSession(it) \/ CleanupSessionLost(it)
    \/ DeleteRead(it) \/ DeleteSave(it) \/ DeleteReturns(it)

Next == \E it \in Iterations : Step(it)

Spec == Init /\ [][Next]_vars

-----------------------------------------------------------------------------
(* How scenarios are used: conditions of theorems, which no code enforces *)

Amount(it) == Task[it].amount
All(it) == FirstAddress(it)..(FirstAddress(it) + Amount(it) - 1)

MayUse(it) ==
    IF Task[it].kind # "delete" THEN {FarmOf(it)}
    ELSE {f \in Farms : Task[it].farm \in {f, NoFarm}}

Creates(it) == Task[it].kind # "delete"
Ordered(i, j) == i \in After[j] \/ j \in After[i]

\* It creates sandboxes that an iteration which does not come after it also
\* creates there.
Repeats(it) ==
    \E k \in Iterations \ {it} :
        Creates(k) /\ FarmOf(k) = FarmOf(it) /\ All(k) \cap All(it) # {} /\ it \notin After[k]

\* Iterations on one farm may run at the same time if their sandboxes are not
\* the same: a creation that repeats another has the farm for itself.
InTurn ==
    \A i \in Iterations : Creates(i) /\ Repeats(i) =>
        \A j \in Iterations \ {i} : FarmOf(i) \in MayUse(j) => Ordered(i, j)

\* Iterations that may use one farm are one after the other.
OneAtATime ==
    \A i, j \in Iterations : i # j /\ MayUse(i) \cap MayUse(j) # {} => Ordered(i, j)

\* Iterations that create on different farms have different addresses.
AddressesApart ==
    \A i, j \in Iterations :
        Task[i].kind # "delete" /\ Task[j].kind # "delete" /\ FarmOf(i) # FarmOf(j) =>
            All(i) \cap All(j) = {}

-----------------------------------------------------------------------------
(* Properties *)

Places == {"begin", "create", "read", "save", "cleanup", "readDelete", "saveDelete",
           "returned", "raised"}

\* Every variable has its type; the create loop never runs past the amount.
TypeOK ==
    /\ host \in [Farms -> [Addresses -> LineLeaves]]
    /\ registry \in [Farms -> [Addresses -> Tags \cup {Absent}]]
    /\ at \in [Iterations -> Places]
    /\ done \in [Iterations -> Nat]
    /\ \A it \in Iterations : done[it] <= Task[it].amount
    /\ copy \in [Iterations -> [Addresses -> Tags \cup {Absent}]]
    /\ farm \in [Iterations -> Farms]
    /\ chosen \in [Iterations -> [Farms -> SUBSET Addresses]]
    /\ left \in [Iterations -> SUBSET Farms]
    /\ tried \in [Iterations -> SUBSET Addresses]
    /\ unmade \subseteq Farms \X Addresses /\ overwritten \subseteq Farms \X Addresses

\* It ran the script for sandbox a of f, or has chosen it for deletion.
Touches(it, f, a) ==
    \/ Task[it].kind # "delete" /\ FarmOf(it) = f /\ a \in tried[it]
    \/ a \in chosen[it][f]

\* Iterations on one farm may run at the same time, read the resource before
\* the other has written it, and write back what they read.  A sandbox that no
\* iteration is at, and none left with an exception, is listed if and only if
\* it is on the host, but for two kinds: those whose entry was overwritten
\* with a stale one, and those listed although their line left nothing.
\* No other sandbox is forgotten, where no scenario would ever delete it.
RegistryMatchesHost ==
    \A f \in Farms : \A a \in Addresses :
        /\ \A it \in Iterations : Touches(it, f, a) => at[it] = "returned"
        /\ <<f, a>> \notin overwritten
        => /\ host[f][a] # Absent => registry[f][a] # Absent
           /\ registry[f][a] # Absent => host[f][a] # Absent \/ <<f, a>> \in unmade

\* A create that returned has run the script once for each of the amount of
\* consecutive addresses from the first, whatever the batch; and it has tried
\* no other before.
AmountHonoured ==
    \A it \in Iterations :
        LET all == FirstAddress(it)..(FirstAddress(it) + Task[it].amount - 1)
        IN  /\ tried[it] \subseteq all
            /\ at[it] = "returned" /\ Task[it].kind # "delete" => tried[it] = all

\* The address of a sandbox is its tunnel endpoint: iterations that number
\* their farms never put one address on two hosts.
AddressOnOneHost ==
    \A f, g \in Farms : \A a \in Addresses :
        host[f][a] # Absent /\ host[g][a] # Absent => f = g

\* What a deletion that returned had chosen is not on a host, and not listed
\* but by a stale copy, until an iteration that comes after it begins.
DeletedIsGone ==
    \A it \in Iterations :
        /\ at[it] = "returned" /\ Task[it].kind # "create"
        /\ \A j \in Iterations : it \in After[j] => at[j] = "begin"
        => \A f \in Farms : \A a \in chosen[it][f] :
              /\ host[f][a] = Absent
              /\ registry[f][a] = Absent \/ <<f, a>> \in overwritten

\* create_and_delete_sandbox is to "create a set of sandboxes then delete them
\* gracefully" (ovn_sandbox.py:125): it deletes no other.
DeletesOnlyItsOwn ==
    \A it \in Iterations : Task[it].kind = "createDelete" =>
        \A f \in Farms : chosen[it][f] \subseteq tried[it]
=============================================================================
