------------------------------ MODULE NbLedger ------------------------------
(***************************************************************************)
(* What a scenario may count on when it drives the northbound database:    *)
(* batching is invisible.  Of the commands Asked[it] of an iteration, the  *)
(* database has executed a prefix, each command once; the prefix grows     *)
(* only to a position of Stops[it], where an item (a switch with its       *)
(* settings, a port with its addresses, the ACLs of a port) is complete;   *)
(* an iteration returns only when everything was executed.                 *)
(***************************************************************************)
EXTENDS Naturals, Sequences

CONSTANTS Iterations, Asked, Stops

VARIABLES executed, result

vars == <<executed, result>>

Init ==
    /\ executed = [it \in Iterations |-> <<>>]
    /\ result = [it \in Iterations |-> "running"]

\* A transaction; its answer may be lost, which the caller sees as an error.
Execute(it) ==
    /\ result[it] = "running"
    /\ \E k \in Stops[it] :
          /\ Len(executed[it]) < k
          /\ executed' = [executed EXCEPT ![it] = SubSeq(Asked[it], 1, k)]
    /\ \E r \in {"running", "raised"} : result' = [result EXCEPT ![it] = r]

Raise(it) ==
    /\ result[it] = "running"
    /\ result' = [result EXCEPT ![it] = "raised"]
    /\ UNCHANGED executed

Return(it) ==
    /\ result[it] = "running" /\ executed[it] = Asked[it]
    /\ result' = [result EXCEPT ![it] = "returned"]
    /\ UNCHANGED executed

Next == \E it \in Iterations : Execute(it) \/ Raise(it) \/ Return(it)

Spec == Init /\ [][Next]_vars
=============================================================================
