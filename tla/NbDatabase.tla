----------------------------- MODULE NbDatabase -----------------------------
(***************************************************************************)
(* The OVN northbound database, as far as the commands that rally_ovs      *)
(* sends to it can tell.  ovn-nbctl is not part of the repository: its     *)
(* semantics is modelled from how the code uses it.  One invocation runs   *)
(* all its commands (" -- cmd -- cmd ...") as one transaction: either      *)
(* every command is applied, in order, or the database is left alone and   *)
(* the invocation exits with an error.                                     *)
(*                                                                         *)
(* An object (logical switch, port, router, ACL, port group, address set)  *)
(* is a name; its contents are abstracted to the numbers of the commands   *)
(* that wrote it: 1 is the command that added it, 2, 3, ... the ones that  *)
(* set its columns.  An object without any is absent.                      *)
(***************************************************************************)
EXTENDS Naturals, Sequences

CONSTANTS
    Objs,        \* the names of database objects
    Parent,      \* Parent[o] : the switch or router that owns o, or o itself
    Acls,        \* the objects that are ACLs
    Anything     \* the target of a command that names no object (sync, show)

ASSUME DatabaseAssumption ==
    /\ Parent \in [Objs -> Objs]
    /\ Acls \subseteq Objs
    /\ \A o \in Objs : Parent[Parent[o]] = Parent[o] /\ Parent[o] \notin Acls
    /\ Anything \notin Objs

Ops == {"add", "set", "del", "acl-del", "get", "show", "sync"}

\* A command: what it does, to which object, and its number among the
\* commands that write that object.
Commands == [op : Ops, obj : Objs \cup {Anything}, n : Nat]

Add(o) == [op |-> "add", obj |-> o, n |-> 1]
SetColumn(o, n) == [op |-> "set", obj |-> o, n |-> n]
Del(o) == [op |-> "del", obj |-> o, n |-> 0]
AclDel(o) == [op |-> "acl-del", obj |-> o, n |-> 0]
Get(o) == [op |-> "get", obj |-> o, n |-> 0]
Show == [op |-> "show", obj |-> Anything, n |-> 0]
Sync == [op |-> "sync", obj |-> Anything, n |-> 0]

\* The contents a database can have, and the empty one.
Contents == [Objs -> SUBSET Nat]
EmptyDb == [o \in Objs |-> {}]

\* Deleting a switch or a router deletes what it owns.
Removes(c, o) ==
    \/ c.op = "del" /\ c.obj \in {o, Parent[o]}
    \/ c.op = "acl-del" /\ o \in Acls /\ c.obj = Parent[o]

\* The commands of tx, among the first k, that decide whether o exists.
Decisive(tx, o, k) ==
    {j \in 1..k : Removes(tx[j], o) \/ (tx[j].op = "add" /\ tx[j].obj = o)}

Latest(S) == CHOOSE j \in S : \A i \in S : i <= j

\* Does o exist after the first k commands of tx?
ExistsAfter(db, tx, o, k) ==
    LET D == Decisive(tx, o, k)
    IN  IF D = {} THEN db[o] # {} ELSE tx[Latest(D)].op = "add"

\* Would command k of tx succeed, the ones before it having been applied?
Succeeds(db, tx, k) ==
    LET c == tx[k]
    IN  /\ c.op = "add" => /\ ~ExistsAfter(db, tx, c.obj, k - 1)
                           /\ \/ Parent[c.obj] = c.obj
                              \/ ExistsAfter(db, tx, Parent[c.obj], k - 1)
        /\ c.op \in {"set", "del", "acl-del", "get"} => ExistsAfter(db, tx, c.obj, k - 1)

TxOk(db, tx) == \A k \in 1..Len(tx) : Succeeds(db, tx, k)

\* What the whole transaction leaves behind.
TxEffect(db, tx) ==
    [o \in Objs |->
        LET R == {j \in 1..Len(tx) : Removes(tx[j], o)}
            from == IF R = {} THEN 0 ELSE Latest(R)
            kept == IF R = {} THEN db[o] ELSE {}
        IN  kept \cup {tx[j].n : j \in {i \in 1..Len(tx) :
                          i > from /\ tx[i].obj = o /\ tx[i].op \in {"add", "set"}}}]
=============================================================================
