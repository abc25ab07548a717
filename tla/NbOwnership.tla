---------------------------- MODULE NbOwnership ----------------------------
(***************************************************************************)
(* The scenarios that keep to objects of their own: what _create_* made is *)
(* used and deleted by the same iteration, as in the scenarios of ovn_nb   *)
(* and ovn_network.  They may still ask for the names other iterations ask *)
(* for.                                                                    *)
(***************************************************************************)
EXTENDS NbRefinement

Adds(c, o) == c.op = "add" /\ c.obj = o
Writes(c, o) == c.op \in {"add", "set"} /\ c.obj = o

\* A command deletes only what an earlier one has created, and none has
\* deleted; it creates each name once, below an object created before.
KeepsToItsOwn(s) ==
    \A k \in DOMAIN s :
        /\ s[k].op = "add" =>
              /\ \A j \in 1..(k - 1) : ~Writes(s[j], s[k].obj) /\ ~Removes(s[j], s[k].obj)
              /\ Parent[s[k].obj] = s[k].obj
                 \/ \E j \in 1..(k - 1) : Adds(s[j], Parent[s[k].obj])
        /\ s[k].op \in {"del", "acl-del"} =>
              /\ \E j \in 1..(k - 1) : Adds(s[j], s[k].obj)
              /\ \A j \in 1..(k - 1) : ~Removes(s[j], s[k].obj)

\* A handle is returned of what has been created, and is given up by the
\* method that deletes the object, or by one before it, and by no other.
HandlesKept(it) ==
    LET s == AskedOf[it]
    IN  \A m \in DOMAIN Program[it] :
            /\ \A o \in Program[it][m].gives :
                  /\ \E k \in 1..Len(Before(it, m + 1)) : Adds(s[k], o)
                  /\ \A k \in DOMAIN s : Removes(s[k], o) =>
                        \E d \in (m + 1)..Len(Program[it]) :
                            o \in Program[it][d].drops /\ k > Len(Before(it, d))
            /\ \A o \in Program[it][m].drops : \E k \in DOMAIN s : Removes(s[k], o)

SelfContained ==
    \A it \in Iterations : KeepsToItsOwn(AskedOf[it]) /\ HandlesKept(it)

\* No two iterations create an object of the same name.
NamesApart ==
    \A i, j \in Iterations : i # j =>
        \A k \in DOMAIN AskedOf[i], l \in DOMAIN AskedOf[j] :
            ~(AskedOf[i][k].op = "add" /\ Adds(AskedOf[j][l], AskedOf[i][k].obj))
=============================================================================
