----------------------------- MODULE MCNbShared -----------------------------
(***************************************************************************)
(* Three iterations whose switches are named after one start_cidr, so that *)
(* all ask for the same two names: two create and delete them, one creates *)
(* and lists them.  A batch of 1 flushes each switch on its own, which is  *)
(* where the iterations can get between each other's switches.             *)
(***************************************************************************)
EXTENDS NbOwnership, NbPrograms

CONSTANTS it1, it2, it3, s1, s2, NoObject

MCObjs == {s1, s2}
MCParent == [o \in MCObjs |-> o]
MCAcls == {}
MCProgram ==
    [it \in Iterations |->
        IF it = it3 THEN CreateAndListLswitches(<<s1, s2>>, 1)
                  ELSE CreateAndDeleteLswitches(<<s1, s2>>, 1)]

\* Each keeps to what it created, but they create objects of the same names.
ASSUME SharedNames == SelfContained /\ ~NamesApart
=============================================================================
