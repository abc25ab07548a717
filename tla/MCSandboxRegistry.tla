------------------------- MODULE MCSandboxRegistry -------------------------
(***************************************************************************)
(* Iterations 1 and 2 create two sandboxes each on the farms numbered      *)
(* after them, one after the other.  At the same time as 2, on its farm,   *)
(* 3 creates two sandboxes and deletes; and 4 deletes those of tag t on    *)
(* both farms.  When all are over, 5 creates three on the first farm, two  *)
(* of them those of 3 again, in sessions of two, and deletes.              *)
(***************************************************************************)
EXTENDS SandboxRegistry

CONSTANTS f1, f2, t, u

MCFarmNamed == [it \in Iterations |-> IF it = 1 THEN f2 ELSE f1]

Create(farm_name, amount, batch, tag) ==
    [kind |-> "create", farm |-> farm_name, start |-> 0, amount |-> amount,
     batch |-> batch, tag |-> tag]

MCTask ==
    [it \in Iterations |->
        CASE it = 1 -> Create(NoFarm, 2, 2, t)
          [] it = 2 -> Create(NoFarm, 2, 1, t)
          [] it = 3 -> [Create(f1, 2, 2, u) EXCEPT !.kind = "createDelete"]
          [] it = 4 -> [Create(NoFarm, 1, 1, t) EXCEPT !.kind = "delete"]
          [] it = 5 -> [Create(f1, 3, 2, u) EXCEPT !.kind = "createDelete"]]

MCAfter ==
    [it \in Iterations |->
        CASE it = 1 -> {} [] it \in {2, 3, 4} -> {1} [] OTHER -> 1..(it - 1)]

ASSUME SharedFarm == InTurn /\ ~OneAtATime
=============================================================================
