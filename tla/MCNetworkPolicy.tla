-------------------------- MODULE MCNetworkPolicy --------------------------
(***************************************************************************)
(* Three iterations on two switches.  With policies of two ports and name  *)
(* spaces of three, the second iteration adds to everything and the third  *)
(* creates a policy and adds to the rest.                                  *)
(***************************************************************************)
EXTENDS NetworkPolicy

FirstIterations == 0..2
=============================================================================
