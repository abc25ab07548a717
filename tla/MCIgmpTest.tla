----------------------------- MODULE MCIgmpTest -----------------------------
(***************************************************************************)
(* Two switches, 42.1.1.0/29 and 42.1.1.8/29, with four ports each: the    *)
(* names lp_42.1.1.1 to .4 and lp_42.1.1.9 to .12, of which .10, .11 and   *)
(* .12 begin with that of .1.  Of eight sandboxes, with one port each, the *)
(* first and the last are on one host.  Six joins on each switch, the      *)
(* first two ports twice; a round of seven, and one of five in which the   *)
(* ports of the first switch have none.                                    *)
(***************************************************************************)
EXTENDS IgmpTest

CONSTANTS host1, host2

MCHostOf == [p \in Ports |-> IF p \in {0, 7} THEN host1 ELSE host2]
MCExtends == {0} \X {5, 6, 7}

MCSetups == {[switches |-> 2, groups |-> 2, receivers |-> 3, batch |-> 7]}
=============================================================================
