-------------------------- MODULE MCSandboxScript --------------------------
(***************************************************************************)
(* A farm sandbox (ovn-controller, ovsdb-server, ovs-vswitchd) and a       *)
(* controller sandbox (ovn-northd and the two ovsdb-servers), with the     *)
(* orders in which ovs-sandbox.sh creates, starts and stops them.          *)
(***************************************************************************)
EXTENDS SandboxScript

CONSTANTS controller, ovsdb, vswitchd, northd, nb, sb, bind, record, dbtool, dbinit, configure

FarmStopOrder == <<controller, ovsdb, vswitchd>>
FarmCreateOrder == <<dbtool, ovsdb, dbinit, bind, configure, vswitchd, record, controller>>

ControllerStopOrder == <<northd, nb, sb>>
ControllerCreateOrder == <<dbtool, bind, nb, sb, dbinit, record, northd>>
=============================================================================
