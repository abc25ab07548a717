----------------------------- MODULE MCTestbed -----------------------------
(***************************************************************************)
(* Four farms.  On a test bed of sandboxes, a task creates sandboxes in    *)
(* parallel iterations, between two tasks that use an ovn-nbctl daemon.  A *)
(* physical one goes through the workloads of                              *)
(* samples/tasks/scenarios/ovn-network/osh_workload_incremental.json, with *)
(* all nodes added in one batch and then connected by two iterations of    *)
(* two.                                                                    *)
(***************************************************************************)
EXTENDS Testbed

Serial(scenario, batch, times) ==
    [scenario |-> scenario, batch |-> batch, times |-> times, parallel |-> FALSE, daemon |-> FALSE]

CreateSandboxes == Serial("create_sandbox", 1, NumFarms)

WithDaemon == [Serial("other", 1, 1) EXCEPT !.daemon = TRUE]

MCWorkloads ==
    [sandbox |-> <<WithDaemon, [CreateSandboxes EXCEPT !.parallel = TRUE], WithDaemon>>,
     physical |->
        <<CreateSandboxes,
          Serial("del_chassis_nodes", 1, NumFarms),
          Serial("del_central_node", 1, 1),
          Serial("add_central_node", 1, 1),
          Serial("setup_switch_per_node_init", NumFarms, 1),
          Serial("setup_switch_per_node", 2, NumFarms \div 2)>>]

ASSUME SampleWorkloads == OneFarmEach
=============================================================================
