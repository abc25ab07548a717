--------------------------- MODULE MCFarmClients ---------------------------
(***************************************************************************)
(* Three sandboxes, two of them on one farm.  One to four ports: fewer     *)
(* than the sandboxes, as many, and one more (two slices of two).          *)
(***************************************************************************)
EXTENDS FarmClients

CONSTANTS farm1, farm2

MCFarmOf == <<farm1, farm1, farm2>>

\* Internal ports on farms in containers, pinged and removed; and sandboxes
\* with an Open vSwitch of their own.
Containers == [method |-> "physical", containers |-> Farms,
               internal |-> TRUE, ping |-> TRUE, cleanup |-> TRUE]
OwnSwitches == [method |-> "sandbox", containers |-> {},
                internal |-> FALSE, ping |-> FALSE, cleanup |-> FALSE]
MCSetups == {Containers, OwnSwitches}

\* The farms of samples/deployments/ovn-multihost-physical.json.
MCPhysical == {[OwnSwitches EXCEPT !.method = "physical"]}

\* All the other test beds have an Open vSwitch for each sandbox.
ASSUME BedAssumption == SwitchEverywhere <=> Setups # MCPhysical
=============================================================================
