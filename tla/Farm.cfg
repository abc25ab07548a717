SPECIFICATION Spec
CONSTANTS
    farm1 = farm1
    farm2 = farm2
    Farms = {farm1, farm2}
    NumSandboxes = 3
    FarmOf <- MCFarmOf
    Setups <- MCSetups
    Amounts = {1, 2, 3, 4}
    WaitTimeout = 2
    Nowhere = Nowhere
INVARIANTS TypeOK BoundWhereChosen AtMostOneForgotten AttemptSendsOnePing NothingLeft
PROPERTIES ContextPortsConfigured WaitEnds
