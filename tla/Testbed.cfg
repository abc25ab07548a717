SPECIFICATION Spec
CONSTANTS
    NumFarms = 4
    Methods = {"sandbox", "physical"}
    MaxCommands = 3
    MaxBreaks = 1
    Nodes = {1, 2, 3, 4}
    MaxIterations = 4
    NumRouters = 1
    PerRouter = 2
    Polls = 2
    LeftNodes = {1, 3}
    MaxFailures = 1
    Workloads <- MCWorkloads
INVARIANTS TypeOK DestroyReachesHosts DaemonMatchesTask PlacedWhereConnected
PROPERTIES NetworksOnRegisteredNodes TasksEnd
CHECK_DEADLOCK FALSE
