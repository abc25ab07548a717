SPECIFICATION Spec
CONSTANTS
    host1 = host1
    host2 = host2
    Ports = {0, 1, 2, 3, 4, 5, 6, 7}
    PerSwitch = 4
    Setups <- MCSetups
    HostOf <- MCHostOf
    Extends <- MCExtends
    Error = 1
    MaxPolls = 2
PROPERTIES JoinsFollowThePlan EveryoneJoins
CHECK_DEADLOCK FALSE
