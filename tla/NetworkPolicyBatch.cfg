SPECIFICATION Spec
CONSTANTS
    Iterations = {0}
    Batch = 2
    NumLswitches = 2
    IpOffset = 2
    PolicySize = 2
    NameSpaceSize = 2
INVARIANT AddressesOfMembers
CHECK_DEADLOCK FALSE
