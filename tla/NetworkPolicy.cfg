SPECIFICATION Spec
CONSTANTS
    Iterations <- FirstIterations
    Batch = 1
    NumLswitches = 2
    IpOffset = 2
    PolicySize = 2
    NameSpaceSize = 3
INVARIANTS TypeOK MembersOfAllGroups EnforcedAfterCreators
PROPERTY RefusedOnlyWithoutCreator
CHECK_DEADLOCK FALSE
