CONSTANTS
    f1 = f1
    f2 = f2
    t = t
    u = u
    NoFarm = NoFarm
    AnyTag = AnyTag
    Absent = Absent
    Iterations = {1, 2, 3, 4, 5}
    Farms = {f1, f2}
    FarmNamed <- MCFarmNamed
    Tags = {t, u}
    Task <- MCTask
    After <- MCAfter
    LastAddress = 7
SPECIFICATION Spec
INVARIANTS
    TypeOK
    AmountHonoured
    AddressOnOneHost
    RegistryMatchesHost
    DeletedIsGone
CHECK_DEADLOCK FALSE
