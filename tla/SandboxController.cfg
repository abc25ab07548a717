CONSTANTS
    controller = controller
    ovsdb = ovsdb
    vswitchd = vswitchd
    northd = northd
    nb = nb
    sb = sb
    bind = bind
    record = record
    dbtool = dbtool
    dbinit = dbinit
    configure = configure
    StopOrder <- ControllerStopOrder
    CreateOrder <- ControllerCreateOrder
    Bind = bind
    Calls = {dbtool, dbinit}
    Record = record
    Renamed = {nb, sb}
    Graceful = {TRUE, FALSE}
    MaxCommands = 3
    MaxCrashes = 1
    MayFail = TRUE
SPECIFICATION Spec
INVARIANTS
    TypeOK
    OverlapOnlyAfterKill
    AddressReleased
    WholeAfterStart
    DownAfterStop
PROPERTIES
    AskedIsGoneOrKilled
    StoppingEnds
CHECK_DEADLOCK FALSE
