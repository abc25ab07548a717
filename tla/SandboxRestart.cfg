CONSTANTS
    controller = controller
    ovsdb = ovsdb
    vswitchd = vswitchd
    northd = northd
    nb = nb
    sb = sb
    bind = bind
    record = record
    dbtool = dbtool
    dbinit = dbinit
    configure = configure
    StopOrder <- FarmStopOrder
    CreateOrder <- FarmCreateOrder
    Bind = bind
    Calls = {dbtool, dbinit, configure}
    Record = record
    Renamed = {}
    Graceful = {FALSE}
    MaxCommands = 3
    MaxCrashes = 0
    MayFail = FALSE
SPECIFICATION Spec
INVARIANTS
    StartedAgain
CHECK_DEADLOCK FALSE
