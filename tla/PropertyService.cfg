SPECIFICATION Spec
CHECK_DEADLOCK FALSE
CONSTANTS
    Null = Null
    PA_COUNT_MAX = 4
    PROP_VALUE_MAX = 3
    SerialMod = 4
    PropertyNames <- MCNames
    property_perms <- MCPropertyPerms
    control_perms <- MCControlPerms
    Ro = {"ro.hw"}
    Net = {"net.x", "net.dns", "net.change"}
    Persist = {"persist.sys.p", "persist.sys.q"}
    Controls = {"ctl.start"}
    NetChange = "net.change"
    NameValue <- MCNameValue
    Characters = {"a", "b", "c", "d", "n", "x"}
    Scenarios <- MCScenarios
INVARIANTS
    TableWhole
    
PROPERTIES
    ClientsServed
