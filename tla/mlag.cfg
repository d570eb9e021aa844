CONSTANTS
    a = a
    b = b
    Switches = {a, b}
    Mac <- MCMac
    Scenarios <- MCScenarios
SPECIFICATION LiveSpec
INVARIANTS
    FloodsOnce
    OneDevice
PROPERTIES
    PairSettles
