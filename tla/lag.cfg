CONSTANTS
    p1 = p1
    p2 = p2
    Port = {p1, p2}
    NoPort = NoPort
    Scenarios <- MCScenarios
SPECIFICATION LiveSpec
INVARIANTS
    TrunkRight
PROPERTIES
    Settles
