CONSTANTS
    a = a
    b = b
    c = c
    Nobody = Nobody
    Scenarios <- MCScenarios
SPECIFICATION LiveSpec
INVARIANTS
    NoBlackHole
PROPERTIES
    Negotiates
