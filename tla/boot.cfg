CONSTANTS
    Scenarios <- MCScenarios
    MaxCrashes = 1
    MaxRetries = 1
    MaxBoots = 2
    CoolBoards <- MCCoolBoards
    Degrees = {30, 51, 70}
    MaxEvents = 2
    MaxSignals = 1
    Registers = {1, 2}
    Values = {5, 6}
    MaxTransfers = 2
    MaxFaults = 2
SPECIFICATION MCSpec
INVARIANTS
    Compiles
    ForwardsReady
    BlamesRightly
    Cooled
    
    ReadsItsOwn
PROPERTIES
    BootsThrough
    Responds
