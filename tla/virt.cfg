SPECIFICATION Spec
CONSTANTS
    Ports = {"swp1", "swp2"}
    LagNames = {"po1"}
    VIDs = {10, 20}
    SVIName <- MCSVIName
    NoLag = "no lag"
    Atoi <- MCAtoi
    Prefix <- MCPrefix
    Text <- MCText
    VirtCaps <- MCCaps
    Scenes <- MCScenes
INVARIANTS
    Agrees
    KernelContract
    ListedIsEnforced
CHECK_DEADLOCK FALSE
