SPECIFICATION FairSpec
CONSTANTS
    Ports <- MCPorts
    LagNames <- MCLagNames
    VIDs <- MCVIDs
    SVIName <- MCSVIName
    NoLag = "no lag"
    Atoi <- MCAtoi
    Prefix <- MCPrefix
    Text <- MCText
    P0 = "swp1"
    P1 = "swp2"
    Scenarios <- MCScenarios
INVARIANTS
    Contracted
    Conforms
PROPERTIES
    
    SpanningTreeFirst
    RerunIsFree
CHECK_DEADLOCK FALSE
