CONSTANTS
    None = None
    Scenarios <- MCScenarios
SPECIFICATION FairSpec
INVARIANTS
    NoLoop
PROPERTIES
    TreeForms
