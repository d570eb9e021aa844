CONSTANTS
    Len = 544
    Sizes = {0, 65, 200}
    Pointers <- MCPointers
    Names = {tx, rx}
    Other = Other
    NAMES = 2
SPECIFICATION Spec
INVARIANTS
    
    FreedWhole
PROPERTIES
    Implements
