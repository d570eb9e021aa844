CONSTANTS
    p1 = p1
    p2 = p2
    po1 = po1
    po2 = po2
    v10 = v10
    v20 = v20
    None = None
    Port = {p1, p2}
    Lag = {po1, po2}
    Vid = {v10, v20}
    Requests <- MCRequests
SYMMETRY Alike
SPECIFICATION Spec
INVARIANTS
    NoHalfPort
    LeavesNoTrace
