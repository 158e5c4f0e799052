CONSTANTS
    h1 = h1
    h2 = h2
    p1 = p1
    p2 = p2
    Nobody = Nobody
    Users = {u1, u2, u3}
    Handlers = {h1, h2}
    Procs = {p1, p2}
    ProcOf <- TwoProcesses
    Capacity = 1
SPECIFICATION Spec
CONSTRAINT EarlySweeps
SYMMETRY TwoProcessesSymmetry
INVARIANTS
    TypeOK
    NoWaiterLost
    PositionsDistinct
