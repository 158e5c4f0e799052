CONSTANTS
    h1 = h1
    h2 = h2
    p1 = p1
    p2 = p2
    Nobody = Nobody
    Users = {u1, u2}
    Handlers = {h1, h2}
    Procs = {p1, p2}
    ProcOf <- OneProcess
    Capacity = 1
SPECIFICATION Spec
SYMMETRY OneProcessSymmetry
CONSTRAINT Fresh
INVARIANTS
    NoFreeSeatWhileWaiting
