CONSTANTS
    Procs = {p1, p2}
    MaxAttempts = 1
    SweepAttempts = 1
    JobIds = {"creds", "start", "manual", "finish"}
    MaxSends = 1
SPECIFICATION Spec
CONSTRAINT StartFirst
SYMMETRY ProcSymmetry
INVARIANTS
    TypeOK
    RunningIsHeld
    ClaimIsExclusive
PROPERTIES
    SettledStays
    OnlyOutdatedRevives
