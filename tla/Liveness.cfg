CONSTANTS
    Procs = {p1}
    MaxAttempts = 2
    SweepAttempts = 2
    JobIds = {"creds", "start"}
    MaxSends = 1
    Processes = {p1, p2}
    Reports = {r1}
    EventRetention = 1
    RoomRetention = 1
    Horizon = 2
    MaxEntries = 0
    MaxVerdicts = 1
    MaxFailures = 1
    Never = Never
SPECIFICATION FairSpecOfPart
CONSTRAINT Few
PROPERTIES
    DueJobSettles
    CancelledQuiets
    OldGoes
CHECK_DEADLOCK FALSE
