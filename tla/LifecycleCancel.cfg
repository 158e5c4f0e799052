CONSTANTS
    Procs = {p1}
    MaxAttempts = 2
    SweepAttempts = 2
    JobIds = {"creds", "start"}
    MaxSends = 0
SPECIFICATION Spec
PROPERTIES
    CancelledNeverStarts
