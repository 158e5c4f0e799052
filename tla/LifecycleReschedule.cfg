CONSTANTS
    Procs = {p1}
    MaxAttempts = 2
    SweepAttempts = 2
    JobIds = {"creds", "start", "finish"}
    MaxSends = 0
SPECIFICATION Spec
PROPERTIES
    RescheduleKeepsJobs
