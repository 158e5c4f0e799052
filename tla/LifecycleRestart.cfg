CONSTANTS
    Procs = {p1}
    MaxAttempts = 2
    SweepAttempts = 2
    JobIds = {"start"}
    MaxSends = 0
SPECIFICATION FairSpec
PROPERTIES
    ClaimedJobsSettle
