CONSTANTS
    p1 = p1
    p2 = p2
    Nobody = Nobody
    Procs <- MCProcs
    LeaseDuration = 8
    Interval = 2
    MaxFlight = 2
    Skew <- Skewed
    MaxSkew = 1
    Timely = TRUE
    MaxDelay = 3
SPECIFICATION FairSpec
INVARIANTS HealthyExclusion HealthyOwnsLease
PROPERTIES LeaseRunsOut
