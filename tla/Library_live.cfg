SPECIFICATION MCSpec
CONSTANTS
    Videos = {v1}
    Requests = {r1}
    MaxAttempts = 2
    MaxJobs = 2
    Deployments <- MCDeployments
    CleanUpSource = TRUE
    Renditions <- MCRenditions
    HighRes <- MCHighRes
    ParallelEncodes = 2
    RenditionAttempts = 2
    MaxStops = 1
INVARIANTS
    
    NothingStranded
    UploadsAreLeftAlone
    ShownIsWhole
PROPERTIES
    JobsEnd
    CompletedIsKept
CHECK_DEADLOCK FALSE
