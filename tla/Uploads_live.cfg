SPECIFICATION Spec
CONSTANTS
    Segments = 2
    UploadQueueSize = 1
    MaxSegmentRetries = 1
    StableSizePolls = 1
    Encoders <- MCEncoders
    Qualities = {original, q1, q2}
    Original = original
    Parallel = 2
    CompleteRetries = 2
    Requests = 2
    MaxClaims = 2
    Callers = {c1, c2}
    Retries = 1
    Threshold = 2
    MaxOutages = 1
    Fleet = {w1, w2}
    Everyone = all
    MaxVersion = 1
    MaxCommands = 2
    MaxMishaps = 2
    KnownQualities = {k1, k2}
    MaxJobs = 2
INVARIANTS
    NoSegmentIsLost
    SuccessIsAccounted
    WorkIsNotThrownAway
PROPERTIES
    QualityEnds
    JobIsSettled
    BreakerCloses
    ClaimsAreCurrent
    CommandsAreObeyed
    OnlyOrphansAreRemoved
    OrphansAreRemoved
CHECK_DEADLOCK FALSE
