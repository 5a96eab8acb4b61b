SPECIFICATION SpecWithStops
CONSTANTS
    w1 = w1
    w2 = w2
    j1 = j1
    j2 = j2
    None = None
    Workers <- TwoWorkers
    Jobs <- OneJob
    Retranscodes <- OneJob
    MaxAttempts = 2
    MaxPending = 1
SYMMETRY WorkerSymmetry
INVARIANTS
    TypeOK
    EveryClaimHasADeadline
    EveryRowHasAState
    VideoAgreesWithJob
