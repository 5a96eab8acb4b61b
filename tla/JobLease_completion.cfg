SPECIFICATION HandlingSpec
CONSTANTS
    w1 = w1
    w2 = w2
    j1 = j1
    j2 = j2
    None = None
    Workers <- TwoWorkers
    Jobs <- OneJob
    Retranscodes <- NoJob
    MaxAttempts = 1
    MaxPending = 2
PROPERTIES
    CompletedByItsHolder
