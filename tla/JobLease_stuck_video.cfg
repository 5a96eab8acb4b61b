SPECIFICATION FairSpecWithStops
CONSTANTS
    w1 = w1
    w2 = w2
    j1 = j1
    j2 = j2
    None = None
    Workers <- OneWorker
    Jobs <- OneJob
    Retranscodes <- NoJob
    MaxAttempts = 1
    MaxPending = 1
PROPERTIES
    ReleasedVideosReturnToPending
