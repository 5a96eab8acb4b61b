SPECIFICATION Spec
CONSTANTS
    SpriteRows = {1, 2}
    SpriteWorkers = {w1, w2}
    SpriteClients = {c1}
    UrgentRows = {2}
    MaxDrops = 1
    TranscriptClients = {c1, c2}
    MaxTranscripts = 2
    MaxDeaths = 1
    MaxResets = 1
    Values = {v1, bad}
    Misfits = {bad}
    Absent = absent
    Processes = {p1, p2}
    Editors = {p1}
    Edits = {e1, e2}
    MaxEdits = 2
    MaxReadFailures = 1
    ReencodeRows = {1, 2}
    ReencodeWorkers = {w1, w2}
    QueueClients = {c1, c2}
    MaxReencodeFaults = 1
    Fields = {f1, f2}
    FieldRequests = {q1, q2}
    BulkRequests = {q1}
    FieldTries = 2
    ListedVideos = {1, 2, 3}
    PageLimit = 2
    MaxDate = 2
    MaxChanges = 2
    DispatchJobs = {1, 2}
    UrgentJobs = {2}
    Loops = {w1, w2}
    MaxPublished = 2
    MaxFaults = 2
    MaxTries = 1
    Durations = {0, 11, 20, 30, 35, 46}
    MarkerStarts <- MCMarkerStarts
    MaxMarkers = 3
    MaxSentences = 3
    Second = 8
    Hundredth = 4
    MinLength = 8
    RoundedDown <- MCRoundedDown
    Short <- MCShort
    MaxGenerated = 5
    MaxChapters = 3
    PlayerCalls = {h1, h2}
    Positions = {1, 2}
    MaxDbRetries = 1
    MaxDbFailures = 2
INVARIANTS
    ReadyHasSheets
    CompletedHasCaptions
    FilesAreKept
    ValuesAreWhole
    ListedOnce
    TranscriptDividesVideo
    FilterKeepsMost
    WatchIsCountedOnce
PROPERTIES
    SpriteJobsEnd
    TranscriptionEnds
    SettingsSpread
    FieldRequestsEnd
    JobsAreDispatched
CHECK_DEADLOCK FALSE
