SPECIFICATION FairSpec
CONSTANTS
    e1 = e1
    e2 = e2
    h1 = h1
    h2 = h2
    Events <- TwoEvents
    AdminEvents <- OneEvent
    Webhooks <- OneWebhook
    MaxRetries = 3
    MaxConcurrent = 2
    Threshold = 2
INVARIANTS
    TypeOK
    SeriesAreBounded
PROPERTIES
    NoSendAfterTheEnd
    EveryDeliveryEnds
