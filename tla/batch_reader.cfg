SPECIFICATION SSpec
CONSTANTS
    MaxBatches = 3
    MaxRows = 4
    Limits = {0, 1, 2, 3, 5}
    NoLimit = NoLimit
INVARIANTS
    CollectIsExact
    SchemaIsTheBatches
    PullsNoMoreThanAsked
    TroubleIsReported
    AmbientKeysFollowStorage
    OnlyS3KeysInClear
    NoDeadHandleInRust
    OnlyStreamsAndPanicsLeak
