CONSTANTS
    Environments <- MCEnvironments
    Clients <- MCClients
    MaxStreams = 1
    Identities <- MCIdentities
    Limits = {0, 1, 2, 1000, 1001}
    Queries <- MCQueries
    Wheres <- MCWheres
    ColumnLists <- MCColumnLists
    Values <- MCValues
    MaxDepth = 6
    MaxRows = 2
    Fields <- MCFields
    Cells <- MCCells
    References <- MCReferences
    MaxNodes = 2
    MaxFields = 3
    MaxCells = 2
    Requests = {q1, q2}
    AdtTimeout = 3
    ODataTimeout = 1
    Margin = 4
    ExpiresIn = {5}
    MaxSession = 2
SPECIFICATION MCSpec
INVARIANTS
    ReadOnlyNeverChanges HttpConfirmsNothing
    ReadIsSelect SearchIsTop
    RowsSurvive FailureSurvives BadAnswerIsError
    ReadsWhatWasSent
    CachedTokenIsAlive NoExpiredTokenArrives
PROPERTY OnlyAuthorisedEffects
SYMMETRY RequestSymmetry
CHECK_DEADLOCK FALSE
