\* Bytes small enough that lengths, a pointer and the type of an A record all
\* occur in a question of seven; a history that keeps two of four releases.
CONSTANTS
    PointerMark = 3
    Bytes = {0, 1, 2, 3}
    MaxBody = 7
    MaxRecords = 2
    MaxEvents = 3
    Pids = {1, 2, 3}
    Letters = {1, 2}
    Separator = 0
    MaxName = 3
    KeptReleases = 2
    NoVersion = NoVersion
    Versions = {1, 2, 3, 4}
    Contents = {1, 2}
SPECIFICATION EvidenceSpec
INVARIANTS
    RepliesAreReadable
    CaptureTellsAnswered
    CutHelloCutsName
    DepthsFollowParents
    NearestNameFound
    LatestMeetsPredecessor
    VerdictFollowsActs
\* A behaviour is one call.
CHECK_DEADLOCK FALSE
