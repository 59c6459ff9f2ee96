\* One analysis, a restart, and the page that lists it.
CONSTANTS
    Ids = {i1}
    Uploads = {}
    MaxWorkers = 1
    MaxRestarts = 1
SPECIFICATION FairDashboardSpec
INVARIANTS
    AnswerMissesOnlyChanged
PROPERTIES
    StaleRowGoes
\* A service nobody sends anything to has nothing to do.
CHECK_DEADLOCK FALSE
