\* The page's loss of a finished analysis.
CONSTANTS
    Ids = {i1}
    Uploads = {}
    MaxWorkers = 1
    MaxRestarts = 0
SPECIFICATION FairDashboardSpec
PROPERTIES
    OutcomeIsShown
CHECK_DEADLOCK FALSE
