\* Two analyses, one of an upload, for one worker, so that one waits for the
\* other, and a restart. No symmetry: liveness.
CONSTANTS
    Ids = {i1, i2}
    Uploads = {i2}
    MaxWorkers = 1
    MaxRestarts = 1
SPECIFICATION FairJobSpec
INVARIANTS
    JobTypeOK
    PublishedIsOnDisk
    DeletedNeverCompletes
PROPERTIES
    AcceptedIsSettled
    ImplementsLifecycle
\* A service nobody sends anything to has nothing to do.
CHECK_DEADLOCK FALSE
