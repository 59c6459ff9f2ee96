\* A file in each filter alone or in both, and a limit the sandboxed code can get
\* past: lookalike stands for /workspace/site_evil, key for a file of .ssh.
CONSTANTS
    Files = {lookalike, wheel, payload, key, cpuinfo}
    Dirs = {root, sitedir, elsewhere}
    Root = root
    Own = {wheel}
    HostFiles = {wheel}
    TraceSkips = {lookalike, sitedir}
    DiffSkips = {lookalike, wheel}
    Sensitive = {key}
    Evasive = {cpuinfo}
    Limit = 2
    MaxSteps = 4
SPECIFICATION FilesystemSpec
INVARIANTS
    DroppedExecIsFlagged
\* The analysis ends.
CHECK_DEADLOCK FALSE
