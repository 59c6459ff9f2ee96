\* An analysis of two stages and a container of another analysis that lives
\* whenever it likes; logs of up to two lines, of a kind that makes more events
\* than the limit has room for and of the kind the limit overlooks; a directory
\* that is emptied once.
CONSTANTS
    Analyses = {a1}
    Others = {o}
    MaxStages = 2
    MaxLines = 2
    Kinds = {"two", "fork"}
    Limit = 2
    MaxCleans = 1
SPECIFICATION StraceSpec
INVARIANTS
    FinishedStageIsReadOnce
    ForeignOnlyIfConcurrent
\* The analysis ends.
CHECK_DEADLOCK FALSE
