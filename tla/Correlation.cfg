\* Two stages: what one leaves behind is near the other. Two seconds and a
\* window of one: some events are too far apart.
CONSTANTS
    MaxStages = 2
    MaxClock = 2
    MaxEvents = 3
    Window = 1
SPECIFICATION CorrelationSpec
INVARIANTS
    
    
    SightedIsResidual
\* The analysis ends.
CHECK_DEADLOCK FALSE
