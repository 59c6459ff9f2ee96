\* Two connections, over TLS or not, that say the same name or none: one can be
\* minting the files the other loads, and both can still be open when the
\* analysis stops and reads. A client that says none gets the shared certificate.
CONSTANTS
    Clients = {c1, c2}
    Names = {good}
    Unsafe = {}
    NoName = NoName
    Invalid = Invalid
    Nobody = Nobody
SPECIFICATION ServingSpec
INVARIANTS
    ServingTypeOK
    CompleteIsCaptured
    CountsGrow
PROPERTIES
    RecordsReturn
\* The analysis ends.
CHECK_DEADLOCK FALSE
