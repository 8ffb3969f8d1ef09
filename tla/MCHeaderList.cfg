\* Two names, one the beginning of the other; up to two parts from nginx.
SPECIFICATION Spec
CONSTANTS
    accept = accept
    accept_encoding = accept_encoding
    host = host
    Keys <- AcceptNames
    Begins <- AcceptBegins
    Values = {"x"}
    NAlloc = 3
    MaxParts = 3
    MaxHeaders = 4
CHECK_DEADLOCK FALSE
INVARIANTS
    WellLinked
    NilRemovesAll
    SetReadBack
PROPERTY
    DeleteTakesOne
