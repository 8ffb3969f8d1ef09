\* Names of which none begins with another.
SPECIFICATION Spec
CONSTANTS
    accept = accept
    accept_encoding = accept_encoding
    host = host
    Keys <- ThreeNames
    Begins <- PlainBegins
    Values = {"x"}
    NAlloc = 3
    MaxParts = 3
    MaxHeaders = 3
CHECK_DEADLOCK FALSE
INVARIANT
    SetVisible
