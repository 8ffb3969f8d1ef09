\* Two requests through a rewrite and an access handler; all endings.
SPECIFICATION Spec
CONSTANTS
    r1 = r1
    r2 = r2
    Requests = {r1, r2}
    NoRequest = NoRequest
    Handlers <- RewriteAccess
    Codes <- AllCodes
    Rputs = {TRUE, FALSE}
    Ends = {"return", "raise"}
    MaxSleeps = 1
SYMMETRY RequestSymmetry
CHECK_DEADLOCK FALSE
INVARIANTS
    TypeOK
    RefusedNeverServed
PROPERTIES
    EffectsStayHome
    ClosedIsFinal
