\* Two workers; one call fails or one worker dies.
SPECIFICATION Spec
CONSTANTS
    w1 = w1
    w2 = w2
    Workers = {w1, w2}
    Domains <- MCDomains
    NoDomain = NoDomain
    Style <- MCStyle
    Asyncs = {TRUE, FALSE}
    Quota = 2
    MaxFaults = 1
SYMMETRY WorkerSymmetry
INVARIANTS
    TypeOK
    OwnCertificate
    StoredPairMatches
    NotStranded
    AccountHolds
PROPERTY
    DeployedOnce
