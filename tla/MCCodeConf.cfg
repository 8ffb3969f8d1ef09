\* Both sides; four nested blocks.
SPECIFICATION Spec
CONSTANTS
    http = http
    server = server
    location = location
    other = other
    Main = Main
    Sides = {"http", "stream"}
    Blocks <- HttpBlocks
    Parent <- HttpParent
    MaxContexts = 3
CHECK_DEADLOCK FALSE
INVARIANTS
    ContextsOwned
    NeverMisfreed
    NothingLeaks
    NearestCode
