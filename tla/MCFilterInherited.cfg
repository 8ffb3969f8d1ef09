\* One filter, given in any block of the http side.
SPECIFICATION Spec
CONSTANTS
    http = http
    server = server
    location = location
    other = other
    Main = Main
    Sides = {"http"}
    Blocks <- HttpBlocks
    Parent <- HttpParent
    MaxContexts = 1
CHECK_DEADLOCK FALSE
INVARIANT
    FiltersInherited
