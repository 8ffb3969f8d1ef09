\* Bodies of up to four bytes in chains of up to two buffers.
SPECIFICATION Spec
CONSTANTS
    Confs <- AllFilters
    MaxBytes = 4
    MaxBufs = 2
    ScriptEnds = {"return", "raise", "error"}
CHECK_DEADLOCK FALSE
INVARIANTS
    TypeOK
    HeaderBeforeBody
    ScriptSeesWholeBody
    NothingKeptBack
    UnfilteredUnchanged
    SoleFilterLength
