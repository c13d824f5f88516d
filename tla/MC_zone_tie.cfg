CONSTANTS
    NilZone = NilZone
    NoZone <- NilZone
    Configs <- TieConfigs
    ZoneFaults = FALSE
SPECIFICATION Spec
INVARIANT SelectsLongestMatch
\* Start-up ends: either the workers start or the process exits.
CHECK_DEADLOCK FALSE
