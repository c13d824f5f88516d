CONSTANTS
    NilZone = NilZone
    NoZone <- NilZone
    Configs <- SubstringConfigs
    ZoneFaults = FALSE
SPECIFICATION Spec
INVARIANT RecordWrittenAtName
\* Start-up ends: either the workers start or the process exits.
CHECK_DEADLOCK FALSE
