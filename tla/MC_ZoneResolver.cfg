CONSTANTS
    NilZone = NilZone
    NoZone <- NilZone
    Configs <- AllConfigs
    ZoneFaults = TRUE
SPECIFICATION Spec
INVARIANT TypeOK
PROPERTY NoCreateWhenHosted
\* Start-up ends: either the workers start (the worker loop is IngressDNS)
\* or the process exits with a fatal error.
CHECK_DEADLOCK FALSE
