SPECIFICATION Spec
CONSTANTS
    N = 2
    Systems <- MCSystems
    Scripts <- MCScripts
    MaxFaults = 2
INVARIANTS
    RecordsKept
    RetryRecords
    ScriptsKept
CHECK_DEADLOCK FALSE
