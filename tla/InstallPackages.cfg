CONSTANTS
    N = 3
    Jobs = 2
    MaxRuns = 2
SPECIFICATION FairSpec
INVARIANTS
    PipelineInv
    RecordedComplete
    SuccessRecordsAll
    RootCauseReported
    NeverStuck
PROPERTIES
    RecordedUntouched
    ImplementsSeqInstall
    CancelReturns
    AlwaysReturns
CHECK_DEADLOCK FALSE
