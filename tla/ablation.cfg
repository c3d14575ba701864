SPECIFICATION FairSpec
CONSTANTS
    Cases <- MCCases
    Batches <- MCBatches
INVARIANTS
    TypeOK
    BindingsComeBack
    CountsAddUp
    AmountsAddUp
    GatedRowsAreGoverned
    GateIsTheDifference
    EngineErrorsAreExplained
    EngineAndGateAgree
    DeadCausesAreLeftAlone
    BackoffNeverReverses
PROPERTIES
    AblationEnds
CHECK_DEADLOCK FALSE
