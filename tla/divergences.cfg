SPECIFICATION Spec
CONSTANTS
    Cases <- MCCases
    Batches <- MCNormal
INVARIANTS
    DivergencesAreDocumented
CHECK_DEADLOCK FALSE
