SPECIFICATION Spec
CONSTANTS
    Cases <- MCCases
    Payments <- MCPayments
    Engines = {"decision_engine", "always_retry", "threshold"}
    Days = {0, 1, 2}
    MaxBlind = 2
INVARIANTS
    TypeOK
    ContactsAreLimited
    DenialsAreTemporary
CHECK_DEADLOCK FALSE
