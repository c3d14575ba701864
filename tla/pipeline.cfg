SPECIFICATION Spec
CONSTANTS
    Workers = {w1, w2}
    Cases <- MCCases
    Runs = {1, 2}
    Events <- MCFates
    Engines = {"decision_engine", "always_retry"}
    Customers = {FALSE}
INVARIANTS
    TypeOK
    ContactIsPermitted
    OneLinkPerRun
    RecordsTellTruth
    AnsweredRunIsOnRecord
PROPERTIES
    ImplementsGoverned
