SPECIFICATION Spec
CONSTANTS
    Workers = {w1}
    Cases <- MCCases
    Runs = {1}
    Events <- MCEastern
    Engines = {"decision_engine"}
    Customers = {FALSE}
INVARIANTS
    QuietHoursAreUtc
