SPECIFICATION Spec
CONSTANTS
    Workers = {w1}
    Cases <- MCCases
    Runs = {1}
    Events <- MCNight
    Engines = {"decision_engine"}
    Customers = {FALSE}
INVARIANTS
    QuietHoursHaveNoContact
