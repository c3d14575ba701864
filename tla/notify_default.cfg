SPECIFICATION Spec
CONSTANTS
    Workers = {w1}
    Cases <- MCCases
    Runs = {1}
    Events <- MCNoon
    Engines = {"decision_engine"}
    Customers = {FALSE}
INVARIANTS
    DeliveredWasInstructed
