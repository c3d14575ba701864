SPECIFICATION FairDemoSpec
CONSTANTS
    Workers = {main}
    Cases <- MCCases
    Runs = {1, 2}
    Events <- MCEvents
    Engines = {"decision_engine"}
    Customers = {TRUE, FALSE}
INVARIANTS
    DemoTypeOK
    DeliveredWasInstructed
    OnlyTestKeysReachRazorpay
    ShowsItsOwnRun
PROPERTIES
    DemoEnds
CHECK_DEADLOCK FALSE
