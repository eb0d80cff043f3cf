SPECIFICATION FairSpec
CONSTANTS
    Order <- ForkOrder
    Calls <- Fork
    Callers = {"c1", "c2"}
    Target <- ForkTarget
    Workers = {"w1"}
    NoOne = "none"
    MaxWaitErrors = 1
    MaxFaults = 1
    ReserveBreaks = FALSE
INVARIANTS LoneCallerServed
PROPERTIES EveryoneReturns
