SPECIFICATION Spec
CONSTANTS
    Order <- PairOrder
    Calls <- Pair
    Callers = {"c1", "c2"}
    Target <- PairTarget
    Workers = {"w1", "w2"}
    NoOne = "none"
    MaxWaitErrors = 0
    MaxFaults = 2
    ReserveBreaks = TRUE
INVARIANTS WaitersReachable CompilingIsOwned CalleesDefined ErrorsExplained
