\* Both lanes, two calls of the statement on two threads beside the import.
SPECIFICATION Spec
CONSTANTS
    c1 = c1
    c2 = c2
    None = None
    Main = "body"
    Defs <- Executions
    CallOf <- OwnCalls
    Lanes = {"retained", "interpreter"}
    Kinds = {"plain", "dict", "slots"}
SYMMETRY Symmetry
INVARIANTS
    OpenIsSelected
    CompletedIsFinal
    FailureIsOwn
    ApplicationForgotten
