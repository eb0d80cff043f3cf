SPECIFICATION Spec
CONSTANTS
    first = first
    replay = replay
    f = f
    g = g
    k = k
    nothing = nothing
    Calls <- MCCalls
    Objects <- MCObjects
    Classes <- MCClasses
    Nothing = nothing
INVARIANTS SettledAtRest
PROPERTIES PublishesComplete CompletionEnds ImplementsNamespace
CHECK_DEADLOCK FALSE
