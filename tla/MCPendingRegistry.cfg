SPECIFICATION Spec
CONSTANTS
    c1 = c1
    c2 = c2
    f1 = f1
    class = class
    function = function
    inv1 = inv1
    inv2 = inv2
    noInv = noInv
    noRef = noRef
    Objects <- MCObjects
    Kinds <- MCKinds
    ClassKinds <- MCClassKinds
    KindOf <- MCKindOf
    Invocations <- MCInvocations
    NoInv = noInv
    NoRef = noRef
INVARIANTS EdgeOwnership
PROPERTIES ImplementsQueue
SYMMETRY MCSymmetry
CHECK_DEADLOCK FALSE
