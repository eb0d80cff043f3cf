SPECIFICATION Spec
CONSTANTS
    final = final
    mutable = mutable
    odd = odd
    alien = alien
    v1 = v1
    v2 = v2
    none = none
    r1 = r1
    r2 = r2
    Names <- MCNames
    MutableNames <- MCMutableNames
    OddKey = odd
    AlienKey = alien
    Values <- MCValues
    Unbound = none
    Receipts <- MCReceipts
INVARIANTS AbandonedIsClosed
PROPERTIES PublishedOutlivesHandle ImplementsContract
CHECK_DEADLOCK FALSE
