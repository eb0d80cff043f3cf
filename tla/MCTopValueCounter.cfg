SPECIFICATION CounterSpec
CONSTANTS
    Values = {"a", "b", "c", "d"}
    Zero = "a"
    N = 2
    MaxRecords = 8
CHECK_DEADLOCK FALSE
INVARIANTS Bracketed HeavyHittersKept
