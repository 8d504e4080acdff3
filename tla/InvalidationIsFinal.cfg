CONSTANTS
    Functions = {f1}
    Readers = {r1, r2}
    PoolCap = 1
    MaxVersion = 2
SPECIFICATION Spec
INVARIANTS InvalidationIsFinal
CHECK_DEADLOCK FALSE
