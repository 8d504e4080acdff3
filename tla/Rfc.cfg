CONSTANTS
    Writers = {w1, w2, w3}
    Sessions = "per_attempt"
    Functions = {f1, f2}
    Readers = {r1, r2}
    PoolCap = 1
    MaxVersion = 2
SYMMETRY RfcSymmetry
SPECIFICATION MCSpec
INVARIANTS
    ReportIsTrue RolledBackLeavesNothing ReadOnlySendsNothing
    StatsAccount ResultComplete InvalidationHolds
CHECK_DEADLOCK FALSE
