CONSTANTS
    Writers = {w1, w2}
    Sessions = "per_call"
SPECIFICATION WriteSpec
INVARIANTS CommittedIsPersisted
CHECK_DEADLOCK FALSE
