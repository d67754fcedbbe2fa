SPECIFICATION Spec
CONSTANTS
    Users = {u1}
    PerSecond = 2
    Interval = 3
    MaxTime = 8
    MaxSockets = 2
    Scope = {"fail"}
INVARIANTS FlushRetried
CHECK_DEADLOCK FALSE
