SPECIFICATION FairSpec
CONSTANTS
    u1 = u1
    u2 = u2
    nobody = nobody
    c1 = c1
    c2 = c2
    g1 = g1
    g2 = g2
    none = none
    Users = {u1}
    PerSecond = 2
    Interval = 3
    MaxTime = 7
    MaxSockets = 2
    Scope = {"crash", "fail"}
INVARIANTS NoGhosts TimeAccounted
PROPERTIES StallsEnd LeavingEnds AbsenceIsSeen
CHECK_DEADLOCK FALSE
