SPECIFICATION SuiteSpec
CONSTANTS
    u1 = u1
    u2 = u2
    u3 = u3
    nobody = nobody
    c1 = c1
    c2 = c2
    Users = {u1, u2, u3}
    Nobody = nobody
    MaxCalls = 2
    MaxGen = 2
    Facts <- AllFacts
    Scope = {"refresh", "restart", "expire"}
SYMMETRY Alike
INVARIANTS TypeOK OneLiveCallPerUser OutcomesAreTold RoomFollowsCall SnapshotCurrent HubAgrees
PROPERTIES ImplementsLedger OnlyCurrentTokensAdmitted OnlyDeparturesDisconnect
CHECK_DEADLOCK FALSE
