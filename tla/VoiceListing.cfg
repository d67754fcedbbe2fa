SPECIFICATION SuiteSpec
CONSTANTS
    c1 = c1
    c2 = c2
    g1 = g1
    g2 = g2
    u1 = u1
    s1 = s1
    s2 = s2
    Users = {u1}
    Channels = {c1, c2}
    GuildOf <- GuildsApart
    None = none
    MaxGen = 2
    MaxIncidents = 1
    Scope = {"moderate", "delete", "reconnect", "expire", "lose", "fail", "restart"}
INVARIANTS TypeOK SubscriptionsMatch
PROPERTIES OnlyCurrentAdmitted RevocationHolds RoomsSettle
CHECK_DEADLOCK FALSE
