SPECIFICATION Spec
CONSTANTS
    u1 = u1 u2 = u2
    c1 = c1 c2 = c2 c3 = c3
    Users = {u1}
    Conns = {c1, c2}
    Owner <- TwoOfOne
    Guilds = {g1}
    None = none
    Cap = 2
    Overlap = FALSE
    Scope = {}
PROPERTY DeletionIsTold
CHECK_DEADLOCK FALSE
