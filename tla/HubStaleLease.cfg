SPECIFICATION Spec
CONSTANTS
    u1 = u1 u2 = u2
    c1 = c1 c2 = c2
    Users = {u1}
    Conns = {c1, c2}
    Owner <- Together
    Priority <- Devices
    MaxLeases = 1
    Scope = {"revoke"}
INVARIANT ConnectedIsOnline
CHECK_DEADLOCK FALSE
