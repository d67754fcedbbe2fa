SPECIFICATION Spec
CONSTANTS
    Users = {u1, u2}
    Nobody = nobody
    MaxCalls = 1
    MaxGen = 1
    Facts <- OnlyRinging
    Scope = {}
INVARIANT TerminalSignalsNamePeer
CHECK_DEADLOCK FALSE
