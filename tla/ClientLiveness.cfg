SPECIFICATION SuiteFairSpec
CONSTANTS
    Channels = {1, 2}
    MaxJoins = 2
    MaxLeaves = 1
    MaxFaults = 2
    MaxCalls = 2
    MaxClicks = 2
    MaxUpsets = 1
INVARIANTS TypeOK CallAgrees EndsAreTold MicrophoneAgrees SessionAgrees
PROPERTIES ActiveEnds OnlyCurrentCalls WaitsEnd ConnectsAtLast
CHECK_DEADLOCK FALSE
