SPECIFICATION FairSpec
CONSTANTS
    MaxCalls = 1
    MaxClicks = 1
    MaxUpsets = 0
PROPERTIES DeafeningEnds
CHECK_DEADLOCK FALSE
