SPECIFICATION FairSpec
CONSTANTS
    Guilds = {1}
    Attempts = 2
    MaxChanges = 1
    MaxActs = 0
    MaxUpsets = 1
    MaxConnections = 2
PROPERTIES LostIsRetried
CHECK_DEADLOCK FALSE
