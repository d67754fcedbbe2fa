SPECIFICATION Spec
CONSTANTS
    Devices = {1, 2}
    MaxChanges = 5
    MaxFailures = 1
PROPERTIES RetryRestarts
CHECK_DEADLOCK FALSE
