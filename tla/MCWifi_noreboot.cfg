SPECIFICATION FairSpec
CONSTANTS
    Networks = 3
    MaxRetries = 3
    MaxRestarts = 2
    MaxDrops = 3
PROPERTY
    ReachingMaximumReboots
CHECK_DEADLOCK FALSE
