SPECIFICATION FairSpec
CONSTANTS
    t1 = t1
    t2 = t2
    c1 = c1
    c2 = c2
    NoCmd = NoCmd
    Tasks <- OneTask
    Cmds <- OneCmd
    Serialized = TRUE
    AppCreatesTxSem = FALSE
    LateBusy = FALSE
    MaxCalls = 1
    MaxRestarts = 0
PROPERTY TransferReleases
CHECK_DEADLOCK FALSE
