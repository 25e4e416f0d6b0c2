SPECIFICATION FairSpec
CONSTANTS
    t1 = t1
    t2 = t2
    Tasks <- TwoTasks
    END_CMD = 238
    SIZE = 4
    HEADER = 2
    WL_SSID_MAX_LENGTH = 4
    WL_NETWORKS_LIST_MAXNUM = 2
    LIST_CLOCKED = 10
    WIFI_MAX_SOCK_NUM = 2
    Serialized = TRUE
    Reliable = FALSE
    ReadSizes <- OneAndThree
    WriteSizes <- OneAndMost
    ConnectPolls = 1
    StopPolls = 2
    MaxSent = 3
INVARIANTS TypeOK ClientInv WindowInBlock NoneSkipped WriteFramed
PROPERTY ClientCallReturns
