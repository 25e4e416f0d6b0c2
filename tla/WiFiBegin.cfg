SPECIFICATION Spec
CONSTANTS
    t1 = t1
    t2 = t2
    Tasks <- TwoTasks
    END_CMD = 238
    WL_SSID_MAX_LENGTH = 4
    WL_NETWORKS_LIST_MAXNUM = 2
    LIST_CLOCKED = 10
    Names <- MCNames
    FoundLists <- MCFoundLists
    Queries <- MCQueries
    Report <- MCReport
    NewCache <- MCNewCache
    Scripts <- MCScripts
    Stack <- MCStack
    WL_MAX_ATTEMPT_CONNECTION = 3
    Serialized = TRUE
    Reliable = TRUE
PROPERTIES TakenIsNotFailed
