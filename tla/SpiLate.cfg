SPECIFICATION FairSpec
CONSTANTS
    t1 = t1
    t2 = t2
    c1 = c1
    c2 = c2
    NoCmd = NoCmd
    Tasks <- TwoTasks
    Cmds <- OneCmd
    Serialized = TRUE
    AppCreatesTxSem = TRUE
    LateBusy = TRUE
    MaxCalls = 4
    MaxRestarts = 1
INVARIANTS ReplyIsOwn IInv AtMostOnce
PROPERTIES ImplementsChannel CallReturns
