SPECIFICATION Spec
CONSTANTS
    t1 = t1
    t2 = t2
    c1 = c1
    c2 = c2
    NoCmd = NoCmd
    Tasks <- OneTask
    Cmds <- OneCmd
    Serialized = TRUE
    AppCreatesTxSem = TRUE
    LateBusy = FALSE
    MaxCalls = 2
    MaxRestarts = 0
ACTION_CONSTRAINT BootsSlowly
INVARIANT SpinUnreached
