SPECIFICATION Spec
CONSTANTS
    t1 = t1
    t2 = t2
    c1 = c1
    c2 = c2
    NoCmd = NoCmd
    Tasks <- TwoTasks
    Cmds <- TwoCmds
    Serialized = TRUE
    AppCreatesTxSem = TRUE
    LateBusy = FALSE
    MaxCalls = 3
    MaxRestarts = 1
SYMMETRY Symmetry
INVARIANTS TypeOK NoSpuriousFailure ChipSelectSpansTransfer NoLostWakeup CreatedBeforeTaken PhaseInv
