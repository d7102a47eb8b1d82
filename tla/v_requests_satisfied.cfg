SPECIFICATION FairSpec
CONSTANTS
    Slaves = {s1, s2}
    Master = master
    Pages = {p1}
    Calls <- ReaderAndWriters
    MaxVersion = 1
    MaxBacklog = 3
    FreedNodeIntact = {TRUE}
    LeavesLoop = {FALSE}
    reader = s1
    writers = {s2}
    page = p1
PROPERTY EveryLockReturns
