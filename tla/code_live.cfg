SPECIFICATION FairSpec
CONSTANTS
    Slaves = {s1, s2}
    Master = master
    Pages = {p1, p2}
    Calls <- PagesApart
    MaxVersion = 1
    MaxBacklog = 4
    FreedNodeIntact = {TRUE}
    LeavesLoop = {FALSE}
    reader = s1
    writers = {}
    page = p1
PROPERTY EveryLockReturns
