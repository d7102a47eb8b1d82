SPECIFICATION Spec
CONSTANTS
    Slaves = {s1}
    Master = master
    Pages = {p1}
    Calls <- MasterReads
    MaxVersion = 1
    MaxBacklog = 2
    FreedNodeIntact = {TRUE}
    LeavesLoop = {FALSE}
    reader = s1
    writers = {}
    page = p1
PROPERTY SectionsStable
CHECK_DEADLOCK FALSE
