SPECIFICATION Spec
CONSTANTS
    Slaves = {s1, s2}
    Master = master
    Pages = {p1}
    Calls <- AllSlaves
    MaxVersion = 2
    MaxBacklog = 4
    FreedNodeIntact = {TRUE, FALSE}
    LeavesLoop = {TRUE, FALSE}
    reader = s1
    writers = {}
    page = p1
INVARIANT TypeOK
INVARIANT SingleWriter
INVARIANT LatestVersion
INVARIANT PageHasOneHome
INVARIANT CopiesListed
INVARIANT NoUnsolicitedPage
PROPERTY SlaveSectionsStable
PROPERTY ReadersDrainFirst
PROPERTY RequestKept
SYMMETRY SlaveSymmetry
CHECK_DEADLOCK FALSE
