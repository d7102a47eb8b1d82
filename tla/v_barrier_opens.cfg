SPECIFICATION FairSpec
CONSTANTS
    Callers = {master, s1}
    Counts = {2}
    MaxRounds = 1
PROPERTY BarrierOpens
CHECK_DEADLOCK FALSE
