SPECIFICATION FairSpec
CONSTANTS
    Callers = {master, s1, s2}
    Counts = {3}
    MaxRounds = 2
INVARIANT TypeOK
INVARIANT BarrierSafe
INVARIANT OneAnswerPerCall
PROPERTY BarrierOpensIfHeard
CHECK_DEADLOCK FALSE
