SPECIFICATION FairSpec
CONSTANTS
    lb = lb
    pool = pool
    m1 = m1
    m2 = m2
    Root = lb
    Children = {pool, m1, m2}
    Parent <- MCParent
    Unique = {m1, m2}
    Values = {1, 2}
    None = None
    First = 1
    MaxTrouble = 2
    MaxEdits = 1
CHECK_DEADLOCK FALSE
INVARIANTS TypeOK NothingLeftBehind
PROPERTIES SettledWhenDone DeletionSeenThrough Converges
