SPECIFICATION Spec
CONSTANTS
    web = web
    db = db
    port = port
    g1 = g1
    g2 = g2
    process = process
    NoOne = NoOne
    Resources = {web, db}
    Parents = {port}
    Procs = {process}
    ParentOf <- MCParentOf
    ProcOf <- MCProcOf
    Groups = {g1, g2}
    Plans <- MCPlans
    EmptyAnswers = FALSE
INVARIANT
    TypeOK
PROPERTY
    OthersGroupsKept
CHECK_DEADLOCK TRUE
