SPECIFICATION FairSpec
CONSTANTS
    r1 = r1
    r2 = r2
    r3 = r3
    router = router
    e1 = e1
    e2 = e2
    process = process
    NoOne = NoOne
    Resources = {r1, r2, r3}
    Parents = {router}
    Entries = {e1, e2}
    Procs = {process}
    ParentOf <- MCParentOf
    EntryOf <- MCEntryOf
    ProcOf <- MCProcOf
INVARIANTS
    TypeOK
    MutexHeld
    SnapshotFresh
    OwnedOnce
PROPERTIES
    AtomicEdits
    OperationsEnd
CHECK_DEADLOCK TRUE
