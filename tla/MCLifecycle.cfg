CONSTANTS
    Kind <- AllKinds
    Kinds <- KindNames
    Configs <- FewConfigs
    Blank <- BlankKinds
    Ids <- ThreeIds
    None = None
    NoId = NoId
    MaxTrouble = 2
    MaxEdits = 2
SPECIFICATION FairSpec
CHECK_DEADLOCK FALSE
INVARIANTS
    TypeOK
PROPERTIES
    KeepsCustody
    AppliedMeansReached
    Converges
