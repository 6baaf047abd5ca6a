SPECIFICATION Spec
CONSTANTS
    Flavors = {"small", "large"}
    Images = {"v1", "v2"}
    Users = {"me"}
    Groups = {"default"}
    None = None
    Clouds <- BothClouds
    MaxTrouble = 3
    Me = "me"
    DefaultGroup = "default"
    Configs <- ShapeConfigs
    MaxEdits = 2
INVARIANT TypeOK
PROPERTIES ChangesAreReal PowerReached PowerKept PutBackOnFailure RootErasedOnce
CHECK_DEADLOCK FALSE
