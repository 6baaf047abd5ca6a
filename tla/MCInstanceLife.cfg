SPECIFICATION FairSpec
CONSTANTS
    Flavors = {"small", "large"}
    Images = {"v1", "v2"}
    Users = {"me", "ann"}
    Groups = {"default", "web", "db"}
    None = None
    Clouds <- ImageCloud
    MaxTrouble = 2
    Me = "me"
    DefaultGroup = "default"
    Configs <- LifeConfigs
    MaxEdits = 2
INVARIANTS NoServerForgotten GroupsNeverDip
PROPERTIES ChangesAreReal Converges
CHECK_DEADLOCK FALSE
