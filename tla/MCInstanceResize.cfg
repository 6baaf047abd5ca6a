SPECIFICATION Spec
CONSTANTS
    Flavors = {"small", "large"}
    Images = {"v1", "v2"}
    Users = {"me"}
    Groups = {"default"}
    None = None
    Clouds <- ImageCloud
    MaxTrouble = 3
    Me = "me"
    DefaultGroup = "default"
    Configs <- ShapeConfigs
    MaxEdits = 1
PROPERTY InterruptedResizeConfirmed
CHECK_DEADLOCK FALSE
