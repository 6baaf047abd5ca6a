SPECIFICATION Spec
SYMMETRY Symmetry
CONSTANTS
    Hosts = {h}
    HostConfigs = {c1, c2}
    Settings = {ipv4, ipv6}
    Default = "default"
    None = None
    MaxTrouble = 2
    Patient = FALSE
PROPERTY UntaintedSettingsWritten
