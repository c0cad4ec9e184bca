SPECIFICATION FairSpec
CONSTANTS
    Kinds = {"node", "dockerfile", "static"}
    SwapSetting = {TRUE}
    Troubles = {"reboots"}
    MaxDeploys = 3
    MaxTroubles = 1
INVARIANTS
    Served
    NoMix
    FailureKeepsPublished
    OnlyProbed
PROPERTIES
    SwitchesCleanly
    MixEnds
