SPECIFICATION Spec
CONSTANTS
    Kinds = {"node"}
    SwapSetting = {TRUE}
    Troubles = {"crashes"}
    MaxDeploys = 2
    MaxTroubles = 1
PROPERTIES
    BootNeverCuts
