SPECIFICATION Spec
CONSTANTS
    Kinds = {"node"}
    SwapSetting = {TRUE}
    Troubles = {"refusals", "stops"}
    MaxDeploys = 3
    MaxTroubles = 2
INVARIANTS
    MapReleased
