SPECIFICATION Spec
CONSTANTS
    Kinds = {"node", "dockerfile", "static"}
    SwapSetting = {TRUE, FALSE}
    Troubles = {"faults", "refusals", "crashes", "stops", "reboots"}
    MaxDeploys = 2
    MaxTroubles = 4
INVARIANTS
    TypeOK
PROPERTIES
    SwapKeepsAlive
    StopIsKept
    LastContainer
