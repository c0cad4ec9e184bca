SPECIFICATION FairSpec
CONSTANTS
    Kinds = {"node", "static"}
    SwapSetting = {TRUE}
    Troubles = {"faults", "crashes", "refusals", "reboots"}
    MaxDeploys = 3
    MaxTroubles = 3
INVARIANTS
    IdleServes
    AliasExclusive
    UpstreamsAnswer
PROPERTIES
    OutageOnlyByRollback
    JobEnds
