SPECIFICATION FairSpec
CONSTANTS
    Configs <- MCConfigs
    MaxFaults = 4
PROPERTIES
    StaleMeansSilent
    ListFollowsTheDA
