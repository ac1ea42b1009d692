SPECIFICATION FairSpec
CONSTANTS
    FlagSets <- MCFlagSets
    Profiles <- MCProfiles
    Missing = Missing
    Versions <- MCVersions
    CipherSuites <- MCCipherSuites
    IANA <- MCIANA
    Kinds = {"Perses", "PersesDashboard", "PersesDatasource", "PersesGlobalDatasource"}
    Names = {"n"}
    Budgets <- MCBudgets
INVARIANTS
    ProcessInv
    SettledMeansFollowed
    SettledMeansNoGhosts
    SettledMeansCounted
PROPERTIES
    FollowsProfile
CHECK_DEADLOCK FALSE
