SPECIFICATION FairSpec
CONSTANTS
    Specs <- LifecycleSpecs
    LegacySpecs <- LifecycleSpecs
    Contents = {"c1", "c2"}
    LabelSets = {"team-a", "team-b"}
    Annotations = {"a1"}
    ServiceNames = {"svc"}
    Secrets = {}
    NoMap = NoMap
    Absent = Absent
    Budgets <- LifecycleBounds
INVARIANTS SettledMeansDeployed SettledMeansGone
PROPERTIES
    Converges
    DeletionFinishes
CHECK_DEADLOCK FALSE
