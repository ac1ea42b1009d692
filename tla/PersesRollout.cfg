SPECIFICATION Spec
CONSTANTS
    Specs <- RolloutSpecs
    LegacySpecs <- None
    Contents = {"c1", "c2"}
    LabelSets = {"team-a", "team-b"}
    Annotations = {"a1"}
    ServiceNames = {"svc", "svc2"}
    Secrets = {"s1"}
    NoMap = NoMap
    Absent = Absent
    Budgets <- RolloutBounds
INVARIANTS
    RolloutInv
    SettledMeansDeployed
    SettledMeansOneWorkload
    SettledMeansProvisioned
    SettledMeansAnnotated
    SettledMeansAvailable
PROPERTIES
    ConditionsNeverReset
CHECK_DEADLOCK FALSE
