SPECIFICATION FairSpec
CONSTANTS
    Specs <- RelabelSpecs
    LegacySpecs <- None
    Contents = {"c1", "c2"}
    LabelSets = {"team-a", "team-b"}
    Annotations = {"a1"}
    ServiceNames = {"svc", "svc2"}
    Secrets = {}
    NoMap = NoMap
    Absent = Absent
    Budgets <- EditBounds
PROPERTIES
    LabelsReachPods
CHECK_DEADLOCK FALSE
