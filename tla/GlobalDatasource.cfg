SPECIFICATION FairSpec
CONSTANTS
    Kind = "PersesGlobalDatasource"
    Objects = {o1}
    Instances = {i1, i2}
    Values = {v1}
    InvalidValues = {}
    Labels = {"l1"}
    Selectors <- AnySelector
    BadSelector = BadSelector
    Absent = Absent
    Budgets <- RecoveryBounds
INVARIANTS
    SettledMeansDeleted
PROPERTIES
    Converges
    DeletionSettles
CHECK_DEADLOCK FALSE
