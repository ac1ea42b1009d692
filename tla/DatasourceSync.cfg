SPECIFICATION Spec
CONSTANTS
    Kind = "PersesDatasource"
    Objects = {o1, o2}
    Instances = {i1, i2}
    Values = {v1, bad}
    InvalidValues = {bad}
    Labels = {"l1"}
    Selectors <- AnySelector
    BadSelector = BadSelector
    Absent = Absent
    Budgets <- FaultBounds
SYMMETRY MCSymmetry
INVARIANTS
    SyncInv
    SettledMeansSynced
    SettledMeansReported
    SettledMeansDeleted
    SettledMeansForgotten
    CompleteMeansHeld
    SecretBeforeDatasource
PROPERTIES
    NoSecretForInvalid
    ImplementsMirror
CHECK_DEADLOCK FALSE
