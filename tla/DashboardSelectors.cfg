SPECIFICATION Spec
CONSTANTS
    Kind = "PersesDashboard"
    Objects = {o1}
    Instances = {i1, i2}
    Values = {v1, v2}
    InvalidValues = {}
    Labels = {"l1", "l2"}
    Selectors <- SomeSelectors
    BadSelector = BadSelector
    Absent = Absent
    Budgets <- SelectorBounds
SYMMETRY MCSymmetry
INVARIANTS
    SettledMeansSynced
CHECK_DEADLOCK FALSE
