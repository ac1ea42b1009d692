SPECIFICATION FairSpec
CONSTANTS
    Kind = "PersesDashboard"
    Objects = {o1}
    Instances = {i1, i2}
    Values = {v1}
    InvalidValues = {}
    Labels = {"l1"}
    Selectors <- AnySelector
    BadSelector = BadSelector
    Absent = Absent
    Budgets <- DeleteBounds
PROPERTIES
    DeletionSettles
CHECK_DEADLOCK FALSE
