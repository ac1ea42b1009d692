\* Two instances, two callers, two specs of one shape.  The system stops when
\* every Perses object is deleted.
SPECIFICATION Spec
CONSTANTS
    None = None
    Instances = {i1, i2}
    Callers = {c1, c2}
    Specs = {s1, s2}
    Shapes = {"tls"}
    Shape <- MCShape
    TTL = 1
    MaxTime = 2
    MaxChanges = 3
SYMMETRY MCSymmetry
INVARIANTS
    CacheInv
    ClientMatchesRequest
    SweptRecently
PROPERTIES
    LiveEntryKept
    HandedOutWithinTTL
    InsertionBoundsAge
CHECK_DEADLOCK FALSE
