SPECIFICATION MCSpec
CONSTANTS
    Operators = {o1, o2}
    NoHolder = noHolder
    Pairs = {1, 2}
    Starts = {1, 2}
    Tenants = {t1}
    MaxPods = 2
SYMMETRY Symmetry
CHECK_DEADLOCK FALSE
INVARIANTS
    LeaseProtectsWork
    OneAttempt
    AssignedIsReady
    UnknownKeepsLease
    RetiredStaysClosed
    AllocationsDistinct
