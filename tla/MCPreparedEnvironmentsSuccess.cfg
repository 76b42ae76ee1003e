SPECIFICATION MCSpec
CONSTANTS
    Operators = {o1}
    NoHolder = noHolder
    Pairs = {1}
    Starts = {1}
    Tenants = {t1}
    MaxPods = 1
CHECK_DEADLOCK FALSE
INVARIANTS
    PreparedIsOpen
