SPECIFICATION InterruptedSpec
CONSTANTS
    t1 = t1
    t2 = t2
    x1 = x1
    Tenants = {t1, t2}
    NoTenant = noTenant
    Pairs = {x1}
    NoPair = noPair
    Replicas = {r1}
CHECK_DEADLOCK FALSE
INVARIANTS
    RecordOnFinishedPair
    ReadyHasRecord
    ReportsMoveForward
PROPERTY
    EventuallyReady
