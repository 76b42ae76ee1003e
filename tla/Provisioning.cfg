\* Two coordinator processes and two tenants on one shared pair.
SPECIFICATION FairSpec
CONSTANTS
    Provisioners = {p1, p2}
    NoProvisioner = noProvisioner
    Tenants = {t1, t2}
    NoTenant = noTenant
    Pairs = {1}
    SharedPair = 1
CHECK_DEADLOCK FALSE
INVARIANTS
    StageSubmittedOnce
    AvailablePairIsBuilt
PROPERTIES
    ImplementsLifecycle
    OperationsEnd
