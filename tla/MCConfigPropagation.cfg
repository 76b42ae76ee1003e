SPECIFICATION RolloutSpec
CONSTANTS
    d1 = d1
    d2 = d2
    m1 = m1
    m2 = m2
    Pollers = {d1, d2}
    Messages = {m1, m2}
    NoMessage = noMessage
    MaxVersion = 2
    MaxDeletions = 1
CHECK_DEADLOCK FALSE
INVARIANTS
    ServedIsAsked
    AppliedIsServed
PROPERTIES
    ImplementsPromise
    Converges
