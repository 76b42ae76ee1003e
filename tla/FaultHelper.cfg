\* Two runs of the helper and an operator who restores.
SPECIFICATION FairSpec
CONSTANTS
    FaultRuns = {r1, r2}
    Restorers = {q1}
    NoJournal = noJournal
    NoFaultRun = noRun
CHECK_DEADLOCK FALSE
INVARIANT
    FaultIsJournalled
PROPERTIES
    RestoredInTheEnd
