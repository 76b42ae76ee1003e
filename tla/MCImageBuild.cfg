SPECIFICATION MCSpec
CONSTANTS
    Copies <- MCCopies
    PublicFiles <- MCPublic
    Complete <- MCComplete
    Helpers <- MCHelpers
    Tools <- MCTools
    Interpreter <- MCInterpreter
    VenvPython <- MCVenvPython
    Roots <- MCRoots
    LinkLimit = 3
    Files <- MCFiles
    Outputs <- MCOutputs
    Legacy = {"api", "edited", "state", "circle"}
    Commands = {1, 2}
    Modes = {"build", "inspect", "recover"}
    MaxTroubles = 1
    None = None
    Foreign = Foreign
INVARIANTS ProofHolds PromotedRunsAsCommitted NoSecondBuild
PROPERTIES BuildFinishes
CHECK_DEADLOCK FALSE
