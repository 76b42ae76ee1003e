CONSTANTS
  sd = sd
  sc = sc
  Order <- TwoChildren
  Management = mgmt
  Platform = platform
  MaxBuilds = 2
  MaxDeploys = 1
  MaxFaults = 1
  MaxFailures = 1
SPECIFICATION FairSpec
INVARIANTS NoOrphans NothingLeft LeaseStopsMutations
PROPERTIES CleanInTheEnd
CHECK_DEADLOCK FALSE
