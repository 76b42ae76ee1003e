CONSTANTS
  r1 = r1
  r2 = r2
  Runs = {r1, r2}
  NoValue = NoValue
  Catalogue <- VmSizes
  Servers <- Postgres
  BaseSlots = {"management"}
  AddedSlots = {"isolated"}
  Limits <- Quota
  Loads <- Uses
  Offers <- Regions
  Tiers <- VaultTiers
  MaxChanges = 1
  MaxReruns = 1
SYMMETRY Symmetry
SPECIFICATION Spec
INVARIANTS FleetFits OwnCoresNeverBlock
PROPERTIES NothingResized
CHECK_DEADLOCK FALSE
