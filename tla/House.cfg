SPECIFICATION HouseSpec
CONSTANTS
  d1 = d1
  d2 = d2
  Devices = {d1, d2}
  Acts = {"pair_code", "install_agent", "uninstall_agent"}
  Passphrases = {"right", "other"}
  Tries = 2
  MaxCodes = 2
  MaxLinks = 1
  MaxAsked = 3
  Packages = {tax, travel}
  tax = tax
  travel = travel
  MaxItems = 2
  ItemLevel <- MCItemLevel
  MaxLevel <- MCMaxLevel
  Batch = 2
  PerDay = 2
  Ceiling = 3
  MaxWrites <- MCMaxWrites
  MaxRuns = 2
  MaxActs = 4
  MaxCuts = 1
INVARIANTS
  FiveTries
  OnceOnly
  LevelCovers
  LandsWhole
  CapHolds
  NewItemsOnce
CONSTRAINT
  OneThingAtATime
SYMMETRY Symmetry
CHECK_DEADLOCK FALSE
