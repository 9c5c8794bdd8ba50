SPECIFICATION HouseSpec
CONSTANTS
  d1 = d1
  Devices = {d1}
  Acts = {"pair_code", "install_agent", "uninstall_agent"}
  Passphrases = {"right"}
  Tries = 2
  MaxCodes = 0
  MaxLinks = 0
  MaxAsked = 0
  Packages = {tax}
  tax = tax
  MaxItems = 1
  ItemLevel <- MCItemLevel
  MaxLevel <- MCMaxLevel
  Batch = 1
  PerDay = 2
  Ceiling = 3
  MaxWrites <- MCMaxWrites
  MaxRuns = 1
  MaxActs = 1
  MaxCuts = 0
PROPERTY
  PauseTakesBack
CHECK_DEADLOCK FALSE
