\* Two calls, the core and a command beside it on one ledger.
SPECIFICATION Spec
CONSTANTS
  core = core
  first = first
  second = second
  c1 = c1
  c2 = c2
  Procs = {core, first, second}
  Core = core
  Bodies <- MCBodies
  Altered <- MCAltered
  MaxRows = 3
  MaxMishaps = 1
  Calls = {c1, c2}
  Asks <- MCAsks
  Configs <- MCConfigs
  Models = {"small", "large"}
  MaxRestarts = 1
INVARIANTS
  NothingSecretLeaves
  RecordedFirst
  OnceWhileItLives
  ResultsAreTrue
  NothingToldIsLost
PROPERTIES
  RefusedOnlyIfOvertaken
CONSTRAINT
  OneThingAtATime
SYMMETRY Symmetry
CHECK_DEADLOCK FALSE
