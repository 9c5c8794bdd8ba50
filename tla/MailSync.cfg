SPECIFICATION MailSpec
CONSTANTS
  m1 = m1
  m2 = m2
  Mail = {m1, m2}
  Named = {m2}
  Garbled = {}
  Unwanted = {m2}
  Present <- MCPresent
  Batch = 1
  MaxMishaps = 1
  MaxMoves = 1
INVARIANTS
  NothingSkipped
PROPERTIES
  EveryMailComesIn
CHECK_DEADLOCK FALSE
