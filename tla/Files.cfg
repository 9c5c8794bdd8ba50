SPECIFICATION ConversationSpec
CONSTANTS
  m1 = m1
  m2 = m2
  b1 = b1
  l1 = l1
  l2 = l2
  Mails = {m1, m2}
  Attachments = {b1}
  Attached <- MCAttached
  Unwanted = {m1}
  MaxTrouble = 1
  Floor <- MCFloor
  Matched = {m2}
  Sender = {m1}
  Batch = 1
  Most = 2
  MaxWords = 1
  Lookups = {l1, l2}
  MaxSteps = 4
  Weight <- MCWeight
  ZoneBudget = 3
CONSTRAINT OneThingAtATime
INVARIANTS
  ItemsAreWhole
  NothingLingers
  CachesAddUp
  AllJudged
  PromisesStand
  PromptIsCovered
  CitesAreShown
