\* A mail whose draft may be edited twice, and an agent's effect, which may not.
SPECIFICATION FairSpec
CONSTANTS
  mail = mail
  effect = effect
  Ids = {mail, effect}
  Editable = {mail}
  MaxVersions = 3
INVARIANTS
  HandedOutOnce
  
  
  ReportFindsItsAction
PROPERTIES
  ApprovalKept
  
  NothingHangs
