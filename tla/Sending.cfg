\* One reply, edited up to twice, also while an older draft is on its way.
SPECIFICATION FairMailSpec
CONSTANTS
  reply = reply
  Ids = {reply}
  Editable = {reply}
  MaxVersions = 3
INVARIANTS
  SentOnce
  
  
PROPERTIES
  ApprovedEnds
