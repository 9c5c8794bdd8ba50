SPECIFICATION MailSpec
CONSTANTS
  reply = reply
  Ids = {reply}
  Editable = {reply}
  MaxVersions = 1
INVARIANTS
  NotDoubled
