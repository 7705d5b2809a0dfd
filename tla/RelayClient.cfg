\* Two accounts, at most two requests at once, or a request and a copy, and every request ends.
SPECIFICATION FairSpec
CONSTANTS
  Accounts = {a1, a2}
  None = None
  MaxTasks = 2
  MaxCopies = 1
  Unticks = FALSE
INVARIANTS
  ReloadKeepsProgress
  OneAtATime
PROPERTIES
  RetriesSameAccount
  Settles
