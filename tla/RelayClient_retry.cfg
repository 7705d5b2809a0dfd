\* Two accounts, at most two requests at once, or a request and a copy; a property the code does not keep.
SPECIFICATION Spec
CONSTANTS
  Accounts = {a1, a2}
  None = None
  MaxTasks = 2
  MaxCopies = 1
  Unticks = FALSE
INVARIANT FailureOffersRetry
