SPECIFICATION MCSpec
CONSTANTS
  any = any
  Tree <- Listing
  Top = "top"
  Selections <- SetSelections
  Filters <- SetFilters
  Archives = {"a", "b"}
  Passwords = {"p", "q"}
  Destinations = {"d"}
  Blank = "blank"
  Passing <- PassingInputs
  Conflicts <- FoundConflicts
  Users = {u, v}
  NoUser = NoUser
  Numbers = {1}
  NoId = NoId
  MaxJobs = 4
  MaxSessions = 4
  MayAsk = FALSE
  Watching = FALSE
  Ids = {}
INVARIANT OfferedBelongsToAccount
CHECK_DEADLOCK FALSE
