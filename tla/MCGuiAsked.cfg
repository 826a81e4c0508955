SPECIFICATION MCSpec
CONSTANTS
  any = any
  Tree <- Listing
  Top = "top"
  Selections <- SetSelections
  Filters <- SetFilters
  Archives = {"a", "b"}
  Passwords = {"p", "q"}
  Destinations = {"d"}
  Blank = "blank"
  Passing <- PassingInputs
  Conflicts <- FoundConflicts
  Users = {u, v}
  NoUser = NoUser
  Numbers = {1}
  NoId = NoId
  MaxJobs = 3
  MaxSessions = 3
  MayAsk = TRUE
  Watching = TRUE
  Ids <- TypedIds
INVARIANT JobsBelongToSession
CHECK_DEADLOCK FALSE
