\* The engine sees swaps in the pools of stored sessions.
SPECIFICATION Spec
CONSTANTS
  Tokens = {2, 3, 4}
  Base = {2, 3}
  Wrapped = 2
  Placeholder = 9
  Market <- Market_
  Asks <- Asks_
  MaxDrafts = 2
  MaxCalls = 2
  MaxSessions = 1
  Nothing = Nothing
INVARIANT
  SellsOnlyIntoBuys
CHECK_DEADLOCK FALSE
