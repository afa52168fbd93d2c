SPECIFICATION HistorySpec
CONSTANTS
  HistorySessions = {h1, h2}
  NoSession = NoSession
  PageSize = 1
  MaxChanges = 2
  MaxRenames = 0
  MaxEffects = 2
INVARIANT LoadAllShowsAll
CHECK_DEADLOCK FALSE
