SPECIFICATION MCSpec
CONSTANTS
  Requests = {r1, r2}
  Browsers = {laptop}
  AccessLife = 1
  RefreshLife = 2
  MaxTime = 3
  MaxSignOuts = 2
  MaxBoots = 2
  HistorySessions = {h1, h2}
  NoSession = NoSession
  PageSize = 2
  MaxChanges = 2
  MaxRenames = 1
  MaxEffects = 2
INVARIANTS SignedOutStaysOut HistoryTrue
PROPERTIES RetiredStaysRetired RefusedOnlyWhenOver
SYMMETRY Symmetry
CHECK_DEADLOCK FALSE
