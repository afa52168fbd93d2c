SPECIFICATION MCSpec
CONSTANTS
  Requests = {r1, r2, r3}
  MaxRequests = 1
  Window = 2
  Second = 2
  Delay = 12
  Buckets = 2
  MaxCounted = 3
  Logins = {l1, l2}
  LoginLimit = 2
  LoginWindow = 2
  LoginHorizon = 4
  WindowSeconds = 5
  BucketSeconds = 2
  MaxRecords = 2
  Lag = 2
  SeriesHorizon = 9
  MaxStored = 3
  Probes = {p1, p2}
  ReadinessTTL = 1
  Cooldown = 2
  AlertHorizon = 2
  None = None
  MaxStreams = 3
INVARIANTS MCTypeOK RefusedAtLimit WindowLimit AttemptsLimited
           SeriesCoverWindow NoSilentOutage
           StreamsTrue
SYMMETRY Symmetry
CHECK_DEADLOCK FALSE
