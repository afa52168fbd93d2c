SPECIFICATION MCSpec
CONSTANTS
  Threads = {sender, verifier, other}
  Senders = {sender}
  Verifiers = {verifier}
  Passwords = {p1, p2}
  Blank = Blank
  Unusable = Unusable
  Nobody = Nobody
  MaxNonce = 5
  Recorders = {e1}
  Readers = {s1, s2}
  StatsTTL = 1
  SnapshotTTL = 1
  Stall = 1
  StatsHorizon = 3
  Nothing = Nothing
  SchemaRequests = {q1, q2}
  SchemaNames = {n1, n2, n3, n4}
  NoName = NoName
  MaxSchemas = 2
  MaxIds = 4
  MaxAsked = 3
INVARIANTS MCTypeOK LastLinkWorks LinkUsedOnce BoundedStaleness FreshUnlessRaced
  SchemasTrue
SYMMETRY Symmetry
PROPERTIES VerifiedForGood ReregistrationSparesVerified
CHECK_DEADLOCK FALSE
