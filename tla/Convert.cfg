SPECIFICATION MCSpec
CONSTANTS
  Requests = {r1, r2}
  Payloads = {upload, followup}
  InSession = {followup}
  FollowUps = {followup}
  NoPayload = NoPayload
  TTL = 2
  Longest = 1
  MaxTime = 3
  MaxOutputs = 2
  MaxBoots = 2
  Documents <- MCDocuments
  Answers = {1, 5}
  Sampled = 3
  PromptMax = 5
  ErrorCounts = {0, 1, 7}
  WarningCounts = {0, 60}
  Iterations = {0, 3}
  Patience = 1
  MaxEdits = 2
  MaxConversions = 3
  MaxDownloads = 2
  Accesses = {a1, a2, a3}
  NoFile = NoFile
  Outputs <- MCOutputs
  Formulas = {2}
  MaxSheetName = 3
  Posted <- MCPosted
  MaxFileSize = 2
  Overhead = 1
  MaxPages = 3
  EnoughText = 1
  CharsPerPage = 2
  WordsPerPage = 2
  BlocksPerPage = 2
INVARIANTS MCTypeOK OneRunAtATime LockHasRunner ReplayIsOriginal OutputsApart
  RefinementSound PageTrue
  WholeFilesOnly UndisturbedSucceeds OrphansAreExplained WinnersFileStays DeletedIsForgotten
  ExportFaithful UploadTrue
PROPERTY PromiseKept
SYMMETRY Symmetry
CHECK_DEADLOCK FALSE
