SPECIFICATION Spec
CONSTANTS
  Requests = {r1, r2}
  Payloads = {upload, followup}
  InSession = {followup}
  FollowUps = {followup}
  NoPayload = NoPayload
  TTL = 1
  Longest = 2
  MaxTime = 3
  MaxOutputs = 2
  MaxBoots = 1
INVARIANT OneRunAtATime
CHECK_DEADLOCK FALSE
