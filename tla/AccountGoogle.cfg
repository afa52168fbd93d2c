SPECIFICATION Spec
CONSTANTS
  Threads = {sender, verifier, other}
  Senders = {sender}
  Verifiers = {verifier}
  Passwords = {p1, p2}
  Blank = Blank
  Unusable = Unusable
  Nobody = Nobody
  MaxNonce = 4
INVARIANT GoogleUserSetsPassword
CHECK_DEADLOCK FALSE
