SPECIFICATION Spec
CONSTANTS
  Threads = {sender, v1, v2}
  Senders = {sender}
  Verifiers = {v1, v2}
  Passwords = {p1, p2}
  Blank = Blank
  Unusable = Unusable
  Nobody = Nobody
  MaxNonce = 4
INVARIANT LinkUsedOnce
CHECK_DEADLOCK FALSE
