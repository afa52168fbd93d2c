SPECIFICATION Spec
CONSTANTS
  Threads = {s1, s2}
  Senders = {s1, s2}
  Verifiers = {}
  Passwords = {p1, p2}
  Blank = Blank
  Unusable = Unusable
  Nobody = Nobody
  MaxNonce = 4
INVARIANT SomeLinkWorks
CHECK_DEADLOCK FALSE
