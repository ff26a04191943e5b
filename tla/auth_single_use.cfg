SPECIFICATION Spec
CONSTANTS
  Requests = {r1, r2}
  VerifyTokens = {v1}
  ResetTokens = {x1}
  Passwords = {p1, p2}
  MaxApplied = 2
  None = None
INVARIANTS SingleUse
