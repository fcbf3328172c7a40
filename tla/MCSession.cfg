SPECIFICATION Spec
CONSTANTS
  Accounts = {a1, a2}
  Direct = {a1, a2}
  Sockets = {u1, u2}
  Responses = {r1, r2}
  Warmups = {}
  Pins = {p1, p2}
  None = None
  Attempts = 2
  Drops = 1
  MaxHeld = 1
  Reviewer = TRUE
  Overlap = FALSE
  Stray = {"life"}
SYMMETRY Symmetry
INVARIANT RunningIsActive DrainExact OneSocketCarries NobodyForgotten
PROPERTY FailuresHeldBack
CHECK_DEADLOCK FALSE
