SPECIFICATION Spec
CONSTANTS
  s1 = s1
  s2 = s2
  w = w
  Slots = {s1, s2}
  WorkspaceOf <- MCWorkspaceOf
  Ord <- MCOrd
  None = None
  Gaps = {1}
  IdleGaps = {3}
  WakeDelays = {1}
  Graces = {2}
  Interval = 1
  Window = 2
  Spread = 0
  Late = 2
  Horizon = 3
PROPERTY NotDueAtOnce
