SPECIFICATION Spec
CONSTANTS
  Handlers = {h1, h2}
  Credits = {c1, c2}
  Ids = {i1, i2, i3}
  None = None
  Expires = FALSE
PROPERTY RetrySpendsOnce
CHECK_DEADLOCK FALSE
