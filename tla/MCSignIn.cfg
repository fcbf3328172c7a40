SPECIFICATION Spec
CONSTANTS
  i1 = i1
  i2 = i2
  named = named
  unnamed = unnamed
  elsewhere = elsewhere
  Slots = {s1}
  Jobs = {j1, j2}
  Identities = {i1, i2}
  None = None
  Credentials = {named, unnamed, elsewhere}
  Missing = Missing
  Names <- MCNames
  Acts <- MCActs
  MaxReadings = 1
INVARIANT OneSignIn RestartSafe
PROPERTY RepairStartsClean FrozenIdentity PublicRepairExact
SYMMETRY Symmetry
