SPECIFICATION Spec
CONSTANTS
  s1 = s1
  s2 = s2
  m1 = m1
  i1 = i1
  Accounts = {s1, s2}
  Models = {m1}
  Identities = {i1}
  NoIdentity = NoIdentity
  NoAccount = NoAccount
  SignedIn <- MCSignedIn
  Serves <- MCServes
  Tier <- MCZero
  Priority <- MCZero
  Ord <- MCOrd
  PreservePro = FALSE
  Span <- MCSpan
  Requests = {r1, r2}
  MaxRetryAccounts = 0
  CapacityRounds = 1
  OverloadRetries = 1
  TransportRetries = 0
  FailoverAfter = 1
  LongWaits = TRUE
INVARIANT SendsBounded
PROPERTY BarredStaysBarred
SYMMETRY Symmetry
