SPECIFICATION FairSpec
CONSTANTS
  s1 = s1
  s2 = s2
  m1 = m1
  i1 = i1
  Accounts = {s1, s2}
  Models = {m1}
  Identities = {i1}
  NoIdentity = NoIdentity
  NoAccount = NoAccount
  SignedIn <- MCSignedIn
  Serves <- MCServes
  Tier <- MCZero
  Priority <- MCZero
  Ord <- MCOrd
  PreservePro = FALSE
  Span <- MCSpan
  Requests = {r1}
  MaxRetryAccounts = 0
  CapacityRounds = 2
  OverloadRetries = 1
  TransportRetries = 1
  FailoverAfter = 2
  LongWaits = TRUE
PROPERTY RequestsEnd
