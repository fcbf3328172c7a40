SPECIFICATION Spec
CONSTANTS
  s1 = s1
  s2 = s2
  s3 = s3
  main = main
  sub = sub
  m1 = m1
  m2 = m2
  i1 = i1
  i2 = i2
  Accounts = {s1, s2, s3}
  Models = {m1, m2}
  Identities = {i1, i2}
  NoIdentity = NoIdentity
  NoAccount = NoAccount
  SignedIn <- MCSignedIn
  Serves <- MCServes
  Tier <- MCTier
  Priority <- MCPriority
  Ord <- MCOrd
  PreservePro = TRUE
  Span <- MCSpan
  Threads = {main, sub}
  NoThread = NoThread
  Parent <- MCParent
  ModelOf <- MCModelOf
  Requests = {r1, r2}
  Ttl = 2
  InitialAffinity = TRUE
  AffinitySwitched = FALSE
  Failures = {"rate_limited"}
  AccountEvents = {"add", "remove"}
  MaxChanges = 2
INVARIANT LineageOutlivesMembers DistinctIdentitiesTried
PROPERTY ImplementsLineagePin
SYMMETRY Symmetry
