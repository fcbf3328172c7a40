SPECIFICATION Spec
CONSTANTS
  s1 = s1
  s2 = s2
  s3 = s3
  main = main
  sub = sub
  m1 = m1
  m2 = m2
  i1 = i1
  i2 = i2
  Accounts = {s1, s2, s3}
  Models = {m1, m2}
  Identities = {i1, i2}
  NoIdentity = NoIdentity
  NoAccount = NoAccount
  SignedIn <- MCSignedIn
  Serves <- MCServes
  Tier <- MCTier
  Priority <- MCPriority
  Ord <- MCOrd
  PreservePro = TRUE
  Span <- MCSpan
  Threads = {main, sub}
  NoThread = NoThread
  Parent <- MCParent
  ModelOf <- MCModelOf
  Requests = {r1}
  Ttl = 1
  InitialAffinity = FALSE
  AffinitySwitched = TRUE
  Failures = {"rate_limited", "transport", "overload", "fault", "http_5xx", "listed_auth", "other_auth"}
  AccountEvents = {"add", "remove", "delete", "repair", "replace", "quota", "credit", "meter", "clear"}
  MaxChanges = 2
INVARIANT OneServesPerIdentity HealthyCopyRepresents BestPlacementStays
PROPERTY LineageSettles SessionSettles
