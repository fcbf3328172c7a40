SPECIFICATION Spec
CONSTANTS
  None = None
  NoRequest = NoRequest
  Requests <- MCRequestsSet
  Verbosity = TRUE
  Added = {"prompt_cache_retention"}
  Apps = {"long", "x2", "x3"}
  Spoken = {"hello"}
  Says <- MCSays
  Limit = 2
  MaxItems <- MCMaxItems
  Clients <- MCClients
  Catalogs <- MCCatalogs
  Talks = {t1, t2}
  Calls = {c1, c2, c3}
  Knowable = {c1, c2}
  LogLimit = 2
INVARIANT CompletedIsCodex NativeTools
PROPERTY OneThread AnswersStand
CHECK_DEADLOCK FALSE
