SPECIFICATION MCSpec
CONSTANTS
  Undefined = Undefined
  NaN = NaN
  N = 4
  OptionSets <- MCOptions
  a = a
  b = b
  Keys = {a, b}
  Batches <- MCBatches
  Multiline = FALSE
  Metadata = TRUE
  Retries = 3
  Agents = {a1, a2}
  Registrations = {r1}
  Lifetime = 1
  MaxTime = 1
  Calls = {c1, c2}
  Tenants = {t1, t2}
  Provider = t1
  ListMaxTime = 2
  Executions = {e1, e2, e3}
INVARIANTS AllTypes ResolvedMeansSent SequentialStopsAtFailure OpenWhileSending ResultMatchesRequest ReadsSeeEarlierWrites BrokenOnlyAtThird ListsOfOneAccount OneTokenPerRequest
PROPERTIES MailSettles
CHECK_DEADLOCK FALSE
