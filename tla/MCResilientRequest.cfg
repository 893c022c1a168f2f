SPECIFICATION FairSpec
CONSTANTS
  Undefined = Undefined
  c1 = c1
  c2 = c2
  c3 = c3
  t1 = t1
  Calls = {c1, c2, c3}
  Uri <- MCUri
  TenantId <- MCTenantId
  Retries <- MCRetries
  UseBreaker <- All
  UseTimeout <- NotC3
  WithCsrf <- OnlyC1
  VolumeThreshold = 2
  ErrorThresholdPercentage = 50
INVARIANTS TypeOK BlockedByOwnFailures
PROPERTIES KeepsContract AnswerIsFinal Settles TrialEnds
CHECK_DEADLOCK FALSE
