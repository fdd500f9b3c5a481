SPECIFICATION WaitSpec
CONSTANTS
  pending = pending
  completed = completed
  failed = failed
  retryRead = retryRead
  notFound = notFound
  refused = refused
  actionFailed = actionFailed
  NoErr = NoErr
  NoData = NoData
  RetryReadError = retryRead
  ExpectedErr = notFound
  Errs <- MCErrs
  Kind = "WaitFor"
  Data <- ActionData
  DataAssertions <- ActionAssertions
  NonFatalErrors = {retryRead, refused}
  RetryAllErrors = FALSE
  RetryConf <- ShortConf
  CallTimes = {0, 1, 4}
  CancelTimes = {3, 7, 100}
INVARIANTS
  WaitTypeOK
  AttemptsWithinDuration
  GivesUpLate
  CallsSpread
  CancelHonoured
  ReturnedDataAsserted
PROPERTY KeepsPromise
CHECK_DEADLOCK FALSE
