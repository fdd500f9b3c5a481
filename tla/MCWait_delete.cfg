SPECIFICATION WaitSpec
CONSTANTS
  pending = pending
  completed = completed
  failed = failed
  retryRead = retryRead
  notFound = notFound
  refused = refused
  actionFailed = actionFailed
  NoErr = NoErr
  NoData = NoData
  RetryReadError = retryRead
  ExpectedErr = notFound
  Errs <- MCErrs
  Kind = "WaitForError"
  Data <- ActionData
  DataAssertions <- NoAssertions
  NonFatalErrors = {}
  RetryAllErrors = TRUE
  RetryConf <- DefaultConf
  CallTimes = {0, 45}
  CancelTimes = {7, 60, 5000}
PROPERTY KeepsPromise
CHECK_DEADLOCK FALSE
