-------------------------------- MODULE Wait --------------------------------
(***************************************************************************)
(* One call of the polling engine every resource handler waits with:       *)
(* wait.WaitFor (and retry.RetryOnErrors, which is WaitFor under another   *)
(* name) or wait.WaitForError, together with the loop of juju/retry they   *)
(* both configure.  Time is counted in seconds from the start of the call. *)
(***************************************************************************)
EXTENDS Integers, Sequences

CONSTANTS
  Kind,            \* "WaitFor" or "WaitForError"
  Data,            \* what GetData may return
  Errs,            \* the errors GetData and the assertions may return
  DataAssertions,  \* the caller's assertions: a sequence of functions on Data
  NonFatalErrors,  \* the errors the caller wants retried
  ExpectedErr,     \* WaitForError: the error waited for
  RetryAllErrors,  \* WaitForError: every other error is retried
  RetryReadError,  \* WaitForError: the error that stands for "no error yet"
  RetryConf,       \* the caller's durations, 0 where it leaves the default
  CallTimes,       \* how long one call of GetData may take
  CancelTimes,     \* when the context may be done (beyond the end: never)
  NoErr, NoData    \* a nil error, the zero value of the data

\* retryConfWithDefaults and retryConfWithDefaultsForError.
DefaultMaxDuration == IF Kind = "WaitFor" THEN 30 * 60 ELSE 15 * 60
OrDefault(value, default) == IF value = 0 THEN default ELSE value
MaxDuration == OrDefault(RetryConf.maxDuration, DefaultMaxDuration)
Delay       == OrDefault(RetryConf.delay, 1)
MaxDelay    == OrDefault(RetryConf.maxDelay, 60)

Outcomes == Errs \cup {NoErr}

ASSUME WaitAssumption ==
  /\ Kind \in {"WaitFor", "WaitForError"}
  /\ DataAssertions \in Seq([Data -> Outcomes])
  /\ NonFatalErrors \subseteq Errs
  /\ ExpectedErr \in Errs
  /\ RetryReadError \in Errs
  /\ RetryAllErrors \in BOOLEAN
  /\ NoErr \notin Errs
  /\ NoData \notin Data
  /\ RetryConf \in [maxDuration : Nat, delay : Nat, maxDelay : Nat]
  /\ CallTimes \subseteq Nat
  /\ CancelTimes \subseteq Nat

VARIABLES
  stage,    \* "call", "check", "sleep" or "returned"
  now,      \* seconds since the wait began
  attempt,  \* calls of GetData made so far
  delay,    \* the delay of the retry library, doubled by BackoffFunc
  wakeAt,   \* when the timer of the current sleep fires
  data,     \* what WaitFor will hand to its caller
  err,      \* what Func returned last
  got,      \* history: what GetData returned last, data and error
  result,   \* "none", "ok", "fatal", "durationExceeded" or "stopped"
  cancelAt  \* when the context of the call is done

waitVars == <<stage, now, attempt, delay, wakeAt, data, err, got, result, cancelAt>>

-----------------------------------------------------------------------------
\* Mutant: with no failure, the data is taken for the error.
FirstFailureOrData(d) ==
  LET failing == {i \in 1..Len(DataAssertions) : DataAssertions[i][d] # NoErr}
  IN  IF failing = {} THEN d ELSE RetryReadError

\* The error of the first assertion that fails on d, the ones after it not run.
FirstFailure(d) ==
  LET failing == {i \in 1..Len(DataAssertions) : DataAssertions[i][d] # NoErr}
  IN  IF failing = {} THEN NoErr
      ELSE DataAssertions[CHOOSE i \in failing : \A j \in failing : i <= j][d]

\* Mutant: the assertions are not run.
WaitForFuncUnasserted(d, e) == e

\* CallArgs.Func of the two waits, given what GetData returned.
WaitForFunc(d, e) == IF e = NoErr THEN FirstFailure(d) ELSE e

WaitForErrorFunc(e) ==
  IF e = NoErr THEN RetryReadError
  ELSE IF e = ExpectedErr THEN NoErr ELSE e

Func(d, e) == IF Kind = "WaitFor" THEN WaitForFunc(d, e) ELSE WaitForErrorFunc(e)

\* Mutant: the caller's non-fatal errors are forgotten.
IsFatalErrorUnlessRetryAll(e) == Kind = "WaitForError" => ~RetryAllErrors

\* Mutant: RetryAllErrors is forgotten.
IsFatalErrorUnlessListed(e) == e \notin NonFatalErrors

IsFatalError(e) ==
  /\ e \notin NonFatalErrors
  /\ Kind = "WaitForError" => ~RetryAllErrors

\* Mutant: no cap.
BackoffUncapped == IF attempt = 1 THEN delay ELSE 2 * delay

\* Mutant: the first delay is doubled from zero.
BackoffFromZero == IF attempt = 1 THEN 0 ELSE IF 2 * delay > MaxDelay THEN MaxDelay ELSE 2 * delay

\* retry.DoubleDelay, capped by MaxDelay.
Backoff ==
  LET doubled == IF attempt = 1 THEN delay ELSE 2 * delay
  IN  IF doubled > MaxDelay THEN MaxDelay ELSE doubled

-----------------------------------------------------------------------------
WaitInit ==
  /\ stage = "call" /\ now = 0 /\ attempt = 0 /\ delay = Delay /\ wakeAt = 0
  /\ data = NoData /\ err = NoErr /\ got = <<NoData, NoErr>>
  /\ result = "none"
  /\ cancelAt \in CancelTimes

\* One call of GetData, and of the assertions when it has no error.  Data comes
\* with a nil error only.
CallFunc(d, e, t) ==
  /\ stage = "call"
  /\ (e = NoErr) = (d # NoData)
  /\ got' = <<d, e>>
  /\ data' = IF Kind = "WaitFor" THEN d ELSE NoData
  /\ err' = Func(d, e)
  /\ now' = now + t
  /\ attempt' = attempt + 1
  /\ stage' = "check"
  /\ UNCHANGED <<delay, wakeAt, result, cancelAt>>

Return(r) ==
  /\ stage' = "returned"
  /\ result' = r
  /\ UNCHANGED <<attempt, wakeAt, data, err, got, cancelAt>>

Succeed == stage = "check" /\ err = NoErr /\ Return("ok") /\ UNCHANGED <<now, delay>>

Fail ==
  /\ stage = "check" /\ err # NoErr /\ IsFatalError(err)
  /\ Return("fatal")
  /\ UNCHANGED <<now, delay>>

Retriable == stage = "check" /\ err # NoErr /\ ~IsFatalError(err)

\* The next attempt could not begin within MaxDuration.
ExceedDuration ==
  /\ Retriable
  /\ delay' = Backoff
  /\ now + delay' > MaxDuration
  /\ Return("durationExceeded")
  /\ UNCHANGED now

\* Mutant: the remaining time is not looked at.
SleepPastTheEnd ==
  /\ Retriable
  /\ delay' = Backoff
  /\ wakeAt' = now + delay'
  /\ stage' = "sleep"
  /\ UNCHANGED <<now, attempt, data, err, got, result, cancelAt>>

Sleep ==
  /\ Retriable
  /\ delay' = Backoff
  /\ now + delay' <= MaxDuration
  /\ wakeAt' = now + delay'
  /\ stage' = "sleep"
  /\ UNCHANGED <<now, attempt, data, err, got, result, cancelAt>>

\* Mutant: the context is not looked at.
WakeRegardless ==
  /\ stage = "sleep"
  /\ now' = wakeAt
  /\ stage' = "call"
  /\ UNCHANGED <<attempt, delay, wakeAt, data, err, got, result, cancelAt>>

\* The select between Clock.After and Stop: when both are due, either wins.
Wake ==
  /\ stage = "sleep"
  /\ wakeAt <= cancelAt
  /\ now' = wakeAt
  /\ stage' = "call"
  /\ UNCHANGED <<attempt, delay, wakeAt, data, err, got, result, cancelAt>>

Stop ==
  /\ stage = "sleep"
  /\ cancelAt <= wakeAt
  /\ now' = IF now < cancelAt THEN cancelAt ELSE now
  /\ Return("stopped")
  /\ UNCHANGED delay

WaitNext ==
  \/ \E d \in Data \cup {NoData}, e \in Outcomes, t \in CallTimes : CallFunc(d, e, t)
  \/ Succeed \/ Fail \/ ExceedDuration \/ Sleep \/ Wake \/ Stop

\* The loop is ordinary sequential code: it runs as long as it can.
WaitSpec == WaitInit /\ [][WaitNext]_waitVars /\ WF_waitVars(WaitNext)
-----------------------------------------------------------------------------
WaitTypeOK ==
  /\ stage \in {"call", "check", "sleep", "returned"}
  /\ now \in Nat /\ attempt \in Nat /\ delay \in Nat /\ wakeAt \in Nat
  /\ data \in Data \cup {NoData}
  /\ err \in Outcomes
  /\ got \in (Data \cup {NoData}) \X Outcomes
  /\ result \in {"none", "ok", "fatal", "durationExceeded", "stopped"}
  /\ cancelAt \in CancelTimes

\* The time one call may take is the only thing that carries a wait past its
\* MaxDuration: an attempt never begins after it, whatever the delays and the
\* calls added up to.
AttemptsWithinDuration == stage \in {"call", "sleep"} => now <= MaxDuration

\* A wait that reports its duration exceeded used all of it but MaxDelay: the
\* doubled delay never makes it give up on most of the time it was given.
GivesUpLate == result = "durationExceeded" => now + MaxDelay > MaxDuration

\* The API is not hammered: however the calls go, n of them are spread over at
\* least n - 1 times the first delay (or MaxDelay, when that is smaller).
FirstDelay == IF Delay > MaxDelay THEN MaxDelay ELSE Delay
CallsSpread == attempt * FirstDelay <= now + FirstDelay

\* No attempt begins once the context is done, the first one excepted: a
\* cancelled apply leaves no handler polling.
CancelHonoured == stage = "call" /\ attempt > 0 => now <= cancelAt

\* WaitFor's caller acts on data it may trust: with a nil error every assertion
\* holds of the value returned, and not of one read before it.
ReturnedDataAsserted ==
  Kind = "WaitFor" /\ result = "ok" =>
    /\ data \in Data
    /\ \A i \in 1..Len(DataAssertions) : DataAssertions[i][data] = NoErr

-----------------------------------------------------------------------------
(***************************************************************************)
(* The engine implements the promise, for observations the caller can name *)
(* without knowing how Func folds them into one error.                     *)
(***************************************************************************)
Observed == (Data \X {NoErr}) \cup ({NoData} \X Errs)

MetObservations ==
  IF Kind = "WaitFor"
  THEN {o \in Data \X {NoErr} :
          \A i \in 1..Len(DataAssertions) : DataAssertions[i][o[1]] = NoErr}
  ELSE {NoData} \X {ExpectedErr}

\* The observations that stand for a non-fatal error: a read that failed with
\* one or whose first failing assertion returned one; for WaitForError, also
\* every successful read when RetryReadError is non-fatal.
RetriableObservations ==
  IF Kind = "WaitFor"
  THEN ({NoData} \X NonFatalErrors) \cup
       {o \in Data \X {NoErr} : FirstFailure(o[1]) \in NonFatalErrors}
  ELSE IF RetryAllErrors THEN Observed
  ELSE ({NoData} \X NonFatalErrors) \cup
       {o \in Data \X {NoErr} : RetryReadError \in NonFatalErrors}

Verdict ==
  CASE result = "ok" -> "met"
    [] result = "fatal" -> "failed"
    [] result \in {"durationExceeded", "stopped"} -> "gaveUp"
    [] OTHER -> "waiting"

Promise == INSTANCE WaitPromise WITH
  Met <- MetObservations,
  Retriable <- RetriableObservations,
  NotYet <- <<NoData, NoErr>>,
  seen <- got,
  verdict <- Verdict

\* Every call of WaitFor and WaitForError keeps the promise of WaitPromise, and
\* ends: a caller is never told "ready" of a system that is not, "failed" of
\* one it asked to look past, nor left without an answer.
KeepsPromise == Promise!Spec
=============================================================================
