---------------------------- MODULE ClientProofs ----------------------------
(***************************************************************************)
(* What the handlers of every resource are built on, the polling engine    *)
(* and the model cache of the shared client, guarantees whatever the       *)
(* handlers do; and what the action resource guarantees, which waits with  *)
(* that engine for its action to be enqueued and to complete.              *)
(***************************************************************************)
EXTENDS Wait, ModelCache, Action, WellFoundedInduction, TLAPS

-----------------------------------------------------------------------------
(***************************************************************************)
(* One call of WaitFor or WaitForError, for every configuration a caller   *)
(* can pass: any data, errors, assertions, durations, call times and       *)
(* cancellation.  The invariant relates the delay, the clock and what the  *)
(* loop remembers of the last call of GetData.                             *)
(***************************************************************************)

\* The delay is the configured one until the first backoff has capped it.
DelayInv ==
  \/ delay = Delay /\ attempt = 0
  \/ delay = Delay /\ attempt = 1 /\ stage \in {"check", "returned"}
  \/ attempt > 0 /\ FirstDelay <= delay /\ delay <= MaxDelay

\* Where the clock stands at each point of the loop.
ClockInv ==
  /\ stage = "call" => now <= MaxDuration
  /\ stage = "call" /\ attempt > 0 => attempt * FirstDelay <= now /\ now <= cancelAt
  /\ stage = "sleep" =>
       wakeAt = now + delay /\ wakeAt <= MaxDuration /\ attempt > 0
       /\ FirstDelay <= delay
  /\ attempt * FirstDelay <= now + FirstDelay
  /\ GivesUpLate

\* What the loop remembers of the last call of GetData.
ObservationInv ==
  /\ attempt = 0 <=> got = <<NoData, NoErr>>
  /\ attempt = 0 => stage = "call"
  /\ attempt > 0 =>
       /\ err = Func(got[1], got[2])
       /\ (got[2] = NoErr) = (got[1] # NoData)
       /\ Kind = "WaitFor" => data = got[1]
  /\ stage \in {"call", "sleep"} /\ attempt > 0 => err # NoErr /\ ~IsFatalError(err)
  /\ (stage = "returned") = (result # "none")
  /\ result = "ok" => err = NoErr
  /\ result = "fatal" => err # NoErr /\ IsFatalError(err)
  /\ result \in {"durationExceeded", "stopped"} => err # NoErr /\ ~IsFatalError(err)

WaitInv == WaitTypeOK /\ DelayInv /\ ClockInv /\ ObservationInv

-----------------------------------------------------------------------------
\* The defaults leave no duration at zero.
LEMMA Durations ==
  /\ MaxDuration \in Nat \ {0} /\ Delay \in Nat \ {0} /\ MaxDelay \in Nat \ {0}
  /\ FirstDelay \in Nat \ {0} /\ FirstDelay <= Delay /\ FirstDelay <= MaxDelay
<1> RetryConf \in [maxDuration : Nat, delay : Nat, maxDelay : Nat]
  BY WaitAssumption
<1>1. DefaultMaxDuration \in Nat \ {0}
  BY DEF DefaultMaxDuration
<1>2. MaxDuration \in Nat \ {0}
  BY <1>1 DEF MaxDuration, OrDefault
<1>3. Delay \in Nat \ {0} /\ MaxDelay \in Nat \ {0}
  BY DEF Delay, MaxDelay, OrDefault
<1> QED BY <1>2, <1>3 DEF FirstDelay

\* Every nonempty set of naturals has a least element.
LEMMA LeastNat ==
  ASSUME NEW T, T \subseteq Nat, T # {}
  PROVE  \E x \in T : \A y \in T : x <= y
<1>1. \E x \in T : \A y \in T : ~(<<y, x>> \in OpToRel(<, Nat))
  BY NatLessThanWellFounded, WFMin, Zenon
<1>2. PICK x \in T : \A y \in T : ~(<<y, x>> \in OpToRel(<, Nat))
  BY <1>1
<1>3. \A y \in T : x <= y
  <2> TAKE y \in T
  <2>1. <<y, x>> \notin {ss \in Nat \X Nat : ss[1] < ss[2]}
    BY <1>2 DEF OpToRel
  <2> QED BY <2>1
<1> QED BY <1>3

\* FirstFailure is nil exactly when no assertion fails, and an outcome always.
LEMMA FirstFailureCorrect ==
  ASSUME NEW d \in Data
  PROVE  /\ FirstFailure(d) \in Outcomes
         /\ FirstFailure(d) = NoErr
              <=> \A i \in 1..Len(DataAssertions) : DataAssertions[i][d] = NoErr
<1> DEFINE failing == {i \in 1..Len(DataAssertions) : DataAssertions[i][d] # NoErr}
<1>1. \A i \in 1..Len(DataAssertions) : DataAssertions[i][d] \in Outcomes
  BY WaitAssumption
<1>2. CASE failing = {}
  <2>1. FirstFailure(d) = NoErr
    BY <1>2 DEF FirstFailure
  <2>2. \A i \in 1..Len(DataAssertions) : DataAssertions[i][d] = NoErr
    BY <1>2
  <2> QED BY <2>1, <2>2 DEF Outcomes
<1>3. CASE failing # {}
  <2>1. failing \subseteq Nat
    OBVIOUS
  <2>2. \E i \in failing : \A j \in failing : i <= j
    BY <1>3, <2>1, LeastNat
  <2> DEFINE least == CHOOSE i \in failing : \A j \in failing : i <= j
  <2>3. least \in failing
    BY <2>2
  <2>4. FirstFailure(d) = DataAssertions[least][d]
    BY <1>3 DEF FirstFailure
  <2> QED BY <1>1, <2>3, <2>4
<1> QED BY <1>2, <1>3

\* Func returns nil or one of the errors.
LEMMA FuncType ==
  ASSUME NEW d \in Data \cup {NoData}, NEW e \in Outcomes, (e = NoErr) = (d # NoData)
  PROVE  Func(d, e) \in Outcomes
BY FirstFailureCorrect, WaitAssumption DEF Func, WaitForFunc, WaitForErrorFunc, Outcomes

\* A backoff never leaves the range between FirstDelay and MaxDelay.
LEMMA BackoffRange ==
  ASSUME WaitTypeOK, DelayInv, attempt > 0
  PROVE  Backoff \in Nat /\ FirstDelay <= Backoff /\ Backoff <= MaxDelay
BY Durations DEF WaitTypeOK, DelayInv, Backoff, FirstDelay

-----------------------------------------------------------------------------
LEMMA InitWaitInv == WaitInit => WaitInv
<1> SUFFICES ASSUME WaitInit PROVE WaitInv
  OBVIOUS
<1>1. WaitTypeOK
  BY Durations, WaitAssumption DEF WaitInit, WaitTypeOK, Outcomes
<1>2. DelayInv
  BY DEF WaitInit, DelayInv
<1>3. ClockInv
  BY Durations DEF WaitInit, ClockInv, GivesUpLate
<1>4. ObservationInv
  BY DEF WaitInit, ObservationInv
<1> QED BY <1>1, <1>2, <1>3, <1>4 DEF WaitInv

LEMMA StepWaitInv == WaitInv /\ [WaitNext]_waitVars => WaitInv'
<1> SUFFICES ASSUME WaitInv, [WaitNext]_waitVars PROVE WaitInv'
  OBVIOUS
<1> USE DEF WaitInv
<1>1. ASSUME NEW d \in Data \cup {NoData}, NEW e \in Outcomes, NEW t \in CallTimes,
             CallFunc(d, e, t)
      PROVE  WaitInv'
  <2>1. t \in Nat
    BY WaitAssumption
  <2>2. WaitTypeOK'
    BY <1>1, <2>1, FuncType DEF CallFunc, WaitTypeOK
  <2>3. DelayInv'
    BY <1>1 DEF CallFunc, DelayInv, WaitTypeOK
  <2>4. ClockInv'
    <3>1. (attempt + 1) * FirstDelay = attempt * FirstDelay + FirstDelay
      BY Durations DEF WaitTypeOK
    <3>2. attempt = 0 => attempt * FirstDelay = 0
      BY Durations
    <3>3. attempt * FirstDelay \in Nat
      BY Durations DEF WaitTypeOK
    <3>4. attempt * FirstDelay <= now
      BY <1>1, <3>2 DEF CallFunc, ClockInv, WaitTypeOK
    <3>5. result' = "none"
      BY <1>1 DEF CallFunc, ObservationInv
    <3> QED BY <1>1, <2>1, <3>1, <3>3, <3>4, <3>5, Durations
            DEF CallFunc, ClockInv, GivesUpLate, WaitTypeOK
  <2>5. ObservationInv'
    <3>1. got' # <<NoData, NoErr>>
      BY <1>1 DEF CallFunc
    <3> QED BY <1>1, <3>1 DEF CallFunc, ObservationInv, WaitTypeOK
  <2> QED BY <2>2, <2>3, <2>4, <2>5
<1>2. CASE Succeed
  BY <1>2 DEF Succeed, Return, WaitTypeOK, DelayInv, ClockInv, GivesUpLate, ObservationInv
<1>3. CASE Fail
  BY <1>3 DEF Fail, Return, WaitTypeOK, DelayInv, ClockInv, GivesUpLate, ObservationInv,
              IsFatalError
<1>4. ASSUME Retriable PROVE attempt > 0
  BY <1>4 DEF Retriable, ObservationInv, WaitTypeOK
<1>5. CASE ExceedDuration
  <2>1. delay' \in Nat /\ FirstDelay <= delay' /\ delay' <= MaxDelay /\ attempt > 0
    BY <1>4, <1>5, BackoffRange DEF ExceedDuration
  <2>2. WaitTypeOK'
    BY <1>5, <2>1 DEF ExceedDuration, Return, WaitTypeOK
  <2>3. DelayInv'
    BY <1>5, <2>1 DEF ExceedDuration, Return, DelayInv
  <2>4. ClockInv'
    BY <1>5, <2>1, Durations DEF ExceedDuration, Return, ClockInv, GivesUpLate, WaitTypeOK
  <2>5. ObservationInv'
    BY <1>5, <2>1 DEF ExceedDuration, Return, Retriable, ObservationInv, IsFatalError
  <2> QED BY <2>2, <2>3, <2>4, <2>5
<1>6. CASE Sleep
  <2>1. delay' \in Nat /\ FirstDelay <= delay' /\ delay' <= MaxDelay /\ attempt > 0
    BY <1>4, <1>6, BackoffRange DEF Sleep
  <2>2. WaitTypeOK'
    BY <1>6, <2>1 DEF Sleep, WaitTypeOK
  <2>3. DelayInv'
    BY <1>6, <2>1 DEF Sleep, DelayInv
  <2>4. ClockInv'
    BY <1>6, <2>1 DEF Sleep, Retriable, ClockInv, GivesUpLate
  <2>5. ObservationInv'
    BY <1>6, <2>1 DEF Sleep, Retriable, ObservationInv, IsFatalError
  <2> QED BY <2>2, <2>3, <2>4, <2>5
<1>7. CASE Wake
  <2>1. WaitTypeOK'
    BY <1>7 DEF Wake, WaitTypeOK
  <2>2. DelayInv'
    BY <1>7 DEF Wake, DelayInv, ClockInv, WaitTypeOK
  <2>3. ClockInv'
    <3>1. attempt * FirstDelay \in Nat
      BY Durations DEF WaitTypeOK
    <3>2. result = "none"
      BY <1>7 DEF Wake, ObservationInv
    <3> QED BY <1>7, <3>1, <3>2, Durations, WaitAssumption
            DEF Wake, ClockInv, GivesUpLate, WaitTypeOK
  <2>4. ObservationInv'
    BY <1>7 DEF Wake, ObservationInv, ClockInv, IsFatalError
  <2> QED BY <2>1, <2>2, <2>3, <2>4
<1>8. CASE Stop
  <2>1. cancelAt \in Nat
    BY WaitAssumption DEF WaitTypeOK
  <2>2. WaitTypeOK'
    BY <1>8, <2>1 DEF Stop, Return, WaitTypeOK
  <2>3. DelayInv'
    BY <1>8 DEF Stop, Return, DelayInv
  <2>4. ClockInv'
    <3>1. attempt * FirstDelay \in Nat
      BY Durations DEF WaitTypeOK
    <3> QED BY <1>8, <2>1, <3>1, Durations
            DEF Stop, Return, ClockInv, GivesUpLate, WaitTypeOK
  <2>5. ObservationInv'
    BY <1>8 DEF Stop, Return, ObservationInv, ClockInv, IsFatalError
  <2> QED BY <2>2, <2>3, <2>4, <2>5
<1>9. CASE UNCHANGED waitVars
  BY <1>9 DEF waitVars, WaitTypeOK, DelayInv, ClockInv, GivesUpLate, ObservationInv, IsFatalError
<1> QED BY <1>1, <1>2, <1>3, <1>5, <1>6, <1>7, <1>8, <1>9 DEF WaitNext

LEMMA WaitInvHolds == WaitSpec => []WaitInv
BY InitWaitInv, StepWaitInv, PTL DEF WaitSpec

\* Type correctness of one call of the polling engine.
THEOREM WaitTypeCorrect == WaitSpec => []WaitTypeOK
<1>1. WaitInv => WaitTypeOK
  BY DEF WaitInv
<1> QED BY <1>1, WaitInvHolds, PTL

\* No attempt of WaitFor or WaitForError begins, and no sleep is entered, after
\* the maximum duration, for any durations, call times and errors.
THEOREM WaitIsBounded == WaitSpec => []AttemptsWithinDuration
<1>1. WaitInv => AttemptsWithinDuration
  BY Durations DEF WaitInv, ClockInv, AttemptsWithinDuration, WaitTypeOK
<1> QED BY <1>1, WaitInvHolds, PTL

\* A wait reports its duration exceeded only when less than MaxDelay was left.
THEOREM WaitGivesUpLate == WaitSpec => []GivesUpLate
<1>1. WaitInv => GivesUpLate
  BY DEF WaitInv, ClockInv
<1> QED BY <1>1, WaitInvHolds, PTL

\* The number of calls a wait makes is bounded by the time it has been running.
THEOREM WaitSpreadsCalls == WaitSpec => []CallsSpread
<1>1. WaitInv => CallsSpread
  BY DEF WaitInv, ClockInv, CallsSpread
<1> QED BY <1>1, WaitInvHolds, PTL

\* After the context is done no further attempt begins.
THEOREM WaitHonoursCancel == WaitSpec => []CancelHonoured
<1>1. WaitInv => CancelHonoured
  BY DEF WaitInv, ClockInv, CancelHonoured
<1> QED BY <1>1, WaitInvHolds, PTL

\* The data WaitFor returns without an error meets every assertion.
THEOREM WaitReturnsAssertedData == WaitSpec => []ReturnedDataAsserted
<1>1. WaitInv => ReturnedDataAsserted
  <2> SUFFICES ASSUME WaitInv, Kind = "WaitFor", result = "ok"
               PROVE  /\ data \in Data
                      /\ \A i \in 1..Len(DataAssertions) : DataAssertions[i][data] = NoErr
    BY DEF ReturnedDataAsserted
  <2>1. attempt > 0 /\ err = NoErr
    BY DEF WaitInv, ObservationInv, WaitTypeOK
  <2>2. WaitForFunc(got[1], got[2]) = NoErr /\ data = got[1]
    BY <2>1 DEF WaitInv, ObservationInv, Func
  <2>3. got[2] = NoErr /\ got[1] # NoData
    BY <2>1, <2>2 DEF WaitInv, ObservationInv, WaitForFunc
  <2>4. data \in Data /\ FirstFailure(data) = NoErr
    BY <2>2, <2>3 DEF WaitInv, WaitTypeOK, WaitForFunc
  <2> QED BY <2>4, FirstFailureCorrect
<1> QED BY <1>1, WaitInvHolds, PTL

-----------------------------------------------------------------------------
\* How Func and IsFatalError sort what GetData returns is how the promise names
\* it: met, retriable, or neither.
LEMMA ObservationSorted ==
  ASSUME NEW d \in Data \cup {NoData}, NEW e \in Outcomes, (e = NoErr) = (d # NoData)
  PROVE  /\ Func(d, e) = NoErr <=> <<d, e>> \in MetObservations
         /\ Func(d, e) # NoErr =>
              (IsFatalError(Func(d, e)) <=> <<d, e>> \notin RetriableObservations)
<1> DEFINE o == <<d, e>>
<1>0. o[1] = d /\ o[2] = e
  OBVIOUS
<1>1. CASE Kind = "WaitFor" /\ e = NoErr
  <2>1. d \in Data /\ o \in Data \X {NoErr} /\ o \notin {NoData} \X NonFatalErrors
    BY <1>1, WaitAssumption
  <2>2. o \in MetObservations
          <=> \A i \in 1..Len(DataAssertions) : DataAssertions[i][d] = NoErr
    BY <1>0, <1>1, <2>1 DEF MetObservations
  <2>3. o \in RetriableObservations <=> FirstFailure(d) \in NonFatalErrors
    BY <1>0, <1>1, <2>1 DEF RetriableObservations
  <2>4. Func(d, e) = FirstFailure(d)
    BY <1>1 DEF Func, WaitForFunc
  <2>5. IsFatalError(Func(d, e)) <=> FirstFailure(d) \notin NonFatalErrors
    BY <1>1, <2>4 DEF IsFatalError
  <2> QED BY <2>1, <2>2, <2>3, <2>4, <2>5, FirstFailureCorrect
<1>2. CASE Kind = "WaitFor" /\ e # NoErr
  <2>1. d = NoData /\ o \notin Data \X {NoErr}
    BY <1>2
  <2>2. o \notin MetObservations
    BY <1>2, <2>1 DEF MetObservations
  <2>3. o \in RetriableObservations <=> e \in NonFatalErrors
    BY <1>2, <2>1 DEF RetriableObservations
  <2>4. Func(d, e) = e
    BY <1>2 DEF Func, WaitForFunc
  <2>5. IsFatalError(Func(d, e)) <=> e \notin NonFatalErrors
    BY <1>2, <2>4 DEF IsFatalError
  <2> QED BY <1>2, <2>2, <2>3, <2>4, <2>5
<1>3. CASE Kind = "WaitForError"
  <2>1. Kind # "WaitFor" /\ NoErr \notin Errs
    BY <1>3, WaitAssumption
  <2>2. o \in MetObservations <=> e = ExpectedErr
    BY <2>1, WaitAssumption DEF MetObservations
  <2>3. Func(d, e) = NoErr <=> e = ExpectedErr
    BY <2>1, WaitAssumption DEF Func, WaitForErrorFunc
  <2>4. CASE RetryAllErrors
    <3>1. o \in RetriableObservations
      BY <2>1, <2>4 DEF RetriableObservations, Observed, Outcomes
    <3>2. ~IsFatalError(Func(d, e))
      BY <1>3, <2>4 DEF IsFatalError
    <3> QED BY <2>2, <2>3, <3>1, <3>2
  <2>5. CASE ~RetryAllErrors /\ e = NoErr
    <3>1. d \in Data /\ o \in Data \X {NoErr} /\ o \notin {NoData} \X NonFatalErrors
      BY <2>5, WaitAssumption
    <3>2. o \in RetriableObservations <=> RetryReadError \in NonFatalErrors
      BY <2>1, <2>5, <3>1 DEF RetriableObservations
    <3>3. IsFatalError(Func(d, e)) <=> RetryReadError \notin NonFatalErrors
      BY <1>3, <2>1, <2>5 DEF Func, WaitForErrorFunc, IsFatalError
    <3> QED BY <2>2, <2>3, <3>2, <3>3
  <2>6. CASE ~RetryAllErrors /\ e # NoErr
    <3>1. d = NoData /\ o \notin Data \X {NoErr}
      BY <2>6
    <3>2. o \in RetriableObservations <=> e \in NonFatalErrors
      BY <2>1, <2>6, <3>1 DEF RetriableObservations
    <3>3. e # ExpectedErr => Func(d, e) = e
      BY <2>1, <2>6 DEF Func, WaitForErrorFunc
    <3>4. e # ExpectedErr => (IsFatalError(Func(d, e)) <=> e \notin NonFatalErrors)
      BY <1>3, <2>6, <3>3 DEF IsFatalError
    <3> QED BY <2>2, <2>3, <3>2, <3>4
  <2> QED BY <2>4, <2>5, <2>6
<1> QED BY <1>1, <1>2, <1>3, WaitAssumption

LEMMA PromiseInit == WaitInit => Promise!Init
BY DEF WaitInit, Promise!Init, Verdict

LEMMA PromiseStep ==
  WaitInv /\ WaitInv' /\ [WaitNext]_waitVars => [Promise!Next]_(Promise!promiseVars)
<1> SUFFICES ASSUME WaitInv, WaitInv', [WaitNext]_waitVars
             PROVE  Promise!Next \/ (got' = got /\ Verdict' = Verdict)
  BY DEF Promise!promiseVars
<1>1. got[1] \in Data \cup {NoData} /\ got[2] \in Outcomes /\ got = <<got[1], got[2]>>
  BY DEF WaitInv, WaitTypeOK
<1>2. ASSUME attempt > 0
      PROVE  /\ err = NoErr <=> got \in MetObservations
             /\ err # NoErr => (IsFatalError(err) <=> got \notin RetriableObservations)
             /\ got # <<NoData, NoErr>>
  BY <1>1, <1>2, ObservationSorted DEF WaitInv, ObservationInv, WaitTypeOK
<1>3. stage # "returned" => Verdict = "waiting"
  BY DEF WaitInv, ObservationInv, Verdict
<1>4. stage = "check" \/ stage = "sleep" => attempt > 0
  BY DEF WaitInv, ObservationInv, WaitTypeOK
<1>5. ASSUME NEW d \in Data \cup {NoData}, NEW e \in Outcomes, NEW t \in CallTimes,
             CallFunc(d, e, t)
      PROVE  Promise!Next
  <2>1. Verdict = "waiting" /\ Verdict' = Verdict
    BY <1>5, <1>3 DEF CallFunc, Verdict
  <2>2. got = <<NoData, NoErr>> \/ got \in RetriableObservations \ MetObservations
    <3>1. CASE attempt = 0
      BY <3>1 DEF WaitInv, ObservationInv
    <3>2. CASE attempt > 0
      BY <1>2, <1>5, <3>2 DEF CallFunc, WaitInv, ObservationInv
    <3> QED BY <3>1, <3>2 DEF WaitInv, WaitTypeOK
  <2>3. got' # <<NoData, NoErr>>
    BY <1>5 DEF CallFunc
  <2> QED BY <2>1, <2>2, <2>3 DEF Promise!Next, Promise!Observe
<1>6. CASE Succeed
  <2>1. Verdict = "waiting" /\ Verdict' = "met" /\ got' = got /\ got \in MetObservations
    BY <1>2, <1>3, <1>4, <1>6 DEF Succeed, Return, Verdict
  <2> QED BY <2>1 DEF Promise!Next, Promise!Succeed
<1>7. CASE Fail
  <2>1. Verdict = "waiting" /\ Verdict' = "failed" /\ got' = got
    BY <1>3, <1>7 DEF Fail, Return, Verdict
  <2>2. got \notin MetObservations \cup RetriableObservations \cup {<<NoData, NoErr>>}
    BY <1>2, <1>4, <1>7 DEF Fail
  <2> QED BY <2>1, <2>2 DEF Promise!Next, Promise!Fail
<1>8. ASSUME ExceedDuration \/ Stop PROVE Promise!Next
  <2>1. Verdict = "waiting" /\ Verdict' = "gaveUp" /\ got' = got
    BY <1>3, <1>8 DEF ExceedDuration, Retriable, Stop, Return, Verdict
  <2>2. attempt > 0 /\ err # NoErr /\ ~IsFatalError(err)
    BY <1>4, <1>8 DEF ExceedDuration, Retriable, Stop, WaitInv, ObservationInv
  <2> QED BY <1>2, <2>1, <2>2 DEF Promise!Next, Promise!GiveUp
<1>9. CASE Sleep \/ Wake \/ UNCHANGED waitVars
  BY <1>9 DEF Sleep, Wake, waitVars, Verdict
<1> QED BY <1>5, <1>6, <1>7, <1>8, <1>9 DEF WaitNext

\* Every wait keeps the safety part of WaitPromise: success is reported only of
\* an observation that meets the condition, failure only of one the caller did
\* not ask to look past, and nothing is given up that could not be retried.
THEOREM WaitKeepsPromise == WaitSpec => Promise!SafeSpec
BY PromiseInit, PromiseStep, WaitInvHolds, PTL DEF WaitSpec, Promise!SafeSpec

-----------------------------------------------------------------------------
(***************************************************************************)
(* The model cache, for any number of handlers and models.  The invariant  *)
(* says who may touch an entry (ClaimInv), that a reader works under the   *)
(* mutex on a cache filled before (MutexInv), and what the fill leaves in  *)
(* the cache (FillInv).                                                    *)
(***************************************************************************)

Claims == {"adding", "removing", "waiting"}
Holds  == {"filling", "storing", "reading"}

\* One handler at a time has its hands on a model, and what it does agrees with
\* the history: a model being removed is neither known nor left alone.
ClaimInv ==
  /\ \A h, g \in Handlers :
       doing[h] \in Claims /\ doing[g] \in Claims /\ arg[h] = arg[g] => h = g
  /\ \A h \in Handlers :
       /\ doing[h] # "idle" => arg[h] \in UUIDs
       /\ doing[h] \in Claims => controller[arg[h]] # "never"
       /\ doing[h] = "adding" => arg[h] \notin removed
       /\ doing[h] = "removing" => arg[h] \notin known /\ arg[h] \notin prior
       /\ doing[h] = "waiting" => arg[h] \in removed
  /\ destroyed \subseteq removed
  /\ \A u \in removed : controller[u] # "never"
  /\ \A u \in prior : controller[u] = "alive"

MutexInv ==
  \A h \in Handlers :
    /\ doing[h] \in Holds => mutex = h
    /\ doing[h] = "reading" => once
    /\ doing[h] \in {"filling", "storing"} => ~once

FillInv ==
  /\ ~once => removed \subseteq early
  /\ \A u \in cache \cup listed : controller[u] # "never"
  /\ ~fillFailed => /\ once => prior \subseteq cache
                    /\ \A h \in Handlers : doing[h] = "storing" => prior \subseteq listed

\* At most one model of a name is neither to come nor destroyed.
NameInv ==
  \A u, v \in UUIDs :
    /\ NameOf[u] = NameOf[v]
    /\ controller[u] # "never" /\ controller[v] # "never"
    /\ u \notin destroyed /\ v \notin destroyed
    => u = v

CacheInv ==
  /\ CacheTypeOK /\ ClaimInv /\ MutexInv /\ FillInv /\ NameInv
  /\ KnownModelsCached /\ RemovedModelsUncached

-----------------------------------------------------------------------------
LEMMA InitCacheInv == CacheInit => CacheInv
<1> SUFFICES ASSUME CacheInit PROVE CacheInv
  OBVIOUS
<1> USE ModelCacheAssumption
<1>1. CacheTypeOK
  BY DEF CacheInit, CacheTypeOK
<1>2. ClaimInv /\ MutexInv
  BY DEF CacheInit, ClaimInv, MutexInv, Claims, Holds
<1>3. FillInv
  BY DEF CacheInit, FillInv
<1>4. NameInv
  BY DEF CacheInit, NameInv, Present
<1>5. KnownModelsCached /\ RemovedModelsUncached
  BY DEF CacheInit, KnownModelsCached, RemovedModelsUncached
<1> QED BY <1>1, <1>2, <1>3, <1>4, <1>5 DEF CacheInv

LEMMA StepCacheType == CacheInv /\ [CacheNext]_cacheVars => CacheTypeOK'
<1> SUFFICES ASSUME CacheInv, [CacheNext]_cacheVars PROVE CacheTypeOK'
  OBVIOUS
<1> USE ModelCacheAssumption DEF CacheInv, CacheTypeOK, cacheHistory
<1>0. \A h \in Handlers : doing[h] # "idle" => arg[h] \in UUIDs
  BY DEF ClaimInv
<1>1. ASSUME NEW h \in Handlers, NEW u \in UUIDs, CreateModel(h, u) PROVE CacheTypeOK'
  BY <1>1 DEF CreateModel, Begin, Goto
<1>2. ASSUME NEW h \in Handlers, NEW u \in UUIDs, ReadModel(h, u) PROVE CacheTypeOK'
  BY <1>2 DEF ReadModel, Begin, Goto
<1>3. ASSUME NEW h \in Handlers, NEW u \in UUIDs, DestroyModel(h, u) PROVE CacheTypeOK'
  BY <1>3 DEF DestroyModel, Begin, Goto
<1>4. ASSUME NEW h \in Handlers, NEW u \in UUIDs, Lookup(h, u) PROVE CacheTypeOK'
  BY <1>4 DEF Lookup, Begin, Goto
<1>5. ASSUME NEW h \in Handlers, Step(h) PROVE CacheTypeOK'
  <2>1. CASE AddModel(h) \/ RemoveModel(h) \/ FinishDestroy(h) \/ GiveUp(h)
    BY <1>0, <2>1 DEF AddModel, RemoveModel, FinishDestroy, GiveUp, Finish, Goto
  <2>2. CASE ListModels(h) \/ StoreModels(h) \/ FillFails(h)
    BY <2>2 DEF ListModels, StoreModels, FillFails, Goto
  <2>3. CASE AnswerByUUID(h) \/ AnswerByName(h)
    BY <2>3 DEF AnswerByUUID, AnswerByName, NamedAs, Answer, Finish, Goto
  <2> QED BY <1>5, <2>1, <2>2, <2>3 DEF Step
<1>6. ASSUME NEW u \in UUIDs, ModelGone(u) PROVE CacheTypeOK'
  BY <1>6 DEF ModelGone
<1>7. CASE UNCHANGED cacheVars
  BY <1>7 DEF cacheVars
<1> QED BY <1>1, <1>2, <1>3, <1>4, <1>5, <1>6, <1>7 DEF CacheNext

LEMMA StepCacheInv == CacheInv /\ [CacheNext]_cacheVars => CacheInv'
<1> SUFFICES ASSUME CacheInv, [CacheNext]_cacheVars PROVE CacheInv'
  OBVIOUS
<1>0. CacheTypeOK'
  BY StepCacheType DEF CacheInv
<1> DEFINE Rest == /\ ClaimInv /\ MutexInv /\ FillInv /\ NameInv
                   /\ KnownModelsCached /\ RemovedModelsUncached
<1> USE ModelCacheAssumption
    DEF CacheInv, CacheTypeOK, ClaimInv, MutexInv, FillInv, NameInv, KnownModelsCached,
        RemovedModelsUncached, Claims, Holds, cacheHistory
<1>1. ASSUME NEW h \in Handlers, NEW u \in UUIDs, CreateModel(h, u) PROVE Rest'
  <2> USE <1>1 DEF CreateModel, Begin, Goto, Idle
  <2>1. ClaimInv' OBVIOUS
  <2>2. MutexInv' /\ FillInv' OBVIOUS
  <2>3. NameInv' OBVIOUS
  <2> QED BY <2>1, <2>2, <2>3
<1>2. ASSUME NEW h \in Handlers, NEW u \in UUIDs, ReadModel(h, u) PROVE Rest'
  <2> USE <1>2 DEF ReadModel, Begin, Goto, Idle, Claimed, Present
  <2>1. ClaimInv' OBVIOUS
  <2>2. MutexInv' /\ FillInv' /\ NameInv' OBVIOUS
  <2> QED BY <2>1, <2>2
<1>3. ASSUME NEW h \in Handlers, NEW u \in UUIDs, DestroyModel(h, u) PROVE Rest'
  <2> USE <1>3 DEF DestroyModel, Begin, Goto, Idle, Claimed
  <2>1. ClaimInv' OBVIOUS
  <2>2. MutexInv' OBVIOUS
  <2>3. FillInv' OBVIOUS
  <2>4. NameInv' OBVIOUS
  <2> QED BY <2>1, <2>2, <2>3, <2>4
<1>4. ASSUME NEW h \in Handlers, NEW u \in UUIDs, Lookup(h, u) PROVE Rest'
  <2> USE <1>4 DEF Lookup, Begin, Goto, Idle
  <2>1. ClaimInv' OBVIOUS
  <2>2. MutexInv' OBVIOUS
  <2>3. FillInv' /\ NameInv' OBVIOUS
  <2> QED BY <2>1, <2>2, <2>3
<1>5. ASSUME NEW h \in Handlers, AddModel(h) PROVE Rest'
  BY <1>5 DEF AddModel, Finish, Goto
<1>6. ASSUME NEW h \in Handlers, RemoveModel(h) PROVE Rest'
  <2> USE <1>6 DEF RemoveModel, Goto
  <2>1. ClaimInv' OBVIOUS
  <2>2. MutexInv' /\ FillInv' /\ NameInv' OBVIOUS
  <2> QED BY <2>1, <2>2
<1>7. ASSUME NEW h \in Handlers, FinishDestroy(h) \/ GiveUp(h) PROVE Rest'
  <2> USE <1>7 DEF FinishDestroy, GiveUp, Finish, Goto
  <2>1. ClaimInv' OBVIOUS
  <2>2. MutexInv' /\ FillInv' OBVIOUS
  <2>3. NameInv' OBVIOUS
  <2> QED BY <2>1, <2>2, <2>3
<1>8. ASSUME NEW h \in Handlers, ListModels(h) PROVE Rest'
  <2> USE <1>8 DEF ListModels, Goto, Present
  <2>1. ClaimInv' /\ MutexInv' OBVIOUS
  <2>2. FillInv' /\ NameInv' OBVIOUS
  <2> QED BY <2>1, <2>2
<1>9. ASSUME NEW h \in Handlers, StoreModels(h) PROVE Rest'
  <2> USE <1>9 DEF StoreModels, Goto
  <2>1. ClaimInv' OBVIOUS
  <2>2. MutexInv' OBVIOUS
  <2>3. FillInv' /\ NameInv' OBVIOUS
  <2> QED BY <2>1, <2>2, <2>3
<1>10. ASSUME NEW h \in Handlers, FillFails(h) PROVE Rest'
  <2> USE <1>10 DEF FillFails, Goto
  <2>1. ClaimInv' OBVIOUS
  <2>2. MutexInv' OBVIOUS
  <2>3. FillInv' /\ NameInv' OBVIOUS
  <2> QED BY <2>1, <2>2, <2>3
<1>11. ASSUME NEW h \in Handlers, AnswerByUUID(h) \/ AnswerByName(h) PROVE Rest'
  <2>1. PICK found : Answer(h, found)
    BY <1>11 DEF AnswerByUUID, AnswerByName
  <2> USE <2>1 DEF Answer, Finish, Goto
  <2>2. ClaimInv' OBVIOUS
  <2>3. MutexInv' OBVIOUS
  <2>4. FillInv' /\ NameInv' OBVIOUS
  <2> QED BY <2>2, <2>3, <2>4
<1>12. ASSUME NEW u \in UUIDs, ModelGone(u) PROVE Rest'
  <2> USE <1>12 DEF ModelGone
  <2>1. ClaimInv' OBVIOUS
  <2>2. MutexInv' /\ FillInv' /\ NameInv' OBVIOUS
  <2> QED BY <2>1, <2>2
<1>13. CASE UNCHANGED cacheVars
  BY <1>13 DEF cacheVars, cacheHistory
<1>14. Rest'
  BY <1>1, <1>2, <1>3, <1>4, <1>5, <1>6, <1>7, <1>8, <1>9, <1>10, <1>11, <1>12, <1>13
     DEF CacheNext, Step
<1> QED BY <1>0, <1>14

LEMMA CacheInvHolds == CacheSpec => []CacheInv
BY InitCacheInv, StepCacheInv, PTL DEF CacheSpec

-----------------------------------------------------------------------------
\* Every variable of the cache keeps its type.
THEOREM ModelCacheTypeCorrect == CacheSpec => []CacheTypeOK
<1>1. CacheInv => CacheTypeOK
  BY DEF CacheInv
<1> QED BY <1>1, CacheInvHolds, PTL

\* AddModel and RemoveModel against the fill (client.go:422-499): a model this
\* process created or read is never lost from the cache.
THEOREM KnownModelsStay == CacheSpec => []KnownModelsCached
<1>1. CacheInv => KnownModelsCached
  BY DEF CacheInv
<1> QED BY <1>1, CacheInvHolds, PTL

\* Once the cache is filled, RemoveModel (client.go:466) is final.
THEOREM RemovedModelsStayOut == CacheSpec => []RemovedModelsUncached
<1>1. CacheInv => RemovedModelsUncached
  BY DEF CacheInv
<1> QED BY <1>1, CacheInvHolds, PTL

\* Unless the fill failed, no lookup misses a model that was there when the
\* process began (modelCacheOnce, client.go:378-388).
THEOREM PriorModelsAreFound == CacheSpec => PriorModelsFound
<1>1. CacheInv /\ [CacheNext]_cacheVars =>
        \A h \in Handlers :
          /\ doing[h] = "reading" /\ doing'[h] = "idle"
          /\ arg[h] \in prior /\ ~fillFailed
          => answer' # {}
  <2> SUFFICES ASSUME CacheInv, [CacheNext]_cacheVars, NEW h \in Handlers,
                      doing[h] = "reading", doing'[h] = "idle", arg[h] \in prior, ~fillFailed
               PROVE  answer' # {}
    OBVIOUS
  <2>1. arg[h] \in cache
    BY DEF CacheInv, MutexInv, FillInv
  <2>2. ~UNCHANGED cacheVars
    BY DEF cacheVars
  <2>3. AnswerByUUID(h) \/ AnswerByName(h)
    <3> USE DEF CacheInv, CacheTypeOK
    <3>1. ASSUME NEW g \in Handlers, NEW u \in UUIDs,
                 CreateModel(g, u) \/ ReadModel(g, u) \/ DestroyModel(g, u) \/ Lookup(g, u)
          PROVE  FALSE
      BY <3>1 DEF CreateModel, ReadModel, DestroyModel, Lookup, Begin, Goto, Idle
    <3>2. ASSUME NEW g \in Handlers, Step(g), g # h PROVE FALSE
      <4>1. doing'[h] = doing[h]
        BY <3>2 DEF Step, AddModel, RemoveModel, FinishDestroy, GiveUp, ListModels, StoreModels,
                    FillFails, AnswerByUUID, AnswerByName, Answer, Finish, Goto
      <4> QED BY <4>1
    <3>3. ASSUME NEW u \in UUIDs, ModelGone(u) PROVE FALSE
      BY <3>3 DEF ModelGone
    <3>4. Step(h)
      BY <2>2, <3>1, <3>2, <3>3 DEF CacheNext
    <3> QED BY <3>4 DEF Step, AddModel, RemoveModel, FinishDestroy, GiveUp, ListModels,
                        StoreModels, FillFails
  <2>4. CASE AnswerByUUID(h)
    BY <2>1, <2>4 DEF AnswerByUUID, Answer
  <2>5. CASE AnswerByName(h)
    <3>1. arg[h] \in NamedAs(h)
      BY <2>1 DEF NamedAs
    <3> QED BY <2>5, <3>1 DEF AnswerByName, Answer
  <2> QED BY <2>3, <2>4, <2>5
<1> QED BY <1>1, CacheInvHolds, PTL DEF CacheSpec, PriorModelsFound

\* When no model of its name was removed before the fill, ModelUUID answers with
\* the model that replaced a destroyed one (client.go:403-420).
THEOREM ReplacementIsFound == CacheSpec => ReplacementFound
<1>1. CacheInv /\ [CacheNext]_cacheVars =>
        \A h \in Handlers, u \in known :
          /\ AnswerByName(h)
          /\ controller[u] = "alive" /\ NameOf[u] = NameOf[arg[h]]
          /\ \A v \in early : NameOf[v] # NameOf[u]
          => answer' = {u}
  <2> SUFFICES ASSUME CacheInv, NEW h \in Handlers, NEW u \in known, AnswerByName(h),
                      controller[u] = "alive", NameOf[u] = NameOf[arg[h]],
                      \A v \in early : NameOf[v] # NameOf[u]
               PROVE  answer' = {u}
    OBVIOUS
  <2>1. u \in NamedAs(h)
    BY DEF CacheInv, KnownModelsCached, NamedAs
  <2>2. ASSUME NEW v \in NamedAs(h) PROVE v = u
    BY <2>1, <2>2 DEF CacheInv, CacheTypeOK, NamedAs, NameInv, FillInv, ClaimInv, RemovedModelsUncached
  <2>3. PICK v \in NamedAs(h) : Answer(h, {v})
    BY <2>1 DEF AnswerByName
  <2> QED BY <2>2, <2>3 DEF Answer
<1> QED BY <1>1, CacheInvHolds, PTL DEF CacheSpec, ReplacementFound

-----------------------------------------------------------------------------
(***************************************************************************)
(* The action resource, over any number of applies and actions.  The       *)
(* invariant follows the ID of an action from the answer of the controller *)
(* to the response of Create and on to the state.                          *)
(***************************************************************************)

\* Where the resource and the response of Create are at each point of an apply.
ControlInv ==
  /\ pc \in {"read", "plan"} => actionID # None /\ response = None
  /\ pc \in {"resolve", "enqueue"} => actionID = None /\ response = None
  /\ pc = "wait" => actionID = None
  /\ pc = "idle" => response = None
  /\ actionID = None => output = None
  /\ actionID # None => actions[actionID] # "none"
  /\ response # None => actions[response] # "none"

\* Who still knows an action: its Create, or the state.
KnownInv ==
  /\ Enqueued \subseteq lost \cup recorded \cup {response}
  /\ actionID # None => actionID \in recorded
  /\ Unfinished \subseteq lost \cup {response, actionID}
  /\ pc = "plan" => actionID \notin Unfinished

IInv == TypeOK /\ ControlInv /\ KnownInv /\ OutputIsTheResult

-----------------------------------------------------------------------------
LEMMA InitIInv == Init => IInv
BY ActionAssumption
   DEF Init, IInv, TypeOK, ControlInv, KnownInv, OutputIsTheResult, Enqueued, Unfinished, Done

\* The ID the controller gives is a new one.
LEMMA NextIdIsNew ==
  ASSUME Ids \ Enqueued # {}
  PROVE  NextId \in Ids /\ actions[NextId] = "none"
BY DEF NextId, Enqueued

\* An accepted action is pending, and nothing else on the controller changes.
LEMMA AcceptedAdds ==
  ASSUME IInv, Accepted
  PROVE  /\ NextId \in Ids /\ actions[NextId] = "none" /\ NextId # None
         /\ Enqueued' = Enqueued \cup {NextId}
         /\ Unfinished' = Unfinished \cup {NextId}
         /\ Unfinished \subseteq lost /\ Enqueued \subseteq lost \cup recorded
         /\ actions' \in [Ids -> {"none", "pending", "running", "failed", "pruned"} \cup Done]
<1>1. NextId \in Ids /\ actions[NextId] = "none" /\ NextId # None
  BY NextIdIsNew, ActionAssumption DEF Accepted
<1>2. actions' = [actions EXCEPT ![NextId] = "pending"]
  BY DEF Accepted
<1>3. \A i \in Ids : actions'[i] = IF i = NextId THEN "pending" ELSE actions[i]
  BY <1>2 DEF IInv, TypeOK
<1>4. Enqueued' = Enqueued \cup {NextId}
  BY <1>1, <1>3 DEF Enqueued
<1>5. Unfinished' = Unfinished \cup {NextId}
  BY <1>1, <1>3 DEF Unfinished
<1>6. Unfinished \subseteq lost /\ Enqueued \subseteq lost \cup recorded
  <2>1. None \notin Unfinished /\ None \notin Enqueued
    BY ActionAssumption DEF Unfinished, Enqueued
  <2> QED BY <2>1 DEF IInv, ControlInv, KnownInv, Accepted
<1>7. actions' \in [Ids -> {"none", "pending", "running", "failed", "pruned"} \cup Done]
  BY <1>1, <1>2 DEF IInv, TypeOK
<1> QED BY <1>1, <1>4, <1>5, <1>6, <1>7

LEMMA ApplyIInv ==
  ASSUME IInv,
         BeginApply \/ ReadKeeps \/ ReadResult \/ ReadFails \/ Plan
         \/ ResolveLeaderUnit \/ CreateFails \/ Crash
  PROVE  IInv'
<1> USE ActionAssumption DEF IInv, TypeOK, ControlInv, KnownInv, OutputIsTheResult,
        Enqueued, Unfinished, End, world, tfstate, history
<1>1. CASE BeginApply
  BY <1>1 DEF BeginApply
<1>2. CASE ReadKeeps
  BY <1>2 DEF ReadKeeps
<1>3. CASE ReadResult
  BY <1>3 DEF ReadResult, assertActionCompleted, OutputOf, Done
<1>4. CASE ReadFails
  BY <1>4 DEF ReadFails
<1>5. CASE Plan
  BY <1>5 DEF Plan
<1>6. CASE ResolveLeaderUnit
  BY <1>6 DEF ResolveLeaderUnit
<1>7. CASE CreateFails
  BY <1>7 DEF CreateFails
<1>8. CASE Crash
  BY <1>8 DEF Crash
<1> QED BY <1>1, <1>2, <1>3, <1>4, <1>5, <1>6, <1>7, <1>8

LEMMA CreateIInv ==
  ASSUME IInv, EnqueueAction \/ EnqueueAnswerLost \/ CreateResult \/ CreateWaitFails
  PROVE  IInv'
<1>1. CASE EnqueueAction
  <2>1. Accepted
    BY <1>1 DEF EnqueueAction
  <2>2. TypeOK'
    BY <1>1, <2>1, AcceptedAdds DEF EnqueueAction, IInv, TypeOK, tfstate, history
  <2>3. ControlInv'
    BY <1>1, <2>1, AcceptedAdds, ActionAssumption
       DEF EnqueueAction, Accepted, IInv, TypeOK, ControlInv, tfstate, history
  <2>4. KnownInv' /\ OutputIsTheResult'
    BY <1>1, <2>1, AcceptedAdds
       DEF EnqueueAction, Accepted, IInv, KnownInv, ControlInv, OutputIsTheResult, tfstate, history
  <2> QED BY <2>2, <2>3, <2>4 DEF IInv
<1>2. CASE EnqueueAnswerLost
  <2>1. Accepted
    BY <1>2 DEF EnqueueAnswerLost
  <2>2. TypeOK'
    BY <1>2, <2>1, AcceptedAdds DEF EnqueueAnswerLost, End, IInv, TypeOK, tfstate
  <2>3. ControlInv'
    BY <1>2, <2>1, AcceptedAdds, ActionAssumption
       DEF EnqueueAnswerLost, Accepted, End, IInv, TypeOK, ControlInv, tfstate
  <2>4. KnownInv' /\ OutputIsTheResult'
    BY <1>2, <2>1, AcceptedAdds
       DEF EnqueueAnswerLost, Accepted, End, IInv, KnownInv, ControlInv, OutputIsTheResult, tfstate
  <2> QED BY <2>2, <2>3, <2>4 DEF IInv
<1> USE ActionAssumption DEF IInv, TypeOK, ControlInv, KnownInv, OutputIsTheResult,
        Enqueued, Unfinished, End, world, tfstate, history
<1>3. CASE CreateResult
  BY <1>3 DEF CreateResult, assertActionCompleted, OutputOf, Done
<1>4. CASE CreateWaitFails
  BY <1>4 DEF CreateWaitFails
<1> QED BY <1>1, <1>2, <1>3, <1>4

LEMMA WorldIInv ==
  ASSUME IInv, Install \/ (\E i \in Ids : Run(i) \/ Prune(i)) \/ (\E u \in Units \cup {None} : Elect(u))
  PROVE  IInv'
<1> USE ActionAssumption DEF IInv, TypeOK, ControlInv, KnownInv, OutputIsTheResult,
        Enqueued, Unfinished, Done, tfstate, history
<1>1. CASE Install
  BY <1>1 DEF Install
<1>2. ASSUME NEW i \in Ids, Run(i) PROVE IInv'
  BY <1>2 DEF Run
<1>3. ASSUME NEW i \in Ids, Prune(i) PROVE IInv'
  BY <1>3 DEF Prune
<1>4. ASSUME NEW u \in Units \cup {None}, Elect(u) PROVE IInv'
  BY <1>4 DEF Elect
<1> QED BY <1>1, <1>2, <1>3, <1>4

LEMMA IInvStep == IInv /\ [Next]_vars => IInv'
<1> SUFFICES ASSUME IInv, [Next]_vars PROVE IInv'
  OBVIOUS
<1>1. CASE Next
  BY <1>1, ApplyIInv, CreateIInv, WorldIInv DEF Next, ApplyStep
<1>2. CASE UNCHANGED vars
  BY <1>2 DEF vars, IInv, TypeOK, ControlInv, KnownInv, OutputIsTheResult, Enqueued, Unfinished
<1> QED BY <1>1, <1>2

LEMMA IInvHolds == Spec => []IInv
BY InitIInv, IInvStep, PTL DEF Spec

-----------------------------------------------------------------------------
\* The variables of the action resource keep their types; a unit is chosen before
\* an action is enqueued for it.
THEOREM ActionTypeCorrect == Spec => []TypeOK
<1>1. IInv => TypeOK
  BY DEF IInv
<1> QED BY <1>1, IInvHolds, PTL

\* Create and Read (resource_action.go:149-277) put no output in the state but the
\* one of the completed action the state names.
THEOREM OutputIsAlwaysTheResult == Spec => []OutputIsTheResult
<1>1. IInv => OutputIsTheResult
  BY DEF IInv
<1> QED BY <1>1, IInvHolds, PTL

\* The action ID is put in the response before the wait (resource_action.go:221-228):
\* whatever fails after, the state names the action.
THEOREM EnqueuedIsAlwaysRecorded == Spec => []EnqueuedIsRecorded
<1>1. IInv => EnqueuedIsRecorded
  BY ActionAssumption DEF IInv, ControlInv, KnownInv, EnqueuedIsRecorded, Enqueued
<1> QED BY <1>1, IInvHolds, PTL

\* Read's wait for a missing result (resource_action.go:262-275) keeps Create from
\* enqueuing a second action while one the state has named is still to finish.
THEOREM ActionsDoNotOverlap == Spec => NoOverlap
<1>1. IInv /\ [Next]_vars =>
        \A i \in Ids : actions[i] = "none" /\ actions'[i] # "none" => Unfinished \subseteq lost
  <2> SUFFICES ASSUME IInv, [Next]_vars, NEW i \in Ids,
                      actions[i] = "none", actions'[i] # "none"
               PROVE  Unfinished \subseteq lost
    OBVIOUS
  <2>1. CASE Accepted
    BY <2>1, AcceptedAdds
  <2>2. ASSUME ~Accepted PROVE FALSE
    <3>1. ASSUME NEW j \in Ids, Run(j) \/ Prune(j) PROVE actions'[i] = actions[i]
      BY <3>1 DEF Run, Prune, Done, IInv, TypeOK
    <3>2. CASE ApplyStep \/ BeginApply \/ Crash
      BY <2>2, <3>2 DEF ApplyStep, BeginApply, ReadKeeps, ReadResult, ReadFails, Plan,
         ResolveLeaderUnit, CreateFails, EnqueueAction, EnqueueAnswerLost, CreateResult,
         CreateWaitFails, Crash, world
    <3>3. CASE Install \/ \E u \in Units \cup {None} : Elect(u)
      BY <3>3 DEF Install, Elect
    <3>4. CASE UNCHANGED vars
      BY <3>4 DEF vars
    <3> QED BY <3>1, <3>2, <3>3, <3>4 DEF Next
  <2> QED BY <2>1, <2>2
<1> QED BY <1>1, IInvHolds, PTL DEF Spec, NoOverlap
=============================================================================
