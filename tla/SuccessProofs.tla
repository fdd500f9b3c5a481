---------------------------- MODULE SuccessProofs ----------------------------
(***************************************************************************)
(* What an apply that has succeeded leaves, whatever came before it: every *)
(* object that the state names is there as the configuration asks for it,  *)
(* and reading it gives back the state that is planned, so that there is   *)
(* nothing left to apply.  Both are followed from the calls that a handler *)
(* has still to make: what is asked for is in the object, or is to come of *)
(* one of them.  That it is so of a Create follows from its configuration; *)
(* of an Update it takes what the state tells of the object, what Read has *)
(* found of it, and what is known of the fields that Read does not see.    *)
(***************************************************************************)
EXTENDS HandlerProofs, FiniteSetTheorems

-----------------------------------------------------------------------------
(* The parts of the inductive invariant.                                   *)

\* What Read has found before an Update.
SeenInv ==
  pc = "update" /\ calls = <<>> /\ Alone =>
    \A k \in Own : (kind # "credential" => there[k] # None) /\ (there[k] # None => Visible(tfstate, there[k]))

\* What is asked for is there, or comes of the calls still to be made.
GetsInv ==
  pc \in {"create", "update"} /\ calls # <<>> =>
    /\ SoftLast(calls)
    /\ AtWork(calls) /\ Alone => Gets(calls, there, wanted)

\* The fields that Read does not see: they come of the calls still to be made; they
\* are as the state and the configuration have them, where these agree; and as the
\* state has them, unless a change is pending.
Pending == "failed" \in touched \/ pc = "update" \/ ("since" \in touched /\ kind \in {"secret", "model"})
ComingInv == Sighted /\ pc \in {"create", "update"} /\ calls # <<>> /\ AtWork(calls) => Keeps(calls, there, wanted)
HoldingInv ==
  Sighted /\ tfstate # None /\ ~tainted /\ wanted # None =>
    \A k \in Own : there[k] # None => Holds(tfstate, wanted, there[k])
TruthInv ==
  Sighted /\ tfstate # None /\ ~tainted /\ ~Pending =>
    \A k \in Own : there[k] # None => Truthful(tfstate, there[k])
SinceInv == wanted = None /\ "since" \in touched => "unseen" \in touched
HeedingInv == Sighted /\ pc = "update" => \A c \in ToSet(calls) : Heeds(c, tfstate, wanted)
LeavingInv == pc = "delete" /\ kind \in Hiding => \A c \in ToSet(calls) : c.op \notin Setting \cup Renaming
RenewingInv ==
  kind \in {"user", "secret_backend"} /\ pc \in {"create", "update"} =>
    \A c \in ToSet(calls) : c.op = "returns" => \A x \in HiddenFields : c.val[In(x)] = wanted[In(x)]
HiddenInv ==
  ComingInv /\ HoldingInv /\ TruthInv /\ SinceInv /\ HeedingInv /\ LeavingInv /\ RenewingInv

\* What there is of an application while it is made, and of its endpoint "new".
Charmed == kind = "application" /\ "unseen" \notin touched
WholeAppInv == Charmed /\ tfstate # None /\ ~tainted => \A k \in Own : there[k] # None => AppWhole(there[k])
AppCallsInv ==
  Charmed /\ pc \in {"create", "update"} =>
    \A c \in ToSet(calls) : AppCall(c) /\ (pc = "create" => c.op # "set") /\ (pc = "update" => c.op \notin Making)
MadeAppInv ==
  Charmed /\ pc = "create" /\ calls # <<>> =>
    calls[1].op \in Making \cup {"fails"} \/ \A k \in Ends(calls) : there[k] # None => AppWhole(there[k])
NewAppInv ==
  Charmed /\ pc = "update" /\ calls = <<>> =>
    \A k \in Own : there[k] # None /\ tfstate.revision # 2 => there[k].new = None
BindingInv == Charmed /\ pc = "update" => \A k \in Own : there[k] # None => HasNew(calls, there[k])
AppInv == WholeAppInv /\ AppCallsInv /\ MadeAppInv /\ NewAppInv /\ BindingInv

SuccessInv ==
  /\ last # "no" => calls = <<>> /\ tfstate # None /\ wanted # None
  /\ SuccessIsTrue

-----------------------------------------------------------------------------
(* What the kind alone tells stays.                                        *)

LEMMA KindKept ==
  ASSUME kind' = kind
  PROVE  /\ HiddenFields' = HiddenFields /\ StateFields' = StateFields /\ FieldsOf' = FieldsOf
         /\ \A x : In(x)' = In(x)
         /\ \A s : KeysOf(s)' = KeysOf(s)
         /\ \A s : Stated(s)' = Stated(s)
         /\ \A cs : Ends(cs)' = Ends(cs)
         /\ \A w : Asked(w)' = Asked(w)
         /\ \A s : Proper(s)' <=> Proper(s)
         /\ \A obj : Whole(obj)' <=> Whole(obj)
         /\ \A x, v, y : Allows(x, v, y)' <=> Allows(x, v, y)
         /\ \A s, obj : Visible(s, obj)' <=> Visible(s, obj)
<1>1. HiddenFields' = HiddenFields /\ StateFields' = StateFields /\ FieldsOf' = FieldsOf
  BY DEF HiddenFields, StateFields, FieldsOf
<1>2. \A x : In(x)' = In(x)
  BY DEF In
<1>3. \A s : KeysOf(s)' = KeysOf(s)
  BY DEF KeysOf
<1>4. \A s : Stated(s)' = Stated(s)
  BY <1>3 DEF Stated
<1>5. \A cs : Ends(cs)' = Ends(cs)
  BY <1>3 DEF Ends
<1>6. \A w : Asked(w)' = Asked(w)
  BY DEF Asked
<1>7. \A s : Proper(s)' <=> Proper(s)
  BY <1>1, <1>3 DEF Proper
<1>8. \A obj : Whole(obj)' <=> Whole(obj)
  BY <1>1 DEF Whole
<1>9. \A x, v, y : Allows(x, v, y)' <=> Allows(x, v, y)
  BY DEF Allows
<1>10. \A s, obj : Visible(s, obj)' <=> Visible(s, obj)
  BY DEF Visible
<1> QED BY <1>1, <1>2, <1>3, <1>4, <1>5, <1>6, <1>7, <1>8, <1>9, <1>10

LEMMA ComingKept ==
  ASSUME kind' = kind
  PROVE  /\ \A s, obj : Truthful(s, obj)' <=> Truthful(s, obj)
         /\ \A s, w, obj : Holds(s, w, obj)' <=> Holds(s, w, obj)
         /\ \A c, s, w : Heeds(c, s, w)' <=> Heeds(c, s, w)
         /\ \A cs, at, k, x, v, how : Comes(cs, at, k, x, v, how)' <=> Comes(cs, at, k, x, v, how)
<1>1. \A x, y, v, how : Ok(x, y, v, how)' <=> Ok(x, y, v, how)
  BY KindKept DEF Ok
<1>2. \A at, k, x, v, how : Is(at, k, x, v, how)' <=> Is(at, k, x, v, how)
  BY <1>1 DEF Is
<1>3. \A c, k, x, v, how : Gives(c, k, x, v, how)' <=> Gives(c, k, x, v, how)
  BY <1>1 DEF Gives
<1>4. \A c, k, x, v, how : Spares(c, k, x, v, how)' <=> Spares(c, k, x, v, how)
  BY <1>1 DEF Spares
<1>5. \A cs, k, x, v, how : Still(cs, k, x, v, how)' <=> Still(cs, k, x, v, how)
  BY <1>4 DEF Still
<1>6. \A cs, k, x, v, how : Sure(cs, k, x, v, how)' <=> Sure(cs, k, x, v, how)
  BY <1>3, <1>4 DEF Sure
<1>7. \A cs, at, k, x, v, how : Comes(cs, at, k, x, v, how)' <=> Comes(cs, at, k, x, v, how)
  BY <1>1, <1>2, <1>5, <1>6 DEF Comes
<1>8. \A s, obj : Truthful(s, obj)' <=> Truthful(s, obj)
  BY KindKept DEF Truthful
<1>9. \A s, w, obj : Holds(s, w, obj)' <=> Holds(s, w, obj)
  BY KindKept DEF Holds
<1>10. \A c, s, w : Heeds(c, s, w)' <=> Heeds(c, s, w)
  BY KindKept DEF Heeds
<1> QED BY <1>7, <1>8, <1>9, <1>10

LEMMA RunKept ==
  ASSUME kind' = kind, pc' = pc, wanted' = wanted
  PROVE  /\ \A v : Off(v)' <=> Off(v)
         /\ \A c : KeepsWhole(c)' <=> KeepsWhole(c)
         /\ \A cs : AtWork(cs)' <=> AtWork(cs)
         /\ \A cs : SoftLast(cs)' <=> SoftLast(cs)
         /\ \A cs, at, w : Gets(cs, at, w)' <=> Gets(cs, at, w)
         /\ \A cs, at, w : Keeps(cs, at, w)' <=> Keeps(cs, at, w)
<1>1. \A v : Off(v)' <=> Off(v)
  BY DEF Off
<1>2. \A c : KeepsWhole(c)' <=> KeepsWhole(c)
  BY KindKept DEF KeepsWhole
<1>3. \A c : Good(c)' <=> Good(c)
  BY <1>1 DEF Good
<1>4. \A cs : AtWork(cs)' <=> AtWork(cs)
  BY <1>3 DEF AtWork
<1>5. \A c : Plain(c)' <=> Plain(c)
  BY <1>3 DEF Plain
<1>6. \A cs : SoftLast(cs)' <=> SoftLast(cs)
  BY <1>1, <1>5 DEF SoftLast
<1>7. \A cs, at, w : Gets(cs, at, w)' <=> Gets(cs, at, w)
  BY KindKept, ComingKept DEF Gets
<1>8. \A cs, at, w : Keeps(cs, at, w)' <=> Keeps(cs, at, w)
  BY KindKept, ComingKept DEF Keeps
<1> QED BY <1>1, <1>2, <1>4, <1>6, <1>7, <1>8

-----------------------------------------------------------------------------
(* What the actions do, of what follows.                                   *)

LEMMA Goes ==
  ASSUME NEW cs, Final(cs), cs[1].op \notin {"returns", "fails"}
  PROVE  /\ cs[1] \in ToSet(cs) /\ ToSet(Tail(cs)) \subseteq ToSet(cs) /\ Ends(Tail(cs)) = Ends(cs)
         /\ AtWork(cs) <=> AtWork(Tail(cs))
         /\ SoftLast(cs) => SoftLast(Tail(cs))
<1>1. /\ Ends(Tail(cs)) = Ends(cs) /\ Len(cs) \in Nat /\ Len(cs) > 1 /\ 1 \in DOMAIN cs
      /\ DOMAIN cs = 1..Len(cs) /\ DOMAIN Tail(cs) = 1..(Len(cs) - 1)
      /\ \A i \in 1..(Len(cs) - 1) : Tail(cs)[i] = cs[i + 1]
  BY GoesOn
<1> DEFINE t == Tail(cs)
           n == Len(cs)
<1>2. /\ n \in Nat /\ n > 1 /\ DOMAIN cs = 1..n /\ DOMAIN t = 1..(n - 1)
      /\ \A i \in 1..(n - 1) : t[i] = cs[i + 1]
  BY <1>1
<1> HIDE DEF t, n
<1>3. cs[1] \in ToSet(cs) /\ \A c \in ToSet(t) : c \in ToSet(cs)
  BY <1>1, <1>2 DEF ToSet
<1>4. \A c \in ToSet(cs) : c = cs[1] \/ c \in ToSet(t)
  <2> SUFFICES ASSUME NEW i \in 1..n, i # 1 PROVE cs[i] \in ToSet(t)
    BY <1>2 DEF ToSet
  <2>1. i - 1 \in 1..(n - 1) /\ (i - 1) + 1 = i
    BY <1>2
  <2>2. t[i - 1] = cs[i]
    BY <1>2, <2>1
  <2> QED BY <1>2, <2>1, <2>2 DEF ToSet
<1>5. Good(cs[1])
  BY DEF Good
<1>6. AtWork(cs) <=> AtWork(t)
  BY <1>3, <1>4, <1>5 DEF AtWork
<1>7. ASSUME SoftLast(cs) PROVE SoftLast(t)
  <2> SUFFICES ASSUME NEW i \in DOMAIN t, t[i].soft # <<>>, ~Off(t[i].soft[1]), NEW j \in DOMAIN t, j >= i
               PROVE  Plain(t[j])
    BY DEF SoftLast
  <2>1. i + 1 \in DOMAIN cs /\ j + 1 \in DOMAIN cs /\ j + 1 >= i + 1 /\ t[i] = cs[i + 1] /\ t[j] = cs[j + 1]
    BY <1>2
  <2> QED BY <1>7, <2>1 DEF SoftLast
<1> QED BY <1>1, <1>3, <1>6, <1>7 DEF t

LEMMA StepDoes ==
  ASSUME IInv, Step
  PROVE  /\ calls # <<>> /\ Final(calls) /\ Head(calls) = calls[1] /\ calls[1] \in ToSet(calls)
         /\ calls[1].op \notin {"returns", "fails"} /\ ~Refuses(calls[1], there)
         /\ DOMAIN there = Keys /\ there' = After(calls[1], there)
         /\ calls' = Tail(calls) /\ calls' # <<>> /\ ToSet(calls') \subseteq ToSet(calls) /\ Ends(calls') = Ends(calls)
         /\ pc \in {"create", "update", "delete"}
         /\ UNCHANGED <<wanted, pc, kind, setting, touched, last>>
         /\ calls[1].op = "saves" => tfstate' = calls[1].val /\ tainted' = TRUE
         /\ calls[1].op # "saves" => UNCHANGED <<tfstate, tainted>>
<1> DEFINE c == Head(calls)
<1>1. /\ calls # <<>> /\ c.op # "returns" /\ ~Refuses(c, there) /\ Made(c)
      /\ IF c.op = "saves" THEN tfstate' = c.val /\ tainted' = TRUE ELSE UNCHANGED <<tfstate, tainted>>
      /\ calls' = Tail(calls) /\ UNCHANGED <<wanted, pc, kind, setting, touched, last>>
  BY DEF Step
<1>2. /\ Final(calls) /\ c = calls[1] /\ DOMAIN there = Keys
      /\ pc \in {"create", "update", "delete"}
  BY <1>1, Running DEF IInv, ThereInv
<1>3. c.op \notin {"returns", "fails"}
  BY <1>1 DEF Refuses
<1>4. there' = After(c, there)
  BY <1>1 DEF Made
<1>5. calls[1] \in ToSet(calls) /\ ToSet(calls') \subseteq ToSet(calls) /\ Ends(calls') = Ends(calls)
  BY <1>1, <1>2, <1>3, Goes
<1>6. calls' # <<>>
  <2>1. Len(calls) > 1 /\ Len(calls') = Len(calls) - 1 /\ Len(calls) \in Nat
    BY <1>1, <1>2, <1>3, GoesOn
  <2>2. Len(<<>>) = 0
    OBVIOUS
  <2> QED BY <2>1, <2>2
<1> HIDE DEF c
<1> QED BY <1>1, <1>2, <1>3, <1>4, <1>5, <1>6 DEF c

Gently == /\ calls[1].soft # <<>> /\ calls' = <<returns(calls[1].soft[1])>> /\ pc' = pc /\ touched' = touched
Flatly == /\ calls[1].soft = <<>> /\ calls' = <<>> /\ pc' = "idle"
          /\ touched' = IF pc = "update" THEN touched \cup {"failed"} ELSE touched
LEMMA FailDoes ==
  ASSUME IInv, Refused \/ CallFails \/ AnswerLost
  PROVE  /\ calls # <<>> /\ Final(calls) /\ Head(calls) = calls[1] /\ 1 \in DOMAIN calls /\ calls[1] \in ToSet(calls)
         /\ DOMAIN there = Keys /\ pc \in {"create", "update", "delete"}
         /\ \/ there' = there
            \/ /\ there' = After(calls[1], there) /\ ~Refuses(calls[1], there)
               /\ calls[1].op \in Setting \cup Renaming
         /\ UNCHANGED <<wanted, tfstate, tainted, kind, setting, last>>
         /\ Gently \/ Flatly
<1>1. calls # <<>> /\ UNCHANGED <<wanted, tfstate, tainted, kind, setting, last>>
  BY DEF Refused, CallFails, AnswerLost, Fails, Errored
<1>2. /\ Final(calls) /\ Head(calls) = calls[1] /\ 1 \in DOMAIN calls /\ DOMAIN there = Keys
      /\ pc \in {"create", "update", "delete"}
  BY <1>1, Running DEF IInv, ThereInv
<1>3. Gently \/ Flatly
  BY <1>2 DEF Refused, CallFails, AnswerLost, Fails, Errored, Gently, Flatly
<1>4. \/ there' = there
      \/ there' = After(calls[1], there) /\ ~Refuses(calls[1], there) /\ calls[1].op \in Setting \cup Renaming
  BY <1>2 DEF Refused, CallFails, AnswerLost, Made, Setting, Making, Renaming
<1>5. calls[1] \in ToSet(calls)
  BY <1>2 DEF ToSet
<1> QED BY <1>1, <1>2, <1>3, <1>4, <1>5

LEMMA ReturnDoes ==
  ASSUME IInv, Returned
  PROVE  /\ calls # <<>> /\ Final(calls) /\ calls[1].op = "returns" /\ calls[1] \in ToSet(calls)
         /\ pc \in {"create", "update"} /\ pc' = "idle" /\ calls' = <<>>
         /\ tfstate' = calls[1].val /\ tainted' = (pc = "create" /\ ~Consistent(calls[1].val))
         /\ last' = IF ~Consistent(calls[1].val) \/ ~Alone THEN "no" ELSE IF pc = "create" THEN "created" ELSE "updated"
         /\ touched' = touched \ {"failed"} /\ Ends(calls) = KeysOf(calls[1].val)
         /\ UNCHANGED <<wanted, kind, setting, there>>
<1>1. calls # <<>>
  BY DEF Returned
<1>2. Final(calls) /\ Head(calls) = calls[1] /\ 1 \in DOMAIN calls
  BY <1>1, Running DEF IInv
<1>3. calls[1] \in ToSet(calls)
  BY <1>2 DEF ToSet
<1>4. calls[1].op = "returns"
  BY <1>2 DEF Returned
<1>5. Ends(calls) = KeysOf(calls[1].val)
  BY <1>2, <1>4, Returning
<1> QED BY <1>1, <1>2, <1>3, <1>4, <1>5 DEF Returned

LEMMA BeginDoes ==
  ASSUME Begin
  PROVE  /\ calls = <<>> /\ pc \in {"create", "update", "delete"} /\ last' = "no"
         /\ \/ PlanRefused /\ calls' = <<fails>>
            \/ ~PlanRefused /\ pc = "create" /\ calls' = Create(wanted)
            \/ ~PlanRefused /\ pc = "update" /\ calls' = Update(tfstate, Plan(tfstate, wanted))
            \/ ~PlanRefused /\ pc = "delete" /\ calls' = Delete(tfstate)
         /\ touched' = IF pc = "create" THEN touched \ {"unseen"} ELSE touched
         /\ UNCHANGED <<wanted, tfstate, tainted, pc, kind, setting, there>>
BY DEF Begin

-----------------------------------------------------------------------------
(* Objects and states are whole, and the calls keep them so.               *)

SoundWork(c) ==
  /\ KeepsWhole(c)
  /\ pc \in {"create", "update"} => ProperCall(c) /\ (kind # "model" => c.soft = <<>>)
SoundInv ==
  /\ WholeAt(there)
  /\ tfstate # None => Proper(tfstate)
  /\ pc = "create" /\ tfstate # None => tainted
  /\ pc = "update" => ~tainted
  /\ \A c \in ToSet(calls) : SoundWork(c)

LEMMA SoundKept ==
  ASSUME kind' = kind, WholeAt(there'),
         tfstate' # None => Proper(tfstate'),
         pc' = "create" /\ tfstate' # None => tainted',
         pc' = "update" => ~tainted',
         calls' = <<>> \/ (pc' = pc /\ wanted' = wanted /\ \A c \in ToSet(calls') : SoundWork(c))
  PROVE  SoundInv'
<1>1. WholeAt(there)'
  BY KindKept DEF WholeAt
<1>2. (tfstate # None => Proper(tfstate))'
  BY KindKept
<1>3. (\A c \in ToSet(calls) : SoundWork(c))'
  <2>1. CASE calls' = <<>>
    <3>1. ToSet(calls') = {}
      BY <2>1, SetsOfTuples
    <3> QED BY <3>1 DEF ToSet
  <2>2. CASE pc' = pc /\ wanted' = wanted /\ \A c \in ToSet(calls') : SoundWork(c)
    <3>1. \A c : ProperCall(c)' <=> ProperCall(c)
      BY KindKept DEF ProperCall
    <3>2. \A c : SoundWork(c)' <=> SoundWork(c)
      BY <2>2, <3>1, RunKept DEF SoundWork
    <3> QED BY <2>2, <3>2 DEF ToSet
  <2> QED BY <2>1, <2>2
<1> QED BY <1>1, <1>2, <1>3 DEF SoundInv

LEMMA SoundSteps ==
  ASSUME IInv, PlanInv, SoundInv, Step
  PROVE  SoundInv'
<1>1. SoundWork(calls[1])
  BY StepDoes DEF SoundInv
<1>2. WholeAt(there')
  BY <1>1, StepDoes, WholeOn DEF SoundWork, SoundInv
<1>3. calls[1].op = "saves" => pc = "create"
  <2>1. 1 \in DOMAIN calls
    BY StepDoes, Running DEF IInv
  <2>2. pc \in {"create", "update"} => PlannedCall(calls[1])
    BY <2>1 DEF PlanInv, PlannedCalls
  <2>3. pc = "delete" => calls[1].op # "saves"
    <3>1. pc = "delete" => DeleteInv
      BY StepDoes, Running DEF IInv
    <3> QED BY <2>1, <3>1 DEF DeleteInv, DeleteCalls, DeleteCall
  <2> QED BY <2>2, <2>3, StepDoes DEF PlannedCall
<1>4. tfstate' # None => Proper(tfstate')
  BY <1>1, <1>3, StepDoes DEF SoundInv, SoundWork, ProperCall
<1>5. /\ pc' = "create" /\ tfstate' # None => tainted'
      /\ pc' = "update" => ~tainted'
  <2>1. CASE calls[1].op = "saves"
    <3>1. pc' = "create" /\ tainted'
      BY <1>3, <2>1, StepDoes
    <3>2. pc' # "update"
      BY <3>1
    <3> QED BY <3>1, <3>2
  <2>2. CASE calls[1].op # "saves"
    <3>1. pc' = pc /\ tfstate' = tfstate /\ tainted' = tainted
      BY <2>2, StepDoes
    <3> QED BY <3>1, Zenon DEF SoundInv
  <2> QED BY <2>1, <2>2
<1> QED BY <1>2, <1>4, <1>5, StepDoes, SoundKept DEF SoundInv

LEMMA SoundFails ==
  ASSUME IInv, SoundInv, Refused \/ CallFails \/ AnswerLost
  PROVE  SoundInv'
<1>1. SoundWork(calls[1])
  BY FailDoes DEF SoundInv
<1>2. WholeAt(there')
  BY <1>1, FailDoes, WholeOn DEF SoundWork, SoundInv
<1>3. CASE Flatly
  BY <1>2, <1>3, FailDoes, SoundKept DEF SoundInv, Flatly
<1>4. CASE Gently
  <2> DEFINE v == calls[1].soft[1]
  <2>1. SoundWork(returns(v))
    <3>1. returns(v).op = "returns" /\ returns(v).val = v /\ returns(v).soft = <<>>
      BY Singles
    <3>2. pc \in {"create", "update"} => Proper(v)
      BY <1>1, <1>4 DEF SoundWork, ProperCall, Gently
    <3> HIDE DEF v
    <3> QED BY <3>1, <3>2 DEF SoundWork, KeepsWhole, ProperCall, Making, Removing
  <2>2. ToSet(calls') = {returns(v)}
    BY <1>4, SetsOfTuples DEF Gently
  <2> HIDE DEF v
  <2> QED BY <1>2, <1>4, <2>1, <2>2, FailDoes, SoundKept DEF SoundInv, Gently
<1> QED BY <1>3, <1>4, FailDoes

\* The handlers that Begin starts are sound.
LEMMA Beginning ==
  ASSUME NoneIsNoValue, IInv, NamedInv, PlanInv, SoundInv, AppInv, Begin
  PROVE  \/ calls' = <<fails>>
         \/ pc = "create" /\ calls' = Create(wanted) /\ Creates(wanted)
         \/ pc = "update" /\ calls' = Update(tfstate, Plan(tfstate, wanted)) /\ Updates(tfstate, wanted)
         \/ pc = "delete" /\ calls' = Delete(tfstate) /\ AllDelete(calls')
<1>1. /\ calls = <<>> /\ kind \in AllKinds /\ ThereInv
      /\ pc \in {"create", "update"} => wanted \in Configs
      /\ pc = "update" => tfstate # None /\ IsState(tfstate)
  BY BeginDoes DEF IInv, ControlInv
<1>2. CASE ~PlanRefused /\ pc = "create" /\ calls' = Create(wanted)
  BY <1>1, <1>2, HandlersCreate
<1>3. CASE ~PlanRefused /\ pc = "update" /\ calls' = Update(tfstate, Plan(tfstate, wanted))
  <2>1. Proper(tfstate) /\ WholeAt(there) /\ ~tainted
    BY <1>1, <1>3 DEF SoundInv
  <2>2. Shaped(tfstate) /\ ~Replaced(tfstate, Plan(tfstate, wanted))
    BY <1>1, <1>3 DEF PlanInv
  <2>3. kind \in NamedKinds => NamesAt(there) /\ IsNamed(tfstate)
    BY <1>1, <1>3 DEF NamedInv
  <2>4. NewKnown(tfstate)
    <3>1. Own = KeysOf(tfstate)
      BY <1>1, <1>3 DEF Own, Stated
    <3> QED BY <1>1, <1>3, <2>1, <3>1 DEF AppInv, WholeAppInv, NewAppInv, Charmed, NewKnown
  <2>5. Updates(tfstate, wanted)
    BY <1>1, <1>3, <2>1, <2>2, <2>3, <2>4, HandlersUpdate
  <2> QED BY <1>3, <2>5
<1>4. CASE ~PlanRefused /\ pc = "delete" /\ calls' = Delete(tfstate)
  BY <1>1, <1>4, HandlersDelete
<1> QED BY <1>2, <1>3, <1>4, BeginDoes

LEMMA SoundBegins ==
  ASSUME NoneIsNoValue, IInv, NamedInv, PlanInv, SoundInv, AppInv, Begin
  PROVE  SoundInv'
<1>1. pc \in {"create", "update"} => tfstate' = tfstate /\ tainted' = tainted
  BY BeginDoes
<1>2. \A c : SoundCall(c) => SoundWork(c)
  BY DEF SoundCall, SoundWork
<1>3. \A c \in ToSet(calls') : SoundWork(c)
  <2>1. CASE calls' = <<fails>>
    BY <1>2, <2>1, FailsOnly DEF SoundCalls
  <2>2. CASE pc = "create" /\ calls' = Create(wanted) /\ Creates(wanted)
    BY <1>2, <2>2 DEF SoundCalls, Creates
  <2>3. CASE pc = "update" /\ calls' = Update(tfstate, Plan(tfstate, wanted)) /\ Updates(tfstate, wanted)
    BY <1>2, <2>3 DEF SoundCalls, Updates
  <2>4. CASE pc = "delete" /\ AllDelete(calls')
    BY <2>4, DeletingIsSound DEF AllDelete, SoundWork
  <2> QED BY <2>1, <2>2, <2>3, <2>4, Beginning
<1> QED BY <1>3, BeginDoes, SoundKept DEF SoundInv

LEMMA PlansAreSome ==
  ASSUME NoneIsNoConfig, kind \in AllKinds, NEW w \in Configs, NEW s
  PROVE  Plan(s, w) # None /\ w # None
<1>1. CASE kind = "machine"
  <2>1. "name" \in DOMAIN w
    BY <1>1 DEF Configs, MachineConfigs
  <2> QED BY <1>1, <2>1 DEF Plan, NoneIsNoConfig
<1>2. CASE kind = "ssh_key"
  <2>1. w \in SSHKeyConfigs /\ Plan(s, w) = SSHKeyCommentInsensitive(s, w)
    BY <1>2 DEF Plan, Configs
  <2>2. "name" \in DOMAIN SSHKeyCommentInsensitive(s, w) /\ "name" \in DOMAIN w
    BY <2>1 DEF SSHKeyCommentInsensitive, SSHKeyConfigs
  <2> QED BY <2>1, <2>2 DEF NoneIsNoConfig
<1>3. CASE kind = "model"
  <2>1. w \in ModelConfigs /\ Plan(s, w) = PlannedModel(s, w)
    BY <1>3 DEF Plan, Configs
  <2>2. "name" \in DOMAIN PlannedModel(s, w) /\ "name" \in DOMAIN w
    BY <2>1 DEF PlannedModel, ModelConfigs, Without
  <2> QED BY <2>1, <2>2 DEF NoneIsNoConfig
<1>4. CASE kind \in {"credential", "group", "role", "secret", "controller"}
  <2>1. "name" \in DOMAIN w
    BY <1>4 DEF Configs, CredentialConfigs, GroupConfigs, SecretConfigs, ControllerConfigs
  <2> QED BY <1>4, <2>1 DEF Plan, NoneIsNoConfig
<1>5. CASE kind \in ByName \ {"ssh_key"}
  <2>1. "name" \in DOMAIN w
    BY <1>5, ConfigNames
  <2> QED BY <1>5, <2>1 DEF Plan, NoneIsNoConfig, ByName
<1> QED BY <1>1, <1>2, <1>3, <1>4, <1>5 DEF ByName, AllKinds

LEMMA ReadDoes ==
  ASSUME NoneIsNoState, NoneIsNoConfig, NoneIsNoValue, IInv, SoundInv, Read
  PROVE  /\ pc = "read" /\ calls = <<>> /\ tfstate # None /\ Own = KeysOf(tfstate)
         /\ UNCHANGED <<wanted, kind, setting, there, calls, last>> /\ touched' = touched \ {"since"}
         /\ wanted \in Configs \cup {None}
         /\ tfstate' # None =>
              /\ IsState(tfstate') /\ Proper(tfstate') /\ KeysOf(tfstate') = KeysOf(tfstate)
              /\ Stated(tfstate') = Own
              /\ \A k \in KeysOf(tfstate) : Finds(tfstate, tfstate', k)
         /\ tfstate' = None => \E k \in Own : there[k] = None
         /\ pc' \in {"idle", "create", "delete", "update"}
         /\ pc' = "create" => tfstate' = None
         /\ pc' = "update" => tfstate' # None /\ wanted \in Configs /\ ~tainted'
         /\ pc' = "idle" /\ tfstate' # None =>
              wanted \in Configs /\ AgreesWith(tfstate', Plan(tfstate', wanted))
         /\ pc' = "delete" /\ wanted \in Configs => tainted' \/ Replaced(tfstate', Plan(tfstate', wanted))
         /\ ~tainted => ~tainted'
<1>1. PICK state \in ReadOf(tfstate) :
        LET plan == IF wanted = None THEN None ELSE Plan(state, wanted) IN
        Refreshed(state, plan # None /\ state # None /\ AgreesWith(state, plan),
                  plan # None /\ state # None /\ Replaced(state, plan))
  BY DEF Read
<1>2. /\ pc = "read" /\ tfstate' = state /\ UNCHANGED <<wanted, kind, setting, there, calls, last>>
      /\ touched' = touched \ {"since"} /\ tainted' = (tainted /\ state # None)
  BY <1>1 DEF Read, Refreshed
<1>3. /\ kind \in AllKinds /\ calls = <<>> /\ tfstate # None /\ IsState(tfstate) /\ wanted \in Configs \cup {None} /\ ThereInv
      /\ Own = KeysOf(tfstate)
  BY <1>2 DEF IInv, ControlInv, Own, Stated
<1>4. Proper(tfstate) /\ WholeAt(there)
  BY <1>3 DEF SoundInv
<1>5. state # None =>
        /\ IsState(state) /\ Proper(state) /\ KeysOf(state) = KeysOf(tfstate)
        /\ \A k \in KeysOf(tfstate) : Finds(tfstate, state, k)
  BY <1>3, <1>4, ReadsFind
<1>6. state = None => \E k \in KeysOf(tfstate) : there[k] = None
  BY <1>3, <1>4, ReadsNothing
<1>7. wanted # None => Plan(state, wanted) # None
  BY <1>3, PlansAreSome
<1> DEFINE agrees == state # None /\ AgreesWith(state, Plan(state, wanted))
           replaced == state # None /\ Replaced(state, Plan(state, wanted))
<1>8. wanted # None => pc' = Planned(state, agrees, replaced)
  BY <1>1, <1>7 DEF Refreshed
<1>9. wanted = None => pc' = Planned(state, FALSE, FALSE)
  BY <1>1 DEF Refreshed
<1>10. /\ pc' \in {"idle", "create", "delete", "update"}
       /\ pc' = "create" => state = None
       /\ pc' = "update" => state # None /\ wanted # None
       /\ pc' = "idle" /\ state # None => wanted # None /\ agrees
       /\ pc' = "delete" => state # None
  <2> HIDE DEF agrees, replaced
  <2> QED BY <1>8, <1>9 DEF Planned
<1>11. /\ pc' = "update" => ~tainted
       /\ pc' = "delete" /\ wanted # None => tainted \/ replaced
  <2> HIDE DEF agrees, replaced
  <2> QED BY <1>8, <1>9 DEF Planned
<1>12. /\ pc' = "update" => ~tainted'
       /\ pc' = "delete" /\ wanted # None => tainted' \/ replaced
       /\ ~tainted => ~tainted'
  <2> HIDE DEF replaced
  <2> QED BY <1>2, <1>10, <1>11
<1>13. wanted # None => wanted \in Configs
  BY <1>3
<1>14. wanted \in Configs => wanted # None
  BY <1>3, PlansAreSome
<1>15. Stated(state) = IF state = None THEN {} ELSE KeysOf(state)
  BY DEF Stated
<1>18. replaced => Replaced(tfstate', Plan(tfstate', wanted))
  BY <1>2
<1>19. agrees => AgreesWith(tfstate', Plan(tfstate', wanted))
  BY <1>2
<1> HIDE DEF agrees, replaced
<1>20. tfstate' # None =>
              /\ IsState(tfstate') /\ Proper(tfstate') /\ KeysOf(tfstate') = KeysOf(tfstate)
              /\ Stated(tfstate') = Own
              /\ \A k \in KeysOf(tfstate) : Finds(tfstate, tfstate', k)
  BY <1>2, <1>3, <1>5, <1>15
<1> QED BY <1>2, <1>3, <1>6, <1>10, <1>12, <1>13, <1>14, <1>18, <1>19, <1>20

LEMMA ImportDoes ==
  ASSUME NoneIsNoState, IInv, Import
  PROVE  /\ pc = "idle" /\ tfstate = None /\ wanted # None /\ calls = <<>>
         /\ tfstate' # None /\ IsState(tfstate') /\ Proper(tfstate')
         /\ UNCHANGED <<wanted, tainted, pc, kind, setting, there, calls>>
         /\ touched' = touched \cup {"unseen"} /\ last' = "no"
<1>1. PICK k \in Keys \ dying : there[k] # None /\ \E s \in Importable(k) : tfstate' \in ReadOf(s) \ {None}
  BY DEF Import
<1>2. kind \in AllKinds /\ ThereInv /\ (pc = "idle" => calls = <<>>)
  BY DEF IInv, ControlInv
<1>3. IsState(tfstate') /\ Proper(tfstate')
  BY <1>1, <1>2, ImportsProper
<1> QED BY <1>1, <1>2, <1>3 DEF Import

LEMMA ChangeDoes ==
  ASSUME IInv, Vanish \/ OutsideChange
  PROVE  /\ DOMAIN there = Keys
         /\ \A j \in Keys : there'[j] \in {there[j], None} \cup Objects
         /\ "unseen" \notin touched' => \A j \in Keys : there'[j] = there[j] \/ Seen(there[j], there'[j])
         /\ UNCHANGED <<wanted, tfstate, tainted, pc, kind, setting, calls>> /\ last' = "no"
         /\ touched \subseteq touched' /\ (pc # "idle" => "now" \in touched')
         /\ "unseen" \in touched' \/ "since" \in touched'
<1>1. DOMAIN there = Keys
  BY DEF IInv, ThereInv
<1>2. CASE Vanish
  <2>1. \E k : there' = [there EXCEPT ![k] = None]
    BY <1>2 DEF Vanish
  <2>2. \A j \in Keys : there'[j] \in {there[j], None}
    BY <1>1, <2>1
  <2> QED BY <1>1, <1>2, <2>2 DEF Vanish
<1>3. CASE OutsideChange
  <2>1. PICK k \in Keys, obj \in Objects \cup {None} :
          /\ there' = [there EXCEPT ![k] = obj]
          /\ touched' = touched \cup {"since"} \cup (IF pc = "idle" THEN {} ELSE {"now"})
                                \cup (IF Seen(there[k], obj) THEN {} ELSE {"unseen"})
    BY <1>3 DEF OutsideChange
  <2>2. \A j \in Keys : there'[j] = IF j = k THEN obj ELSE there[j]
    BY <1>1, <2>1
  <2>3. UNCHANGED <<wanted, tfstate, tainted, pc, kind, setting, calls>> /\ last' = "no"
    BY <1>3 DEF OutsideChange
  <2> QED BY <1>1, <2>1, <2>2, <2>3
<1> QED BY <1>2, <1>3

LEMMA SoundChanges ==
  ASSUME NoneIsNoValue, IInv, SoundInv, Vanish \/ OutsideChange
  PROVE  SoundInv'
<1>1. kind \in AllKinds
  BY DEF IInv, ControlInv
<1>2. WholeAt(there')
  <2> SUFFICES ASSUME NEW j \in Keys, there'[j] # None PROVE Whole(there'[j])
    BY DEF WholeAt
  <2>1. there'[j] = there[j] \/ there'[j] \in Objects
    BY ChangeDoes
  <2> QED BY <1>1, <2>1, ObjectsAreWhole DEF SoundInv, WholeAt
<1>3. UNCHANGED <<wanted, tfstate, tainted, pc, kind, calls>>
  BY ChangeDoes
<1>4. /\ pc' = "create" /\ tfstate' # None => tainted'
      /\ pc' = "update" => ~tainted'
  BY <1>3, Zenon DEF SoundInv
<1> QED BY <1>2, <1>3, <1>4, SoundKept DEF SoundInv

LEMMA SoundReads ==
  ASSUME NoneIsNoState, NoneIsNoConfig, NoneIsNoValue, IInv, SoundInv, Read
  PROVE  SoundInv'
<1>1. calls' = <<>> /\ kind' = kind /\ there' = there
  BY ReadDoes
<1>2. tfstate' # None => Proper(tfstate')
  BY ReadDoes
<1>3. /\ pc' = "create" => tfstate' = None
      /\ pc' = "update" => ~tainted'
  BY ReadDoes
<1> QED BY <1>1, <1>2, <1>3, SoundKept DEF SoundInv

LEMMA SoundOthers ==
  ASSUME NoneIsNoState, IInv, SoundInv,
         Returned \/ Deleted \/ ReadFails \/ Import \/ EditConfig \/ Start \/ UNCHANGED vars
  PROVE  SoundInv'
<1>1. CASE Returned
  <2>1. Proper(tfstate')
    <3>1. SoundWork(calls[1])
      BY <1>1, ReturnDoes DEF SoundInv
    <3> QED BY <1>1, <3>1, ReturnDoes DEF SoundWork, ProperCall
  <2>2. pc' = "idle" /\ calls' = <<>> /\ there' = there /\ kind' = kind
    BY <1>1, ReturnDoes
  <2> QED BY <2>1, <2>2, SoundKept DEF SoundInv
<1>2. CASE Deleted
  <2>1. tfstate' = None /\ calls' = <<>> /\ kind' = kind /\ there' = there /\ pc' # "update"
    BY <1>2 DEF Deleted, Destroyed
  <2> QED BY <2>1, SoundKept DEF SoundInv
<1>3. CASE ReadFails \/ EditConfig \/ Start
  <2>1. /\ kind' = kind /\ calls' = <<>> /\ there' = there /\ tfstate' = tfstate
        /\ pc' \in {"idle", "read"} \/ (pc' = "create" /\ tfstate' = None)
    BY <1>3 DEF ReadFails, Errored, EditConfig, Edit, Start, BeginApply, IInv, ControlInv
  <2> QED BY <2>1, SoundKept DEF SoundInv
<1>4. CASE Import
  <2>1. pc' = "idle" /\ calls' = <<>> /\ kind' = kind /\ there' = there /\ Proper(tfstate')
    BY <1>4, ImportDoes
  <2> QED BY <2>1, SoundKept DEF SoundInv
<1>5. CASE UNCHANGED vars
  <2>1. UNCHANGED <<wanted, tfstate, tainted, pc, kind, calls, there>>
    BY <1>5 DEF vars
  <2>2. /\ pc' = "create" /\ tfstate' # None => tainted'
        /\ pc' = "update" => ~tainted'
    BY <2>1, Zenon DEF SoundInv
  <2> QED BY <2>1, <2>2, SoundKept DEF SoundInv
<1> QED BY <1>1, <1>2, <1>3, <1>4, <1>5

LEMMA SoundFirst == ASSUME Init PROVE SoundInv
<1>1. /\ tfstate = None /\ pc = "idle" /\ calls = <<>>
      /\ there = [k \in Keys |-> IF kind = "subnet" /\ k \in Names THEN [name |-> k, space |-> "alpha"] ELSE None]
  BY DEF Init, TerraformInit
<1>2. WholeAt(there)
  <2> SUFFICES ASSUME NEW k \in Keys, there[k] # None PROVE Whole(there[k])
    BY DEF WholeAt
  <2>1. kind = "subnet" /\ there[k] = [name |-> k, space |-> "alpha"]
    BY <1>1
  <2> QED BY <2>1 DEF Whole, FieldsOf, OneName
<1> QED BY <1>1, <1>2, SetsOfTuples DEF SoundInv

-----------------------------------------------------------------------------
(* What an Update knows of what it is about.                               *)

LEMMA SeenKept ==
  ASSUME pc' # "update" \/ calls' # <<>> \/ "now" \in touched'
  PROVE  SeenInv'
BY DEF SeenInv, Alone

LEMMA SeenReads ==
  ASSUME NoneIsNoState, NoneIsNoConfig, NoneIsNoValue, IInv, SoundInv, Read
  PROVE  SeenInv'
<1>1. CASE pc' # "update"
  BY <1>1, SeenKept
<1>2. CASE pc' = "update"
  <2>1. /\ tfstate' # None /\ Stated(tfstate') = KeysOf(tfstate) /\ kind' = kind /\ there' = there
        /\ \A k \in KeysOf(tfstate) : Finds(tfstate, tfstate', k)
    BY <1>2, ReadDoes
  <2>2. Own' = KeysOf(tfstate)
    BY <2>1, KindKept DEF Own
  <2>3. \A k \in KeysOf(tfstate) :
          (kind # "credential" => there[k] # None) /\ (there[k] # None => Visible(tfstate', there[k]))
    BY <2>1 DEF Finds
  <2>4. \A k \in Own' : (kind' # "credential" => there'[k] # None) /\ (there'[k] # None => Visible(tfstate, there[k])')
    BY <2>1, <2>2, <2>3, KindKept
  <2> QED BY <2>4 DEF SeenInv
<1> QED BY <1>1, <1>2

LEMMA BeginsSome ==
  ASSUME IInv, Begin, UpdateKeeps, pc = "update"
  PROVE  calls' # <<>>
<1>1. tfstate # None /\ IsState(tfstate) /\ wanted \in Configs
      /\ (kind \notin {"ssh_key", "model"} => ~Replaced(tfstate, wanted) /\ Plan(tfstate, wanted) = wanted)
  BY BeginDoes DEF IInv, ControlInv, Plan
<1>2. WorkCalls(Update(tfstate, Plan(tfstate, wanted)), KeysOf(tfstate))
  BY <1>1 DEF UpdateKeeps
<1>3. Update(tfstate, Plan(tfstate, wanted)) # <<>>
  BY <1>2 DEF WorkCalls, Final
<1>4. calls' = <<fails>> \/ calls' = Update(tfstate, Plan(tfstate, wanted))
  BY BeginDoes
<1>5. <<fails>> # <<>>
  OBVIOUS
<1> QED BY <1>3, <1>4, <1>5

LEMMA SeenOthers ==
  ASSUME IInv, SeenInv, UpdateKeeps,
         \/ Begin \/ Step \/ Refused \/ CallFails \/ AnswerLost \/ Returned \/ Deleted \/ ReadFails
         \/ Vanish \/ OutsideChange \/ Import \/ EditConfig \/ Start \/ UNCHANGED vars
  PROVE  SeenInv'
<1>1. CASE Begin
  <2>1. pc' = pc
    BY <1>1, BeginDoes
  <2> QED BY <1>1, <2>1, BeginsSome, SeenKept
<1>2. CASE Step
  BY <1>2, StepDoes, SeenKept
<1>3. CASE Refused \/ CallFails \/ AnswerLost
  <2>1. pc' = "idle" \/ calls' # <<>>
    <3>1. \A v : <<returns(v)>> # <<>>
      BY Singles
    <3> QED BY <1>3, <3>1, FailDoes DEF Gently, Flatly
  <2> QED BY <2>1, SeenKept
<1>4. CASE Returned \/ Deleted \/ ReadFails \/ Import \/ EditConfig \/ Start
  <2>1. pc' # "update"
    BY <1>4 DEF Returned, Deleted, Destroyed, ReadFails, Errored, Import, EditConfig, Edit, Start, BeginApply
  <2> QED BY <2>1, SeenKept
<1>5. CASE Vanish \/ OutsideChange
  <2>1. pc' = pc /\ (pc = "idle" \/ "now" \in touched')
    BY <1>5, ChangeDoes
  <2> QED BY <2>1, SeenKept
<1>6. CASE UNCHANGED vars
  <2>1. kind' = kind /\ tfstate' = tfstate /\ there' = there /\ pc' = pc /\ calls' = calls /\ touched' = touched
    BY <1>6 DEF vars
  <2>2. Own' = Own /\ \A s, obj : Visible(s, obj)' <=> Visible(s, obj)
    BY <2>1, KindKept DEF Own
  <2> QED BY <2>1, <2>2 DEF SeenInv, Alone
<1> QED BY <1>1, <1>2, <1>3, <1>4, <1>5, <1>6

-----------------------------------------------------------------------------
(* What is asked for comes.                                                *)

LEMMA GetsKept ==
  ASSUME \/ pc' \notin {"create", "update"} \/ calls' = <<>>
         \/ /\ kind' = kind /\ pc' = pc /\ wanted' = wanted /\ SoftLast(calls')
            /\ AtWork(calls') /\ Alone' => Gets(calls', there', wanted)
  PROVE  GetsInv'
<1>1. CASE pc' \notin {"create", "update"} \/ calls' = <<>>
  BY <1>1 DEF GetsInv
<1>2. CASE /\ kind' = kind /\ pc' = pc /\ wanted' = wanted /\ SoftLast(calls')
           /\ AtWork(calls') /\ Alone' => Gets(calls', there', wanted)
  <2>1. SoftLast(calls)' /\ (AtWork(calls)' <=> AtWork(calls'))
    BY <1>2, RunKept
  <2>2. Gets(calls', there', wanted) => Gets(calls, there, wanted)'
    BY <1>2, RunKept
  <2> QED BY <1>2, <2>1, <2>2 DEF GetsInv
<1> QED BY <1>1, <1>2

LEMMA EndsAreKeys ==
  ASSUME IInv, SoundInv, calls # <<>>, pc \in {"create", "update"}
  PROVE  Ends(calls) \subseteq Keys
<1>1. Final(calls)
  BY Running DEF IInv
<1>2. Len(calls) \in DOMAIN calls
  BY <1>1 DEF Final
<1>3. calls[Len(calls)] \in ToSet(calls)
  BY <1>2 DEF ToSet
<1>4. calls[Len(calls)].op = "returns" => Proper(calls[Len(calls)].val)
  BY <1>3 DEF SoundInv, SoundWork, ProperCall
<1> QED BY <1>4 DEF Ends, Proper

LEMMA GetsSteps ==
  ASSUME NoneIsNoConfig, NoneIsNoValue, IInv, SoundInv, GetsInv, Step
  PROVE  GetsInv'
<1> SUFFICES ASSUME pc \in {"create", "update"} PROVE GetsInv'
  BY StepDoes, GetsKept
<1>1. /\ calls # <<>> /\ Final(calls) /\ calls[1].op \notin {"returns", "fails"} /\ ~Refuses(calls[1], there)
      /\ DOMAIN there = Keys /\ there' = After(calls[1], there) /\ calls' = Tail(calls) /\ Ends(calls') = Ends(calls)
      /\ kind' = kind /\ pc' = pc /\ wanted' = wanted /\ touched' = touched
  BY StepDoes
<1>2. KeepsWhole(calls[1]) /\ calls[1].op \notin Removing /\ WholeAt(there)
  BY StepDoes DEF SoundInv, SoundWork, KeepsWhole
<1>3. kind \in AllKinds /\ wanted \in Configs
  BY DEF IInv, ControlInv
<1>4. SoftLast(calls') /\ (AtWork(calls') <=> AtWork(calls))
  BY <1>1, Goes DEF GetsInv
<1>5. ASSUME AtWork(calls), Alone PROVE Gets(calls', there', wanted)
  <2> SUFFICES ASSUME NEW k \in Ends(calls)
               PROVE  /\ There(calls', there', k)
                      /\ \A x \in DOMAIN Asked(wanted) : Comes(calls', there', k, x, Asked(wanted)[x], "exactly")
    BY <1>1 DEF Gets
  <2>1. k \in Keys
    BY <1>1, EndsAreKeys
  <2>2. /\ There(calls, there, k)
        /\ \A x \in DOMAIN Asked(wanted) : Comes(calls, there, k, x, Asked(wanted)[x], "exactly")
    BY <1>1, <1>5 DEF GetsInv, Gets
  <2>3. There(calls', there', k)
    BY <1>1, <1>2, <1>3, <2>1, <2>2, ThereOn
  <2>4. ASSUME NEW x \in DOMAIN Asked(wanted) PROVE Comes(calls', there', k, x, Asked(wanted)[x], "exactly")
    <3>1. x \in FieldsOf
      BY <1>3, AskedFields
    <3> DEFINE v == Asked(wanted)[x]
    <3>2. Comes(calls, there, k, x, v, "exactly")
      BY <2>2
    <3> HIDE DEF v
    <3>3. Comes(calls', there', k, x, v, "exactly")
      BY <1>1, <1>2, <2>1, <3>1, <3>2, ComesOn
    <3> QED BY <3>3 DEF v
  <2> QED BY <2>3, <2>4
<1>6. Alone' => Alone
  BY <1>1 DEF Alone
<1> QED BY <1>1, <1>4, <1>5, <1>6, GetsKept

LEMMA GetsFails ==
  ASSUME IInv, SoundInv, GetsInv, Refused \/ CallFails \/ AnswerLost
  PROVE  GetsInv'
<1>1. CASE Flatly
  BY <1>1, GetsKept DEF Flatly
<1>2. CASE Gently
  <2> SUFFICES ASSUME pc \in {"create", "update"} PROVE GetsInv'
    BY <1>2, GetsKept DEF Gently
  <2> DEFINE v == calls[1].soft[1]
             cs == <<returns(v)>>
  <2>1. calls[1].soft # <<>> /\ calls' = cs /\ pc' = pc /\ touched' = touched
    BY <1>2 DEF Gently
  <2>2. /\ \A k, x, w, how : Still(cs, k, x, w, how)
        /\ DOMAIN cs = {1} /\ cs[1].op = "returns" /\ cs[1].val = v /\ cs[1].soft = <<>>
        /\ Ends(cs) = KeysOf(v) /\ ToSet(cs) = {returns(v)}
    BY ReturnsSpare
  <2>3. SoftLast(cs)
    BY <2>2 DEF SoftLast
  <2>4. ASSUME AtWork(cs), Alone PROVE Gets(cs, there', wanted)
    <3>1. ~Off(v)
      <4>1. returns(v).op = "returns" /\ returns(v).val = v
        BY Singles
      <4> HIDE DEF v
      <4> QED BY <2>2, <2>4, <4>1 DEF AtWork, Good
    <3>2. /\ 1 \in DOMAIN calls /\ Final(calls) /\ DOMAIN calls = 1..Len(calls) /\ calls # <<>>
          /\ kind' = kind
      BY FailDoes DEF Final
    <3>3. \A j \in DOMAIN calls : Plain(calls[j])
      <4>1. SoftLast(calls)
        BY <3>2 DEF GetsInv
      <4>2. \A j \in DOMAIN calls : j >= 1 => Plain(calls[j])
        BY <2>1, <3>1, <3>2, <4>1 DEF SoftLast
      <4> QED BY <3>2, <4>2
    <3>4. AtWork(calls)
      BY <3>3 DEF AtWork, ToSet, Plain
    <3>5. there' = there
      BY <3>2, <3>3, FailDoes DEF Plain
    <3>6. Gets(calls, there, wanted)
      BY <2>4, <3>2, <3>4 DEF GetsInv
    <3>7. Ends(calls) = KeysOf(v)
      <4>1. WorkCalls(calls, Own)
        BY <3>2, Running DEF IInv, WorkInv
      <4> QED BY <2>1, <3>2, <4>1 DEF WorkCalls, WorkCall
    <3>8. \A j \in DOMAIN calls : calls[j].op \notin Setting \cup Renaming
      BY <3>3 DEF Plain
    <3> HIDE DEF v
    <3>9. ASSUME NEW k \in KeysOf(v)
          PROVE  /\ There(cs, there, k)
                 /\ \A x \in DOMAIN Asked(wanted) : Comes(cs, there, k, x, Asked(wanted)[x], "exactly")
      <4>1. /\ There(calls, there, k)
            /\ \A x \in DOMAIN Asked(wanted) : Comes(calls, there, k, x, Asked(wanted)[x], "exactly")
        BY <3>6, <3>7 DEF Gets
      <4>2. There(cs, there, k)
        BY <3>2, <3>8, <4>1, ThereSoftly
      <4>3. ASSUME NEW x \in DOMAIN Asked(wanted) PROVE Comes(cs, there, k, x, Asked(wanted)[x], "exactly")
        <5> DEFINE u == Asked(wanted)[x]
        <5>1. Comes(calls, there, k, x, u, "exactly")
          BY <4>1
        <5> HIDE DEF u
        <5>2. Comes(cs, there, k, x, u, "exactly")
          BY <3>2, <3>8, <5>1, ComesSoftly
        <5> QED BY <5>2 DEF u
      <4> QED BY <4>2, <4>3
    <3> QED BY <2>2, <3>5, <3>9 DEF Gets
  <2>5. kind' = kind /\ wanted' = wanted
    BY FailDoes
  <2>6. Alone' => Alone
    BY <2>1 DEF Alone
  <2> HIDE DEF cs
  <2> QED BY <2>1, <2>3, <2>4, <2>5, <2>6, GetsKept
<1> QED BY <1>1, <1>2, FailDoes

LEMMA GetsBegins ==
  ASSUME NoneIsNoValue, IInv, NamedInv, PlanInv, SoundInv, AppInv, SeenInv, HiddenInv, Begin
  PROVE  GetsInv'
<1>1. kind' = kind /\ pc' = pc /\ wanted' = wanted /\ there' = there /\ calls = <<>> /\ tfstate' = tfstate
  BY BeginDoes
<1>2. CASE calls' = <<fails>>
  BY <1>1, <1>2, FailsOnly, GetsKept
<1>3. CASE pc = "create" /\ calls' = Create(wanted) /\ Creates(wanted)
  BY <1>1, <1>3, GetsKept DEF Creates
<1>4. CASE pc = "update" /\ calls' = Update(tfstate, Plan(tfstate, wanted)) /\ Updates(tfstate, wanted)
  <2>1. SoftLast(calls')
    BY <1>4 DEF Updates
  <2>2. touched' = touched
    BY <1>4, BeginDoes
  <2>3. Alone' => Alone /\ "unseen" \notin touched
    BY <2>2 DEF Alone
  <2>4. tfstate # None /\ Own = KeysOf(tfstate) /\ ~tainted /\ wanted # None
    BY <1>4 DEF IInv, ControlInv, SoundInv, Own, Stated
  <2>5. Alone => Seeing(tfstate)
    BY <1>1, <1>4, <2>4 DEF SeenInv, Seeing
  <2>6. Alone /\ kind \in Hiding => Holding(tfstate, wanted)
    <3>1. Alone /\ kind \in Hiding => Sighted
      BY DEF Alone, Sighted
    <3> QED BY <2>4, <3>1 DEF HiddenInv, HoldingInv, Holding
  <2>7. AtWork(calls') /\ Alone' => Gets(calls', there', wanted)
    BY <1>1, <1>4, <2>3, <2>5, <2>6 DEF Updates, Informed
  <2> QED BY <1>1, <2>1, <2>7, GetsKept
<1>5. CASE pc = "delete"
  BY <1>1, <1>5, GetsKept
<1> QED BY <1>2, <1>3, <1>4, <1>5, Beginning

LEMMA GetsOthers ==
  ASSUME IInv, GetsInv,
         \/ Returned \/ Deleted \/ Read \/ ReadFails
         \/ Vanish \/ OutsideChange \/ Import \/ EditConfig \/ Start \/ UNCHANGED vars
  PROVE  GetsInv'
<1>1. CASE Returned \/ Deleted \/ Read \/ ReadFails \/ Import \/ EditConfig \/ Start
  <2>1. calls' = <<>>
    BY <1>1 DEF Returned, Deleted, Read, Refreshed, ReadFails, Import, EditConfig, Edit, Start, BeginApply, IInv, ControlInv
  <2> QED BY <2>1, GetsKept
<1>2. CASE Vanish \/ OutsideChange
  <2>1. UNCHANGED <<wanted, pc, kind, calls>> /\ (pc # "idle" => "now" \in touched')
    BY <1>2, ChangeDoes
  <2>2. "now" \in touched' => ~Alone'
    BY DEF Alone
  <2> QED BY <2>1, <2>2, GetsKept DEF GetsInv
<1>3. CASE UNCHANGED vars
  <2>1. UNCHANGED <<wanted, pc, kind, calls, there, touched>>
    BY <1>3 DEF vars
  <2>2. Alone' => Alone
    BY <2>1 DEF Alone
  <2> QED BY <2>1, <2>2, GetsKept DEF GetsInv
<1> QED BY <1>1, <1>2, <1>3

-----------------------------------------------------------------------------
(* What Read cannot tell.                                                  *)

LEMMA HiddenKept ==
  ASSUME kind' = kind
  PROVE  /\ (\/ pc' \notin {"create", "update"} \/ calls' = <<>>
             \/ pc' = pc /\ wanted' = wanted /\ (Sighted' /\ AtWork(calls') => Keeps(calls', there', wanted))) => ComingInv'
         /\ (Sighted' /\ tfstate' # None /\ ~tainted' /\ wanted' # None =>
               \A k \in Stated(tfstate') : there'[k] # None => Holds(tfstate', wanted', there'[k])) => HoldingInv'
         /\ (Sighted' /\ tfstate' # None /\ ~tainted' /\ ~Pending' =>
               \A k \in Stated(tfstate') : there'[k] # None => Truthful(tfstate', there'[k])) => TruthInv'
         /\ (Sighted' /\ pc' = "update" => \A c \in ToSet(calls') : Heeds(c, tfstate', wanted')) => HeedingInv'
         /\ (kind \in {"user", "secret_backend"} /\ pc' \in {"create", "update"} =>
              \A c \in ToSet(calls') : c.op = "returns" => \A x \in HiddenFields : c.val[In(x)] = wanted'[In(x)]) => RenewingInv'
<1>1. ASSUME \/ pc' \notin {"create", "update"} \/ calls' = <<>>
             \/ pc' = pc /\ wanted' = wanted /\ (Sighted' /\ AtWork(calls') => Keeps(calls', there', wanted))
      PROVE  ComingInv'
  <2>1. CASE pc' \notin {"create", "update"} \/ calls' = <<>>
    BY <2>1 DEF ComingInv
  <2>2. CASE pc' = pc /\ wanted' = wanted /\ (Sighted' /\ AtWork(calls') => Keeps(calls', there', wanted))
    <3>1. (AtWork(calls)' <=> AtWork(calls')) /\ (Keeps(calls', there', wanted) => Keeps(calls, there, wanted)')
      BY <2>2, RunKept
    <3> QED BY <2>2, <3>1 DEF ComingInv
  <2> QED BY <1>1, <2>1, <2>2
<1>2. Own' = Stated(tfstate')
  BY KindKept DEF Own
<1>3. /\ \A k : Holds(tfstate', wanted', there'[k]) => Holds(tfstate, wanted, there[k])'
      /\ \A k : Truthful(tfstate', there'[k]) => Truthful(tfstate, there[k])'
      /\ \A c : Heeds(c, tfstate', wanted') => Heeds(c, tfstate, wanted)'
  BY ComingKept
<1>4. ASSUME Sighted' /\ tfstate' # None /\ ~tainted' /\ wanted' # None =>
               \A k \in Stated(tfstate') : there'[k] # None => Holds(tfstate', wanted', there'[k])
      PROVE  HoldingInv'
  BY <1>2, <1>3, <1>4 DEF HoldingInv
<1>5. ASSUME Sighted' /\ tfstate' # None /\ ~tainted' /\ ~Pending' =>
               \A k \in Stated(tfstate') : there'[k] # None => Truthful(tfstate', there'[k])
      PROVE  TruthInv'
  BY <1>2, <1>3, <1>5 DEF TruthInv
<1>6. ASSUME Sighted' /\ pc' = "update" => \A c \in ToSet(calls') : Heeds(c, tfstate', wanted')
      PROVE  HeedingInv'
  BY <1>3, <1>6 DEF HeedingInv, ToSet
<1>7. ASSUME kind \in {"user", "secret_backend"} /\ pc' \in {"create", "update"} =>
              \A c \in ToSet(calls') : c.op = "returns" => \A x \in HiddenFields : c.val[In(x)] = wanted'[In(x)]
      PROVE  RenewingInv'
  <2>1. HiddenFields' = HiddenFields /\ \A x : In(x)' = In(x)
    BY KindKept
  <2> QED BY <1>7, <2>1 DEF RenewingInv, ToSet
<1> QED BY <1>1, <1>4, <1>5, <1>6, <1>7

\* Of calls that heed the state, one leaves what is as the configuration has it so.
LEMMA HoldsOn ==
  ASSUME NEW s, NEW w, NEW c, KeepsWhole(c), NEW at, DOMAIN at = Keys, WholeAt(at), ~Refuses(c, at),
         c.op # "rename_named", Heeds(c, s, w), NEW k \in Keys, at[k] # None => Holds(s, w, at[k]),
         c.op = "move" => c.key = k,
         After(c, at)[k] # None
  PROVE  Holds(s, w, After(c, at)[k])
<1> DEFINE obj == After(c, at)[k]
<1>1. ASSUME c.op \in Making \cup {"set"}
      PROVE  Holds(s, w, obj)
  <2>1. CASE c.key # k
    <3>1. obj = at[k]
      BY <1>1, <2>1, AfterSetting DEF Setting
    <3> QED BY <3>1
  <2>2. CASE c.key = k /\ c.op \in Making
    <3>1. obj = c.val /\ Whole(c.val)
      BY <2>2, AfterSetting DEF KeepsWhole, Setting
    <3>2. HiddenFields \subseteq DOMAIN c.val
      BY <3>1, FieldsHidden DEF Whole
    <3> QED BY <2>2, <3>1, <3>2 DEF Heeds, Holds, Setting
  <2>3. CASE c.key = k /\ c.op = "set"
    <3>1. obj = Merged(at[k], c.val) /\ at[k] # None
      BY <2>3, AfterSetting DEF Setting
    <3>2. HiddenFields \subseteq DOMAIN at[k]
      BY <3>1, FieldsHidden DEF WholeAt, Whole
    <3>3. \A x \in HiddenFields : obj[x] = IF x \in DOMAIN c.val THEN c.val[x] ELSE at[k][x]
      BY <3>1, <3>2, MergedField
    <3> HIDE DEF obj
    <3> QED BY <2>3, <3>1, <3>3 DEF Heeds, Holds, Setting
  <2> QED BY <1>1, <2>1, <2>2, <2>3
<1>2. ASSUME c.op = "move"
      PROVE  Holds(s, w, obj)
  <2>1. at[k] # None /\ obj = Merged(at[k], c.val)
    BY <1>2, AfterMoving
  <2>2. HiddenFields \subseteq DOMAIN at[k]
    BY <2>1, FieldsHidden DEF WholeAt, Whole
  <2>3. \A x \in HiddenFields : obj[x] = IF x \in DOMAIN c.val THEN c.val[x] ELSE at[k][x]
    BY <2>1, <2>2, MergedField
  <2> HIDE DEF obj
  <2> QED BY <1>2, <2>1, <2>3 DEF Heeds, Holds
<1>3. ASSUME c.op \in Removing
      PROVE  Holds(s, w, obj)
  <2>1. obj = at[k]
    BY <1>3, AfterCall DEF Reach, Removing
  <2> QED BY <2>1
<1>4. ASSUME c.op \notin Setting \cup Renaming \cup Removing
      PROVE  Holds(s, w, obj)
  BY <1>4, AfterQuiet
<1> QED BY <1>1, <1>2, <1>3, <1>4 DEF Setting, Renaming

\* A call of a Delete changes nothing, but that it may remove it.
LEMMA Leaves ==
  ASSUME NEW c, c.op \notin Setting \cup Renaming, NEW at, DOMAIN at = Keys, NEW k \in Keys
  PROVE  After(c, at)[k] \in {at[k], None}
<1>1. CASE c.op \in Removing
  <2>1. After(c, at)[k] = at[k] \/ k \in Reach(c, at)
    BY AfterCall
  <2>2. Reach(c, at) = {Target(c, at)}
    BY <1>1 DEF Reach, Removing
  <2> QED BY <1>1, <2>1, <2>2, AfterCall
<1>2. CASE c.op \notin Removing
  BY <1>2, AfterQuiet
<1> QED BY <1>1, <1>2

\* Of these kinds a state is about one object.
LEMMA OneKey ==
  ASSUME kind \in Hiding, NEW s, NEW j \in KeysOf(s), NEW k \in KeysOf(s)
  PROVE  j = k
BY DEF Hiding, KeysOf

\* All of it together.
Grounded == IInv /\ NamedInv /\ PlanInv /\ SoundInv /\ SeenInv /\ GetsInv /\ HiddenInv /\ AppInv

LEMMA SinceStays ==
  ASSUME IInv, SinceInv, [Next]_vars
  PROVE  SinceInv'
<1>1. CASE Begin
  <2>1. wanted' = wanted /\ (pc # "create" => touched' = touched)
    BY <1>1, BeginDoes
  <2>2. pc = "create" => wanted # None
    BY DEF IInv, ControlInv
  <2> QED BY <2>1, <2>2 DEF SinceInv
<1>2. CASE Step \/ Refused \/ CallFails \/ AnswerLost \/ Returned \/ Deleted
  <2>1. wanted' = wanted /\ (touched' = touched \/ touched' = touched \cup {"failed"} \/ touched' = touched \ {"failed"})
    BY <1>2 DEF Step, Refused, CallFails, AnswerLost, Fails, Errored, Returned, Deleted, Destroyed
  <2> QED BY <2>1 DEF SinceInv
<1>3. CASE Read \/ ReadFails \/ Start
  <2>1. wanted' = wanted /\ (touched' = touched \/ touched' = touched \ {"since"} \/ touched' = touched \ {"now"})
    BY <1>3 DEF Read, Refreshed, ReadFails, Errored, Start, BeginApply
  <2> QED BY <2>1 DEF SinceInv
<1>4. CASE Vanish \/ OutsideChange
  <2>1. wanted' = wanted /\ (wanted = None => "unseen" \in touched')
    BY <1>4 DEF Vanish, OutsideChange, Seen
  <2> QED BY <2>1 DEF SinceInv
<1>5. CASE Import
  BY <1>5 DEF Import, SinceInv
<1>6. CASE EditConfig
  <2>1. touched' = {"unseen"} \/ (touched' = touched /\ "since" \notin touched)
    BY <1>6 DEF EditConfig
  <2> QED BY <2>1 DEF SinceInv
<1>7. CASE UNCHANGED vars
  BY <1>7 DEF vars, SinceInv
<1> QED BY <1>1, <1>2, <1>3, <1>4, <1>5, <1>6, <1>7 DEF Next, ApplyStep

\* The calls that a step leaves are of the handler, or are none, but for Begin.
LEMMA Remaining ==
  ASSUME IInv, [Next]_vars, ~Begin
  PROVE  /\ kind' = kind
         /\ \/ ToSet(calls') = {}
            \/ ToSet(calls') = {returns(calls[1].soft[1])} /\ calls # <<>> /\ calls[1].soft # <<>> /\ calls[1] \in ToSet(calls)
               /\ pc' = pc
            \/ calls # <<>> /\ ToSet(calls') \subseteq ToSet(calls) /\ pc' = pc
         /\ ToSet(calls') = {} \/ UNCHANGED <<wanted, pc>>
         /\ ToSet(calls') # {} /\ pc = "update" => tfstate' = tfstate \/ calls[1].op = "saves"
         /\ Sighted' /\ ToSet(calls') # {} => Sighted
<1>1. CASE Step
  <2>1. ToSet(calls') \subseteq ToSet(calls) /\ calls # <<>> /\ UNCHANGED <<wanted, pc, kind, touched>>
        /\ (tfstate' = tfstate \/ calls[1].op = "saves")
    BY <1>1, StepDoes
  <2>2. Sighted' => Sighted
    BY <2>1 DEF Sighted
  <2> QED BY <2>1, <2>2
<1>2. CASE Refused \/ CallFails \/ AnswerLost
  <2>1. CASE Flatly
    <3>1. ToSet(calls') = {} /\ kind' = kind
      BY <1>2, <2>1, FailDoes, SetsOfTuples DEF Flatly
    <3> QED BY <3>1
  <2>2. CASE Gently
    <3>1. ToSet(calls') = {returns(calls[1].soft[1])} /\ UNCHANGED <<wanted, pc, kind, touched, tfstate>>
          /\ calls # <<>> /\ calls[1].soft # <<>> /\ calls[1] \in ToSet(calls)
      BY <1>2, <2>2, FailDoes, SetsOfTuples DEF Gently
    <3>2. Sighted' => Sighted
      BY <3>1 DEF Sighted
    <3> QED BY <3>1, <3>2
  <2> QED BY <1>2, <2>1, <2>2, FailDoes
<1>3. CASE Returned \/ Deleted \/ Read \/ ReadFails \/ Import \/ EditConfig \/ Start
  <2>1. calls' = <<>> /\ kind' = kind
    BY <1>3 DEF Returned, Deleted, Read, Refreshed, ReadFails, Import, EditConfig, Edit, Start, BeginApply, IInv, ControlInv
  <2>2. ToSet(calls') = {}
    BY <2>1, SetsOfTuples
  <2> QED BY <2>1, <2>2
<1>4. CASE Vanish \/ OutsideChange \/ UNCHANGED vars
  <2>1. UNCHANGED <<wanted, tfstate, pc, kind, calls>> /\ touched \subseteq touched'
    BY <1>4, ChangeDoes DEF vars
  <2>2. Sighted' => Sighted
    BY <2>1 DEF Sighted
  <2>3. calls = <<>> => ToSet(calls') = {}
    BY <2>1, SetsOfTuples
  <2> QED BY <2>1, <2>2, <2>3
<1> QED BY <1>1, <1>2, <1>3, <1>4 DEF Next, ApplyStep

LEMMA NoSaving ==
  ASSUME IInv, PlanInv, Step, calls[1].op = "saves"
  PROVE  pc = "create"
<1>1. 1 \in DOMAIN calls
  BY StepDoes, Running DEF IInv
<1>2. pc \in {"create", "update"} => PlannedCall(calls[1])
  BY <1>1 DEF PlanInv, PlannedCalls
<1>3. pc = "delete" => calls[1].op # "saves"
  <2>1. pc = "delete" => DeleteInv
    BY StepDoes, Running DEF IInv
  <2> QED BY <1>1, <2>1 DEF DeleteInv, DeleteCalls, DeleteCall
<1> QED BY <1>2, <1>3, StepDoes DEF PlannedCall

LEMMA LeavingStays ==
  ASSUME NoneIsNoValue, Grounded, [Next]_vars
  PROVE  LeavingInv'
<1>1. \A v : returns(v).op \notin Setting \cup Renaming
  BY Singles DEF Setting, Making, Renaming
<1>2. CASE Begin
  <2>1. kind' = kind /\ pc' = pc
    BY <1>2, BeginDoes
  <2>2. CASE calls' = <<fails>>
    <3>1. ToSet(calls') = {fails} /\ fails.op \notin Setting \cup Renaming
      BY <2>2, SetsOfTuples, Singles DEF Setting, Making, Renaming
    <3> QED BY <3>1 DEF LeavingInv, ToSet
  <2>3. CASE pc = "delete" /\ AllDelete(calls')
    <3>1. kind \in Hiding => \A c \in ToSet(calls') : c.op \notin Setting \cup Renaming
      BY <2>3, DeletingIsSound DEF AllDelete
    <3> QED BY <2>1, <3>1 DEF LeavingInv, ToSet
  <2>4. CASE pc # "delete"
    BY <2>1, <2>4 DEF LeavingInv
  <2> QED BY <1>2, <2>2, <2>3, <2>4, Beginning DEF Grounded
<1>3. CASE ~Begin
  <2>1. pc' = "delete" /\ kind \in Hiding => \A c \in ToSet(calls') : c.op \notin Setting \cup Renaming
    BY <1>1, <1>3, Remaining DEF Grounded, HiddenInv, LeavingInv
  <2>2. kind' = kind
    BY <1>3, Remaining DEF Grounded
  <2> QED BY <2>1, <2>2 DEF LeavingInv, ToSet
<1> QED BY <1>2, <1>3

LEMMA RenewingStays ==
  ASSUME NoneIsNoValue, Grounded, [Next]_vars
  PROVE  RenewingInv'
<1>1. CASE Begin
  <2>1. kind' = kind /\ pc' = pc /\ wanted' = wanted
    BY <1>1, BeginDoes
  <2>2. ASSUME kind \in {"user", "secret_backend"}, pc \in {"create", "update"}
        PROVE  \A c \in ToSet(calls') : c.op = "returns" => \A x \in HiddenFields : c.val[In(x)] = wanted[In(x)]
    <3>1. calls' = <<fails>> => ToSet(calls') = {fails} /\ fails.op = "fails"
      BY SetsOfTuples, Singles
    <3> QED BY <1>1, <2>2, <3>1, Beginning DEF Creates, Updates, Grounded
  <2> QED BY <2>1, <2>2, HiddenKept
<1>2. CASE ~Begin
  <2>1. kind' = kind
    BY <1>2, Remaining DEF Grounded
  <2>2. ASSUME kind \in {"user", "secret_backend"}, pc' \in {"create", "update"}, NEW c \in ToSet(calls'), c.op = "returns",
               NEW x \in HiddenFields
        PROVE  c.val[In(x)] = wanted'[In(x)]
    <3>1. pc' = pc /\ wanted' = wanted
      BY <1>2, <2>2, Remaining DEF Grounded
    <3>2. \A d \in ToSet(calls) : d.soft = <<>>
      BY <2>2, <3>1 DEF Grounded, SoundInv, SoundWork
    <3>3. c \in ToSet(calls)
      BY <1>2, <2>2, <3>2, Remaining DEF Grounded
    <3> QED BY <2>2, <3>1, <3>3 DEF Grounded, HiddenInv, RenewingInv
  <2> QED BY <2>1, <2>2, HiddenKept
<1> QED BY <1>1, <1>2

LEMMA HeedingStays ==
  ASSUME NoneIsNoValue, Grounded, [Next]_vars
  PROVE  HeedingInv'
<1>1. CASE Begin
  <2>1. kind' = kind /\ pc' = pc /\ wanted' = wanted /\ tfstate' = tfstate
    BY <1>1, BeginDoes
  <2>2. ASSUME Sighted', pc = "update"
        PROVE  \A c \in ToSet(calls') : Heeds(c, tfstate, wanted)
    <3>1. Sighted
      BY <1>1, <2>2, BeginDoes DEF Sighted
    <3>2. CASE calls' = <<fails>>
      <4>1. ToSet(calls') = {fails} /\ fails.op \notin Setting \cup {"move"}
        BY <3>2, SetsOfTuples, Singles DEF Setting, Making
      <4> QED BY <4>1 DEF Heeds
    <3>3. CASE calls' = Update(tfstate, Plan(tfstate, wanted)) /\ Updates(tfstate, wanted)
      <4>1. Holding(tfstate, wanted)
        <5>1. tfstate # None /\ Own = KeysOf(tfstate) /\ ~tainted /\ wanted # None
          BY <2>2 DEF Grounded, IInv, ControlInv, SoundInv, Own, Stated
        <5> QED BY <3>1, <5>1 DEF Grounded, HiddenInv, HoldingInv, Holding
      <4> QED BY <3>1, <3>3, <4>1 DEF Updates
    <3> QED BY <1>1, <2>2, <3>2, <3>3, Beginning DEF Grounded
  <2> QED BY <2>1, <2>2, HiddenKept
<1>2. CASE ~Begin
  <2>1. kind' = kind
    BY <1>2, Remaining DEF Grounded
  <2>2. ASSUME Sighted', pc' = "update", NEW c \in ToSet(calls')
        PROVE  Heeds(c, tfstate', wanted')
    <3>1. pc' = pc /\ wanted' = wanted /\ Sighted
      BY <1>2, <2>2, Remaining DEF Grounded
    <3>2. CASE calls # <<>> /\ c = returns(calls[1].soft[1])
      <4>1. c.op = "returns"
        BY <3>2, Singles
      <4> QED BY <4>1 DEF Heeds, Setting, Making
    <3>3. CASE c \in ToSet(calls)
      <4>1. tfstate' = tfstate
        <5>1. CASE Step
          BY <2>2, <3>1, <5>1, NoSaving, StepDoes DEF Grounded
        <5>2. CASE ~Step
          <6>0. Returned \/ Deleted \/ Read \/ ReadFails \/ Import \/ EditConfig \/ Start => calls' = <<>>
            BY DEF Returned, Deleted, Read, Refreshed, ReadFails, Import, EditConfig, Edit, Start, BeginApply,
                   Grounded, IInv, ControlInv
          <6>1. \/ Refused \/ CallFails \/ AnswerLost \/ Vanish \/ OutsideChange \/ UNCHANGED vars
                \/ calls' = <<>>
            BY <1>2, <5>2, <6>0 DEF Next, ApplyStep
          <6>2. calls' # <<>>
            BY <2>2, SetsOfTuples
          <6> QED BY <6>1, <6>2, FailDoes, ChangeDoes DEF vars, Grounded
        <5> QED BY <5>1, <5>2
      <4> QED BY <2>2, <3>1, <3>3, <4>1 DEF Grounded, HiddenInv, HeedingInv
    <3> QED BY <1>2, <2>2, <3>2, <3>3, Remaining DEF Grounded
  <2> QED BY <2>1, <2>2, HiddenKept
<1> QED BY <1>1, <1>2

LEMMA ComesChanged ==
  ASSUME NEW cs, cs[1].op = "move" => cs[1].key \in Keys, NEW at, NEW to, NEW k \in Keys, NEW x, NEW v,
         Comes(cs, at, k, x, v, "allowed"),
         \A j \in Keys : to[j] # None => at[j] # None /\ (to[j][x] = at[j][x] \/ Allows(x, v, to[j][x]))
  PROVE  Comes(cs, to, k, x, v, "allowed")
<1>1. \A j \in Keys : Is(at, j, x, v, "allowed") => Is(to, j, x, v, "allowed")
  BY DEF Is, Ok
<1> QED BY <1>1 DEF Comes

\* What somebody else changes, as Read sees it or will.
LEMMA SeenAll ==
  ASSUME NoneIsNoValue, Grounded, Vanish \/ OutsideChange, Sighted'
  PROVE  /\ kind \in Hiding /\ Sighted
         /\ \A j \in Keys : there'[j] # None =>
              /\ there[j] # None
              /\ \A x \in HiddenFields : there'[j][x] = there[j][x] \/ (wanted \in Configs /\ Likely(x, there'[j]))
<1>1. kind \in Hiding /\ "unseen" \notin touched' /\ Sighted
  BY ChangeDoes DEF Sighted, Grounded
<1>2. ASSUME NEW j \in Keys, there'[j] # None
      PROVE  /\ there[j] # None
             /\ \A x \in HiddenFields : there'[j][x] = there[j][x] \/ (wanted \in Configs /\ Likely(x, there'[j]))
  <2>1. CASE there'[j] = there[j]
    BY <1>2, <2>1
  <2>2. CASE Seen(there[j], there'[j])
    <3>1. there[j] # None /\ wanted # None
      BY <2>2 DEF Seen
    <3>2. wanted \in Configs
      BY <3>1 DEF Grounded, IInv, ControlInv
    <3>3. Whole(there[j])
      BY <3>1 DEF Grounded, SoundInv, WholeAt
    <3>4. Whole(there'[j])
      <4>1. there'[j] = there[j] \/ there'[j] \in Objects
        BY <1>2, ChangeDoes DEF Grounded
      <4> QED BY <3>3, <4>1, ObjectsAreWhole DEF Grounded, IInv, ControlInv
    <3>5. \A x \in HiddenFields : there'[j][x] = there[j][x] \/ Likely(x, there'[j])
      BY <1>1, <2>2, <3>2, <3>3, <3>4, SeenChanges
    <3> QED BY <3>1, <3>2, <3>5
  <2> QED BY <1>1, <2>1, <2>2, ChangeDoes DEF Grounded
<1> QED BY <1>1, <1>2

LEMMA ComingSteps ==
  ASSUME Grounded, Step
  PROVE  ComingInv'
<1> SUFFICES ASSUME pc \in {"create", "update"} PROVE ComingInv'
  BY StepDoes, HiddenKept DEF Grounded
<1>1. /\ calls # <<>> /\ Final(calls) /\ calls[1].op \notin {"returns", "fails"} /\ ~Refuses(calls[1], there)
      /\ DOMAIN there = Keys /\ there' = After(calls[1], there) /\ calls' = Tail(calls) /\ Ends(calls') = Ends(calls)
      /\ kind' = kind /\ pc' = pc /\ wanted' = wanted /\ touched' = touched
  BY StepDoes DEF Grounded
<1>2. KeepsWhole(calls[1]) /\ calls[1].op \notin Removing /\ WholeAt(there)
  BY StepDoes DEF Grounded, SoundInv, SoundWork, KeepsWhole
<1>3. AtWork(calls') <=> AtWork(calls)
  BY <1>1, Goes
<1>4. ASSUME AtWork(calls), Sighted PROVE Keeps(calls', there', wanted)
  <2> SUFFICES ASSUME NEW k \in Ends(calls), NEW x \in HiddenFields
               PROVE  Comes(calls', there', k, x, wanted[In(x)], "allowed")
    BY <1>1 DEF Keeps
  <2>1. k \in Keys /\ x \in FieldsOf
    BY <1>1, EndsAreKeys, FieldsHidden DEF Grounded
  <2> DEFINE v == wanted[In(x)]
  <2>2. Comes(calls, there, k, x, v, "allowed")
    BY <1>1, <1>4 DEF Grounded, HiddenInv, ComingInv, Keeps
  <2> HIDE DEF v
  <2>3. Comes(calls', there', k, x, v, "allowed")
    BY <1>1, <1>2, <2>1, <2>2, ComesOn
  <2> QED BY <2>3 DEF v
<1>5. Sighted' => Sighted
  BY <1>1 DEF Sighted
<1> QED BY <1>1, <1>3, <1>4, <1>5, HiddenKept

LEMMA ComingFails ==
  ASSUME Grounded, Refused \/ CallFails \/ AnswerLost
  PROVE  ComingInv'
<1>0. kind' = kind
  BY FailDoes DEF Grounded
<1>1. CASE Flatly
  BY <1>0, <1>1, HiddenKept DEF Flatly
<1>2. CASE Gently
  <2> SUFFICES ASSUME pc \in {"create", "update"} PROVE ComingInv'
    BY <1>0, <1>2, HiddenKept DEF Gently
  <2> DEFINE v == calls[1].soft[1]
             cs == <<returns(v)>>
  <2>1. calls[1].soft # <<>> /\ calls' = cs /\ pc' = pc /\ touched' = touched
    BY <1>2 DEF Gently
  <2>2. /\ \A k, x, w, how : Still(cs, k, x, w, how)
        /\ Ends(cs) = KeysOf(v) /\ ToSet(cs) = {returns(v)}
    BY ReturnsSpare
  <2>4. ASSUME AtWork(cs), Sighted PROVE Keeps(cs, there', wanted)
    <3>1. ~Off(v)
      <4>1. returns(v).op = "returns" /\ returns(v).val = v
        BY Singles
      <4> HIDE DEF v
      <4> QED BY <2>2, <2>4, <4>1 DEF AtWork, Good
    <3>2. /\ 1 \in DOMAIN calls /\ Final(calls) /\ DOMAIN calls = 1..Len(calls) /\ calls # <<>>
      BY FailDoes DEF Final, Grounded
    <3>3. \A j \in DOMAIN calls : Plain(calls[j])
      <4>1. SoftLast(calls)
        BY <3>2 DEF GetsInv, Grounded
      <4>2. \A j \in DOMAIN calls : j >= 1 => Plain(calls[j])
        BY <2>1, <3>1, <3>2, <4>1 DEF SoftLast
      <4> QED BY <3>2, <4>2
    <3>4. AtWork(calls)
      BY <3>3 DEF AtWork, ToSet, Plain
    <3>5. there' = there
      BY <3>2, <3>3, FailDoes DEF Plain, Grounded
    <3>6. Keeps(calls, there, wanted)
      BY <2>4, <3>2, <3>4 DEF Grounded, HiddenInv, ComingInv
    <3>7. Ends(calls) = KeysOf(v)
      <4>1. WorkCalls(calls, Own)
        BY <3>2, Running DEF IInv, WorkInv, Grounded
      <4> QED BY <2>1, <3>2, <4>1 DEF WorkCalls, WorkCall
    <3>8. \A j \in DOMAIN calls : calls[j].op \notin Setting \cup Renaming
      BY <3>3 DEF Plain
    <3> HIDE DEF v
    <3>9. ASSUME NEW k \in KeysOf(v), NEW x \in HiddenFields
          PROVE  Comes(cs, there, k, x, wanted[In(x)], "allowed")
      <4> DEFINE u == wanted[In(x)]
      <4>1. Comes(calls, there, k, x, u, "allowed")
        BY <3>6, <3>7 DEF Keeps
      <4> HIDE DEF u
      <4>2. Comes(cs, there, k, x, u, "allowed")
        BY <3>2, <3>8, <4>1, ComesSoftly
      <4> QED BY <4>2 DEF u
    <3> QED BY <2>2, <3>5, <3>9 DEF Keeps
  <2>5. wanted' = wanted
    BY FailDoes DEF Grounded
  <2>6. Sighted' => Sighted
    BY <1>0, <2>1 DEF Sighted
  <2> HIDE DEF cs
  <2> QED BY <1>0, <2>1, <2>4, <2>5, <2>6, HiddenKept
<1> QED BY <1>1, <1>2, FailDoes DEF Grounded

LEMMA ComingBegins ==
  ASSUME NoneIsNoValue, Grounded, Begin
  PROVE  ComingInv'
<1>1. kind' = kind /\ pc' = pc /\ wanted' = wanted /\ there' = there
  BY BeginDoes
<1>2. CASE calls' = <<fails>>
  BY <1>1, <1>2, FailsOnly, HiddenKept
<1>3. CASE pc = "create" /\ calls' = Create(wanted) /\ Creates(wanted)
  <2>1. Sighted' => kind \in Hiding
    BY <1>1 DEF Sighted
  <2> QED BY <1>1, <1>3, <2>1, HiddenKept DEF Creates
<1>4. CASE pc = "update" /\ calls' = Update(tfstate, Plan(tfstate, wanted)) /\ Updates(tfstate, wanted)
  <2>1. Sighted' => Sighted
    BY <1>1, <1>4, BeginDoes DEF Sighted
  <2>2. tfstate # None /\ Own = KeysOf(tfstate) /\ ~tainted /\ wanted # None
    BY <1>4 DEF Grounded, IInv, ControlInv, SoundInv, Own, Stated
  <2>3. Sighted => Holding(tfstate, wanted)
    BY <2>2 DEF Grounded, HiddenInv, HoldingInv, Holding
  <2> QED BY <1>1, <1>4, <2>1, <2>3, HiddenKept DEF Updates
<1>5. CASE pc = "delete"
  BY <1>1, <1>5, HiddenKept
<1> QED BY <1>2, <1>3, <1>4, <1>5, Beginning DEF Grounded

LEMMA ComingChanges ==
  ASSUME NoneIsNoValue, Grounded, Vanish \/ OutsideChange
  PROVE  ComingInv'
<1>1. UNCHANGED <<wanted, pc, kind, calls>>
  BY ChangeDoes DEF Grounded
<1>2. CASE calls = <<>> \/ pc \notin {"create", "update"}
  BY <1>1, <1>2, HiddenKept
<1>3. CASE calls # <<>> /\ pc \in {"create", "update"}
  <2>1. ASSUME Sighted', AtWork(calls) PROVE Keeps(calls, there', wanted)
    <3> SUFFICES ASSUME NEW k \in Ends(calls), NEW x \in HiddenFields
                 PROVE  Comes(calls, there', k, x, wanted[In(x)], "allowed")
      BY DEF Keeps
    <3>1. k \in Keys
      BY <1>3, EndsAreKeys DEF Grounded
    <3> DEFINE v == wanted[In(x)]
    <3>2. Comes(calls, there, k, x, v, "allowed")
      BY <1>3, <2>1, SeenAll DEF Grounded, HiddenInv, ComingInv, Keeps
    <3>3. \A j \in Keys : there'[j] # None => there[j] # None /\ (there'[j][x] = there[j][x] \/ Allows(x, v, there'[j][x]))
      BY <2>1, SeenAll DEF Likely
    <3>4. calls[1].op = "move" => calls[1].key \in Keys
      <4>1. calls[1] \in ToSet(calls)
        BY <1>3, Running DEF Grounded, IInv, ToSet
      <4> QED BY <4>1 DEF Grounded, SoundInv, SoundWork, KeepsWhole
    <3> HIDE DEF v
    <3>5. Comes(calls, there', k, x, v, "allowed")
      BY <3>1, <3>2, <3>3, <3>4, ComesChanged
    <3> QED BY <3>5 DEF v
  <2> QED BY <1>1, <2>1, HiddenKept
<1> QED BY <1>2, <1>3

LEMMA ComingStays ==
  ASSUME NoneIsNoValue, Grounded, [Next]_vars
  PROVE  ComingInv'
<1>1. CASE Returned \/ Deleted \/ Read \/ ReadFails \/ Import \/ EditConfig \/ Start
  <2>1. calls' = <<>> /\ kind' = kind
    BY <1>1 DEF Returned, Deleted, Read, Refreshed, ReadFails, Import, EditConfig, Edit, Start, BeginApply,
                Grounded, IInv, ControlInv
  <2> QED BY <2>1, HiddenKept
<1>2. CASE UNCHANGED vars
  <2>1. UNCHANGED <<wanted, pc, kind, calls, there, touched>>
    BY <1>2 DEF vars
  <2>2. Sighted' => Sighted
    BY <2>1 DEF Sighted
  <2>3. ComingInv
    BY DEF Grounded, HiddenInv
  <2> QED BY <2>1, <2>2, <2>3, HiddenKept DEF ComingInv
<1> QED BY <1>1, <1>2, ComingSteps, ComingFails, ComingBegins, ComingChanges DEF Next, ApplyStep

\* What a handler of the kinds in question has done for the state that it returns.
LEMMA ReturnsAllowed ==
  ASSUME Grounded, Returned, Sighted, ~Off(calls[1].val)
  PROVE  \A k \in KeysOf(calls[1].val) : there[k] # None => \A x \in HiddenFields : Allows(x, wanted[In(x)], there[k][x])
<1>1. /\ calls # <<>> /\ Final(calls) /\ calls[1].op = "returns" /\ pc \in {"create", "update"}
      /\ Ends(calls) = KeysOf(calls[1].val)
  BY ReturnDoes DEF Grounded
<1>2. AtWork(calls)
  <2>1. DOMAIN calls = {1}
    BY <1>1, Returning
  <2>2. Good(calls[1])
    BY <1>1 DEF Good
  <2> QED BY <2>1, <2>2 DEF AtWork, ToSet
<1>3. Keeps(calls, there, wanted)
  BY <1>1, <1>2 DEF Grounded, HiddenInv, ComingInv
<1>4. ASSUME NEW k \in KeysOf(calls[1].val), there[k] # None, NEW x \in HiddenFields
      PROVE  Allows(x, wanted[In(x)], there[k][x])
  <2> DEFINE v == wanted[In(x)]
  <2>1. Comes(calls, there, k, x, v, "allowed")
    BY <1>1, <1>3, <1>4 DEF Keeps
  <2> HIDE DEF v
  <2>2. Is(there, k, x, v, "allowed")
    BY <1>1, <2>1, HasCome
  <2> QED BY <1>4, <2>2 DEF Is, Ok, v
<1> QED BY <1>4

LEMMA ReturnsOn ==
  ASSUME Grounded, Returned, kind \in Hiding, ~tainted'
  PROVE  ~Off(calls[1].val) /\ (\A x \in HiddenFields : calls[1].val[In(x)] = wanted[In(x)])
<1>1. /\ calls # <<>> /\ calls[1].op = "returns" /\ calls[1] \in ToSet(calls)
      /\ pc \in {"create", "update"} /\ (pc = "create" => Consistent(calls[1].val))
  <2>1. tainted' = (pc = "create" /\ ~Consistent(calls[1].val))
    BY ReturnDoes DEF Grounded
  <2>2. pc = "create" => Consistent(calls[1].val)
    BY <2>1
  <2> QED BY <2>2, ReturnDoes DEF Grounded
<1>2. kind \in AllKinds /\ wanted \in Configs
  BY <1>1 DEF Grounded, IInv, ControlInv
<1>3. Off(calls[1].val) => FALSE
  <2>1. Off(calls[1].val) => pc = "create"
    BY DEF Off
  <2> QED BY <1>1, <1>2, <2>1, OffIsOther
<1>4. Consistent(calls[1].val) => \A x \in HiddenFields : calls[1].val[In(x)] = wanted[In(x)]
  BY <1>2, ConsistentIsHidden DEF Consistent
<1>5. CASE kind \in {"user", "secret_backend"}
  BY <1>1, <1>3, <1>5 DEF Grounded, HiddenInv, RenewingInv
<1>6. CASE kind \notin {"user", "secret_backend"} /\ pc = "update"
  <2>1. 1 \in DOMAIN calls
    BY <1>1, Running DEF Grounded, IInv
  <2>2. AsPlanned(calls[1].val)
    BY <1>1, <2>1 DEF Grounded, PlanInv, PlannedCalls, PlannedCall
  <2>3. ~Excepted(calls[1].val)
    BY <1>6 DEF Excepted, PlannedOtherwise, Hiding
  <2> QED BY <1>3, <1>4, <2>2, <2>3 DEF AsPlanned
<1> QED BY <1>1, <1>3, <1>4, <1>5, <1>6

\* What a call of an Update leaves, or of a Delete.
LEMMA HoldsAfter ==
  ASSUME Grounded, calls # <<>>, there' = After(calls[1], there), ~Refuses(calls[1], there),
         Sighted, tfstate # None, ~tainted
  PROVE  /\ pc # "create"
         /\ pc = "delete" => \A k \in Own : there'[k] \in {there[k], None}
         /\ wanted # None => \A k \in Own : there'[k] # None => Holds(tfstate, wanted, there'[k])
<1>1. pc \in {"create", "update", "delete"} /\ calls[1] \in ToSet(calls) /\ 1 \in DOMAIN calls /\ DOMAIN there = Keys
  <2>1. 1 \in DOMAIN calls /\ pc \in {"create", "update", "delete"}
    BY Running DEF Grounded, IInv
  <2> QED BY <2>1 DEF Grounded, IInv, ThereInv, ToSet
<1>2. pc # "create"
  BY DEF Grounded, SoundInv
<1>3. Own = KeysOf(tfstate) /\ Own \subseteq Keys
  BY DEF Own, Stated, Grounded, SoundInv, Proper
<1>4. KeepsWhole(calls[1]) /\ WholeAt(there)
  BY <1>1 DEF Grounded, SoundInv, SoundWork
<1>5. CASE pc = "update"
  <2>1. \A k \in Own : there[k] # None => Holds(tfstate, wanted, there[k])
    BY <1>5 DEF Grounded, HiddenInv, HoldingInv, IInv, ControlInv
  <2>2. Heeds(calls[1], tfstate, wanted)
    BY <1>1, <1>5 DEF Grounded, HiddenInv, HeedingInv
  <2>3. calls[1].op # "rename_named"
    BY <1>4 DEF KeepsWhole, NamedKinds, Sighted, Hiding
  <2>4. calls[1].op = "move" => calls[1].key \in Own
    <3>1. WorkCalls(calls, Own)
      BY <1>5, Running DEF Grounded, IInv, WorkInv
    <3> QED BY <1>1, <3>1 DEF WorkCalls, WorkCall
  <2>5. ASSUME NEW k \in Own, there'[k] # None
        PROVE  Holds(tfstate, wanted, there'[k])
    <3>1. calls[1].op = "move" => calls[1].key = k
      BY <1>3, <2>4, <2>5, OneKey DEF Sighted
    <3> DEFINE c == calls[1]
    <3>2. /\ KeepsWhole(c) /\ ~Refuses(c, there) /\ c.op # "rename_named" /\ Heeds(c, tfstate, wanted)
          /\ (c.op = "move" => c.key = k) /\ there' = After(c, there)
      BY <1>4, <2>2, <2>3, <3>1
    <3> HIDE DEF c
    <3>3. After(c, there)[k] # None
      BY <2>5, <3>2
    <3>4. Holds(tfstate, wanted, After(c, there)[k])
      BY <1>1, <1>3, <1>4, <2>1, <2>5, <3>2, <3>3, HoldsOn
    <3> QED BY <3>2, <3>4
  <2> QED BY <1>5, <2>5
<1>6. CASE pc = "delete"
  <2>1. calls[1].op \notin Setting \cup Renaming
    BY <1>1, <1>6 DEF Grounded, HiddenInv, LeavingInv, Sighted
  <2>2. ASSUME NEW k \in Own PROVE there'[k] \in {there[k], None}
    <3> DEFINE c == calls[1]
    <3>1. c.op \notin Setting \cup Renaming /\ there' = After(c, there)
      BY <2>1
    <3> HIDE DEF c
    <3> QED BY <1>1, <1>3, <3>1, Leaves
  <2>3. wanted # None => \A k \in Own : there[k] # None => Holds(tfstate, wanted, there[k])
    BY DEF Grounded, HiddenInv, HoldingInv
  <2> QED BY <1>2, <1>6, <2>2, <2>3
<1> QED BY <1>1, <1>2, <1>5, <1>6

LEMMA HoldingWorks ==
  ASSUME Grounded, Step \/ Refused \/ CallFails \/ AnswerLost
  PROVE  HoldingInv' /\ TruthInv'
<1>1. CASE Step /\ calls[1].op = "saves"
  <2>1. kind' = kind
    BY <1>1, StepDoes DEF Grounded
  <2>2. tainted'
    BY <1>1, StepDoes DEF Grounded
  <2> QED BY <2>1, <2>2, HiddenKept
<1>2. CASE ~(Step /\ calls[1].op = "saves")
  <2>1. /\ calls # <<>> /\ UNCHANGED <<wanted, tfstate, tainted, kind>>
        /\ there' = there \/ (there' = After(calls[1], there) /\ ~Refuses(calls[1], there))
    BY <1>2, StepDoes, FailDoes DEF Grounded
  <2>2. tainted' <=> tainted
    BY <2>1
  <2>3. touched' = touched \/ touched' = touched \cup {"failed"}
    BY StepDoes, FailDoes DEF Grounded, Gently, Flatly
  <2>4. Sighted' <=> Sighted
    BY <2>1, <2>3 DEF Sighted
  <2>5. Stated(tfstate') = Own
    BY <2>1 DEF Own
  <2>6. ASSUME Sighted, tfstate # None, ~tainted, wanted # None, NEW k \in Own, there'[k] # None
        PROVE  Holds(tfstate, wanted, there'[k])
    BY <2>1, <2>6, HoldsAfter DEF Grounded, HiddenInv, HoldingInv
  <2>7. ASSUME Sighted, tfstate # None, ~tainted, ~Pending', NEW k \in Own, there'[k] # None
        PROVE  Truthful(tfstate, there'[k])
    <3>1. pc # "create"
      BY <2>7 DEF Grounded, SoundInv
    <3>2. pc = "delete" /\ ~Pending
      <4>1. pc \in {"create", "update", "delete"} /\ (pc = "update" => pc' = "update" \/ "failed" \in touched')
        BY StepDoes, FailDoes DEF Grounded, Gently, Flatly
      <4>2. pc = "delete"
        BY <2>7, <3>1, <4>1 DEF Pending
      <4> QED BY <2>1, <2>3, <2>7, <4>2 DEF Pending
    <3>3. there'[k] = there[k]
      BY <2>1, <2>7, <3>2, HoldsAfter
    <3> QED BY <2>7, <3>2, <3>3 DEF Grounded, HiddenInv, TruthInv
  <2> QED BY <2>1, <2>2, <2>4, <2>5, <2>6, <2>7, HiddenKept
<1> QED BY <1>1, <1>2

LEMMA HoldingReturns ==
  ASSUME Grounded, Returned
  PROVE  HoldingInv' /\ TruthInv'
<1>1. /\ kind' = kind /\ wanted' = wanted /\ there' = there /\ tfstate' = calls[1].val
      /\ touched' = touched \ {"failed"}
  BY ReturnDoes DEF Grounded
<1>2. Sighted' <=> Sighted
  BY <1>1 DEF Sighted
<1> DEFINE v == calls[1].val
<1>3. ASSUME Sighted, tfstate' # None, ~tainted', NEW k \in Stated(v), there[k] # None
      PROVE  Truthful(v, there[k]) /\ Holds(v, wanted, there[k])
  <2>1. kind \in Hiding /\ k \in KeysOf(v)
    BY <1>1, <1>3 DEF Sighted, Stated
  <2>2. ~Off(v) /\ (\A x \in HiddenFields : v[In(x)] = wanted[In(x)])
    BY <1>3, <2>1, ReturnsOn
  <2>3. \A x \in HiddenFields : Allows(x, wanted[In(x)], there[k][x])
    BY <1>3, <2>1, <2>2, ReturnsAllowed
  <2>4. Holds(v, wanted, there[k])
    BY <2>3, AllowedHolds
  <2> QED BY <2>2, <2>4, HoldsTruthful
<1> QED BY <1>1, <1>2, <1>3, HiddenKept

LEMMA ReadTaints ==
  ASSUME Read
  PROVE  tfstate' # None => (tainted' <=> tainted)
BY DEF Read, Refreshed

LEMMA ModelsNamed ==
  ASSUME NoneIsNoState, NoneIsNoConfig, NoneIsNoValue, Grounded, kind = "model", Read, tfstate' # None, wanted \in Configs
  PROVE  ~Replaced(tfstate', Plan(tfstate', wanted))
<1>1. tfstate' \in ReadOf(tfstate) /\ tfstate # None
  BY ReadDoes DEF Read, Refreshed, Grounded
<1>2. Proper(tfstate) /\ WholeAt(there)
  BY <1>1 DEF Grounded, SoundInv
<1>3. tfstate.id \in Keys /\ "name" \in DOMAIN tfstate
  BY <1>2 DEF Proper, KeysOf, StateFields
<1>4. there[tfstate.id] # None /\ tfstate'.name = there[tfstate.id].name
  BY <1>1, <1>3 DEF ReadOf, ModelRead, ReadModel
<1>5. tfstate'.name = "a"
  BY <1>2, <1>3, <1>4 DEF WholeAt, Whole, OneName
<1>6. Plan(tfstate', wanted).name = "a"
  BY PlannedModels
<1>7. Replaced(tfstate', Plan(tfstate', wanted)) <=> tfstate'.name # Plan(tfstate', wanted).name
  BY DEF Replaced, ModelReplaced
<1> QED BY <1>5, <1>6, <1>7

LEMMA HoldingReads ==
  ASSUME NoneIsNoState, NoneIsNoConfig, NoneIsNoValue, Grounded, Read
  PROVE  HoldingInv' /\ TruthInv'
<1>1. /\ pc = "read" /\ tfstate # None /\ Own = KeysOf(tfstate)
      /\ UNCHANGED <<wanted, kind, there>> /\ touched' = touched \ {"since"}
      /\ wanted \in Configs \cup {None}
  BY ReadDoes DEF Grounded
<1>2. Sighted' <=> Sighted
  BY <1>1 DEF Sighted
<1>3. tfstate' # None =>
        /\ Stated(tfstate') = Own
        /\ \A k \in Own : Finds(tfstate, tfstate', k)
  BY <1>1, ReadDoes DEF Grounded
<1>4. tfstate' # None => (tainted' <=> tainted)
  BY ReadTaints
<1>5. ASSUME Sighted, tfstate' # None, ~tainted, wanted # None, NEW k \in Own, there[k] # None
      PROVE  Holds(tfstate', wanted, there[k])
  <2>1. Holds(tfstate, wanted, there[k])
    BY <1>1, <1>5 DEF Grounded, HiddenInv, HoldingInv
  <2>2. \A x \in HiddenFields : tfstate'[In(x)] = tfstate[In(x)] \/ Allows(x, tfstate'[In(x)], there[k][x])
    BY <1>3, <1>5 DEF Finds
  <2> QED BY <2>1, <2>2 DEF Holds
<1>6. ASSUME Sighted, tfstate' # None, ~tainted, ~tainted', ~Pending', NEW k \in Own, there[k] # None
      PROVE  Truthful(tfstate', there[k])
  <2>1. CASE "since" \in touched /\ kind \in {"secret", "model"}
    <3>1. wanted # None
      BY <1>6, <2>1 DEF Sighted, Grounded, HiddenInv, SinceInv
    <3>2. wanted \in Configs /\ kind \in AllKinds
      BY <1>1, <3>1 DEF Grounded, IInv, ControlInv
    <3>3. ~Replaced(tfstate', Plan(tfstate', wanted))
      <4>1. kind = "secret" => ~Replaced(tfstate', Plan(tfstate', wanted))
        BY DEF Replaced
      <4> QED BY <1>6, <2>1, <3>2, <4>1, ModelsNamed
    <3>4. pc' = "idle"
      <4>1. pc' \in {"idle", "create", "delete", "update"} /\ pc' # "update" /\ (pc' = "create" => tfstate' = None)
        BY <1>6, ReadDoes DEF Pending, Grounded
      <4>2. pc' = "delete" => tainted' \/ Replaced(tfstate', Plan(tfstate', wanted))
        BY <3>2, ReadDoes DEF Grounded
      <4>3. pc' # "delete"
        BY <1>6, <3>3, <4>2
      <4> QED BY <1>6, <4>1, <4>3
    <3>5. AgreesWith(tfstate', Plan(tfstate', wanted))
      BY <1>6, <3>4, ReadDoes DEF Grounded
    <3>6. \A x \in HiddenFields : tfstate'[In(x)] = wanted[In(x)]
      <4> DEFINE s == tfstate'
      <4>1. AgreesWith(s, Plan(s, wanted))
        BY <3>5
      <4> HIDE DEF s
      <4>2. \A x \in HiddenFields : s[In(x)] = wanted[In(x)]
        BY <3>2, <4>1, ConsistentIsHidden
      <4> QED BY <4>2 DEF s
    <3> QED BY <1>5, <1>6, <3>1, <3>6, HoldsTruthful
  <2>2. CASE ~("since" \in touched /\ kind \in {"secret", "model"})
    <3>1. ~Pending
      BY <1>1, <1>6, <2>2 DEF Pending
    <3>2. Truthful(tfstate, there[k])
      BY <1>1, <1>6, <3>1 DEF Grounded, HiddenInv, TruthInv
    <3>3. \A x \in HiddenFields : tfstate'[In(x)] = tfstate[In(x)] \/ Allows(x, tfstate'[In(x)], there[k][x])
      BY <1>3, <1>6 DEF Finds
    <3> QED BY <3>2, <3>3 DEF Truthful
  <2> QED BY <2>1, <2>2
<1> QED BY <1>1, <1>2, <1>3, <1>4, <1>5, <1>6, HiddenKept

LEMMA HoldingChanges ==
  ASSUME NoneIsNoValue, Grounded, Vanish \/ OutsideChange
  PROVE  HoldingInv' /\ TruthInv'
<1>1. /\ UNCHANGED <<wanted, tfstate, tainted, pc, kind>> /\ touched \subseteq touched'
      /\ "unseen" \in touched' \/ "since" \in touched'
  BY ChangeDoes DEF Grounded
<1>2. tainted' <=> tainted
  BY <1>1
<1>3. Stated(tfstate') = Own
  BY <1>1 DEF Own
<1>4. tfstate # None => Own \subseteq Keys
  BY DEF Own, Stated, Grounded, SoundInv, Proper
<1>5. ASSUME Sighted', tfstate # None, ~tainted, wanted # None, NEW k \in Own, there'[k] # None
      PROVE  Holds(tfstate, wanted, there'[k])
  <2>1. /\ Sighted /\ there[k] # None
        /\ \A x \in HiddenFields : there'[k][x] = there[k][x] \/ Allows(x, wanted[In(x)], there'[k][x])
    BY <1>4, <1>5, SeenAll DEF Likely
  <2>2. Holds(tfstate, wanted, there[k])
    BY <1>5, <2>1 DEF Grounded, HiddenInv, HoldingInv
  <2> QED BY <2>1, <2>2 DEF Holds
<1>6. ASSUME Sighted', tfstate # None, ~tainted, ~Pending', NEW k \in Own, there'[k] # None
      PROVE  Truthful(tfstate, there'[k])
  <2>1. "unseen" \notin touched' /\ kind \notin {"secret", "model"} /\ ~Pending
    BY <1>1, <1>6 DEF Sighted, Pending
  <2>2. /\ Sighted /\ there[k] # None
        /\ \A x \in HiddenFields : there'[k][x] = there[k][x] \/ Allows(x, tfstate[In(x)], there'[k][x])
    BY <1>4, <1>6, <2>1, SeenAll DEF Likely
  <2>3. Truthful(tfstate, there[k])
    BY <1>6, <2>1, <2>2 DEF Grounded, HiddenInv, TruthInv
  <2> QED BY <2>2, <2>3 DEF Truthful
<1> QED BY <1>1, <1>2, <1>3, <1>5, <1>6, HiddenKept

LEMMA HoldingOthers ==
  ASSUME NoneIsNoState, Grounded, Begin \/ Deleted \/ ReadFails \/ Import \/ EditConfig \/ Start \/ UNCHANGED vars
  PROVE  HoldingInv' /\ TruthInv'
<1>1. CASE Begin
  <2>1. UNCHANGED <<wanted, tfstate, tainted, pc, kind, there>> /\ (pc # "create" => touched' = touched)
    BY <1>1, BeginDoes
  <2>2. tainted' <=> tainted
    BY <2>1
  <2>3. pc = "create" => tfstate' = None \/ tainted'
    BY <2>1, <2>2 DEF Grounded, SoundInv
  <2>4. CASE pc = "create"
    BY <2>1, <2>3, <2>4, HiddenKept
  <2>5. CASE pc # "create"
    <3>1. (Sighted' <=> Sighted) /\ (Pending' <=> Pending) /\ Stated(tfstate') = Own
      BY <2>1, <2>5 DEF Sighted, Pending, Own
    <3> QED BY <2>1, <2>2, <3>1, HiddenKept DEF Grounded, HiddenInv, HoldingInv, TruthInv
  <2> QED BY <2>4, <2>5
<1>2. CASE Deleted
  <2>1. kind' = kind /\ tfstate' = None
    BY <1>2 DEF Deleted, Destroyed
  <2> QED BY <2>1, HiddenKept
<1>3. CASE ReadFails \/ Start \/ UNCHANGED vars
  <2>1. /\ UNCHANGED <<wanted, tfstate, tainted, kind, there>> /\ (touched' = touched \/ touched' = touched \ {"now"})
        /\ (pc = "update" => pc' = "update")
    BY <1>3 DEF ReadFails, Errored, Start, BeginApply, vars
  <2>2. tainted' <=> tainted
    BY <2>1
  <2>3. (Sighted' <=> Sighted) /\ (Pending => Pending') /\ Stated(tfstate') = Own
    BY <2>1 DEF Sighted, Pending, Own
  <2> QED BY <2>1, <2>2, <2>3, HiddenKept DEF Grounded, HiddenInv, HoldingInv, TruthInv
<1>4. CASE Import
  <2>1. kind' = kind /\ ~Sighted'
    BY <1>4, ImportDoes DEF Sighted, Grounded
  <2> QED BY <2>1, HiddenKept
<1>5. CASE EditConfig
  <2>1. /\ pc = "idle" /\ UNCHANGED <<tfstate, tainted, pc, kind, there>>
        /\ touched' = IF touched \cap {"failed", "since"} # {} THEN {"unseen"} ELSE touched
    BY <1>5 DEF EditConfig, Edit
  <2>2. tainted' <=> tainted
    BY <2>1
  <2>3. Sighted' => Sighted /\ ~Pending
    BY <2>1 DEF Sighted, Pending
  <2>4. Stated(tfstate') = Own
    BY <2>1 DEF Own
  <2>5. ASSUME Sighted', tfstate # None, ~tainted, NEW k \in Own, there[k] # None
        PROVE  Truthful(tfstate, there[k])
    BY <2>3, <2>5 DEF Grounded, HiddenInv, TruthInv
  <2> QED BY <2>1, <2>2, <2>4, <2>5, TruthfulHolds, HiddenKept
<1> QED BY <1>1, <1>2, <1>3, <1>4, <1>5

LEMMA HiddenStays ==
  ASSUME NoneIsNoState, NoneIsNoConfig, NoneIsNoValue, Grounded, [Next]_vars
  PROVE  HiddenInv'
<1>1. HoldingInv' /\ TruthInv'
  BY HoldingWorks, HoldingReturns, HoldingReads, HoldingChanges, HoldingOthers DEF Next, ApplyStep
<1>2. SinceInv'
  BY SinceStays DEF Grounded, HiddenInv
<1> QED BY <1>1, <1>2, ComingStays, HeedingStays, LeavingStays, RenewingStays DEF HiddenInv

-----------------------------------------------------------------------------
(* The endpoints of an application.                                        *)

LEMMA AppKept ==
  ASSUME kind' = kind
  PROVE  /\ (Charmed' /\ tfstate' # None /\ ~tainted' =>
               \A k \in Stated(tfstate') : there'[k] # None => AppWhole(there'[k])) => WholeAppInv'
         /\ (Charmed' /\ pc' \in {"create", "update"} =>
               \A c \in ToSet(calls') :
                 AppCall(c) /\ (pc' = "create" => c.op # "set") /\ (pc' = "update" => c.op \notin Making)) => AppCallsInv'
         /\ (Charmed' /\ pc' = "create" /\ calls' # <<>> =>
               \/ calls'[1].op \in Making \cup {"fails"}
               \/ \A k \in Ends(calls') : there'[k] # None => AppWhole(there'[k])) => MadeAppInv'
         /\ (Charmed' /\ pc' = "update" /\ calls' = <<>> =>
               \A k \in Stated(tfstate') : there'[k] # None /\ tfstate'.revision # 2 => there'[k].new = None) => NewAppInv'
         /\ (Charmed' /\ pc' = "update" =>
               \A k \in Stated(tfstate') : there'[k] # None => HasNew(calls', there'[k])) => BindingInv'
<1>1. /\ \A s : Stated(s)' = Stated(s)
      /\ \A cs : Ends(cs)' = Ends(cs)
  BY KindKept
<1>2. Own' = Stated(tfstate')
  BY <1>1 DEF Own, Stated, KeysOf
<1>3. Ends(calls)' = Ends(calls')
  BY DEF Ends, KeysOf
<1> QED BY <1>2, <1>3 DEF WholeAppInv, AppCallsInv, MadeAppInv, NewAppInv, BindingInv

LEMMA AppCallsStays ==
  ASSUME NoneIsNoValue, Grounded, [Next]_vars
  PROVE  AppCallsInv'
<1>1. CASE Begin
  <2>1. kind' = kind /\ pc' = pc /\ (pc # "create" => touched' = touched)
    BY <1>1, BeginDoes
  <2>2. CASE calls' = <<fails>>
    <3>1. ToSet(calls') = {fails} /\ fails.op = "fails"
      BY <2>2, SetsOfTuples, Singles
    <3> HIDE DEF fails
    <3>2. \A c \in ToSet(calls') : c.op = "fails"
      BY <3>1
    <3>3. \A c \in ToSet(calls') : AppCall(c) /\ c.op # "set" /\ c.op \notin Making
      BY <3>2 DEF AppCall, Renaming, Making
    <3> QED BY <2>1, <3>3, AppKept
  <2>3. CASE pc = "create" /\ calls' = Create(wanted) /\ Creates(wanted)
    <3>1. kind = "application" => \A c \in ToSet(calls') : AppCall(c) /\ c.op # "set"
      BY <2>3 DEF Creates, SoundCalls, SoundCall
    <3>2. Charmed' => kind = "application"
      BY <2>1 DEF Charmed
    <3> QED BY <2>1, <2>3, <3>1, <3>2, AppKept
  <2>4. CASE pc = "update" /\ calls' = Update(tfstate, Plan(tfstate, wanted)) /\ Updates(tfstate, wanted)
    <3>1. Charmed' => kind = "application" /\ "unseen" \notin touched
      BY <2>1, <2>4 DEF Charmed
    <3>2. kind = "application" /\ "unseen" \notin touched => \A c \in ToSet(calls') : AppCall(c) /\ c.op \notin Making
      BY <2>4 DEF Updates, SoundCalls, SoundCall
    <3> QED BY <2>1, <2>4, <3>1, <3>2, AppKept
  <2>5. CASE pc = "delete"
    BY <2>1, <2>5, AppKept
  <2> QED BY <1>1, <2>2, <2>3, <2>4, <2>5, Beginning DEF Grounded
<1>2. CASE ~Begin
  <2>1. /\ kind' = kind
        /\ \/ ToSet(calls') = {}
           \/ ToSet(calls') = {returns(calls[1].soft[1])} /\ calls # <<>> /\ calls[1].soft # <<>> /\ calls[1] \in ToSet(calls)
              /\ pc' = pc
           \/ calls # <<>> /\ ToSet(calls') \subseteq ToSet(calls) /\ pc' = pc
        /\ Sighted' /\ ToSet(calls') # {} => Sighted
    BY <1>2, Remaining DEF Grounded
  <2>2. Charmed' /\ ToSet(calls') # {} => Charmed
    <3>1. Charmed' => kind = "application" /\ Sighted'
      BY <2>1 DEF Charmed, Sighted, Hiding
    <3> QED BY <2>1, <3>1 DEF Charmed, Sighted
  <2>3. CASE ToSet(calls') = {}
    BY <2>1, <2>3, AppKept
  <2>4. CASE /\ ToSet(calls') # {} /\ calls[1].soft # <<>> /\ calls[1] \in ToSet(calls) /\ pc' = pc
    <3>1. kind = "application" => pc \notin {"create", "update"}
      BY <2>4 DEF Grounded, SoundInv, SoundWork
    <3>2. Charmed' => kind = "application"
      BY <2>1 DEF Charmed
    <3> QED BY <2>1, <2>4, <3>1, <3>2, AppKept
  <2>5. CASE ToSet(calls') # {} /\ ToSet(calls') \subseteq ToSet(calls) /\ pc' = pc
    <3>1. Charmed' => AppCallsInv /\ Charmed
      BY <2>2, <2>5 DEF Grounded, AppInv
    <3> QED BY <2>1, <2>5, <3>1, AppKept DEF AppCallsInv
  <2> QED BY <2>1, <2>3, <2>4, <2>5
<1> QED BY <1>1, <1>2

\* A call of an Update leaves the endpoints with the charm.
LEMMA AppUpdated ==
  ASSUME Grounded, Charmed, calls # <<>>, pc = "update", there' = After(calls[1], there), ~Refuses(calls[1], there),
         NEW k \in Own, there'[k] # None
  PROVE  AppWhole(there'[k]) /\ (1 \in DOMAIN calls => HasNew(Tail(calls), there'[k]))
<1> DEFINE c == calls[1]
<1>1. /\ DOMAIN there = Keys /\ Final(calls) /\ 1 \in DOMAIN calls /\ tfstate # None /\ ~tainted
      /\ WholeAt(there) /\ kind = "application"
  BY Running DEF Grounded, IInv, ControlInv, ThereInv, SoundInv, Charmed
<1>2. k \in Keys
  BY <1>1 DEF Grounded, SoundInv, Proper, Own, Stated
<1>3. c \in ToSet(calls) /\ ToSet(Tail(calls)) \subseteq ToSet(calls)
  <2>1. c \in ToSet(calls)
    BY <1>1 DEF ToSet
  <2>2. calls \in Seq(ToSet(calls))
    BY <1>1 DEF Final
  <2>3. \A i \in DOMAIN Tail(calls) : i + 1 \in DOMAIN calls /\ Tail(calls)[i] = calls[i + 1]
    BY <1>1, <2>2
  <2> QED BY <2>1, <2>3 DEF ToSet
<1>4. AppCall(c) /\ c.op \notin Making
  BY <1>3 DEF Grounded, AppInv, AppCallsInv
<1>5. there[k] # None => AppWhole(there[k]) /\ HasNew(calls, there[k])
  BY <1>1 DEF Grounded, AppInv, WholeAppInv, BindingInv
<1>6. \A f \in ToSet(Tail(calls)) : f \in ToSet(calls)
  BY <1>3
<1> HIDE DEF c
<1>7. CASE c.op = "set" /\ c.key = k
  <2> DEFINE obj == there[k]
             new == there'[k]
  <2>1. new = Merged(obj, c.val) /\ obj # None
    BY <1>1, <1>2, <1>7, AfterSetting DEF Setting, c
  <2>2. {"default", "new", "revision"} \subseteq DOMAIN obj
    BY <1>1, <1>2, <2>1 DEF WholeAt, Whole, FieldsOf
  <2>3. AppWhole(obj) /\ HasNew(calls, obj)
    BY <1>5, <2>1
  <2> HIDE DEF obj, new
  <2>4. /\ new.default = (IF "default" \in DOMAIN c.val THEN c.val["default"] ELSE obj.default)
        /\ new.new = (IF "new" \in DOMAIN c.val THEN c.val["new"] ELSE obj.new)
        /\ new.revision = (IF "revision" \in DOMAIN c.val THEN c.val["revision"] ELSE obj.revision)
    BY <2>1, <2>2, MergedField
  <2>5. /\ "default" \in DOMAIN c.val => c.val["default"] # None
        /\ "revision" \in DOMAIN c.val => "new" \in DOMAIN c.val /\ ((c.val["new"] = None) <=> (c.val["revision"] # 2))
        /\ "new" \in DOMAIN c.val /\ "revision" \notin DOMAIN c.val => c.val["new"] # None
    BY <1>4, <1>7 DEF AppCall
  <2>6. Binds(c) => obj.new # None
    BY <1>3, <2>3 DEF HasNew, c
  <2>7. AppWhole(new)
    <3>1. "new" \in DOMAIN c.val /\ "revision" \notin DOMAIN c.val => obj.new # None
      BY <1>7, <2>6 DEF Binds
    <3> QED BY <2>3, <2>4, <2>5, <3>1 DEF AppWhole
  <2>8. ASSUME NEW f \in ToSet(Tail(calls)), Binds(f)
        PROVE  new.new # None /\ \A e \in ToSet(Tail(calls)) : e.op = "set" /\ "new" \in DOMAIN e.val => e.val.new # None
    <3>1. /\ obj.new # None
          /\ \A e \in ToSet(calls) : e.op = "set" /\ "new" \in DOMAIN e.val => e.val.new # None
      BY <1>6, <2>3, <2>8 DEF HasNew
    <3>2. c \in ToSet(calls)
      BY <1>3 DEF c
    <3>3. "new" \in DOMAIN c.val => c.val["new"] # None
      BY <1>7, <3>1, <3>2
    <3> QED BY <1>6, <2>4, <3>1, <3>3
  <2>9. HasNew(Tail(calls), new)
    BY <2>8 DEF HasNew
  <2> QED BY <2>7, <2>9 DEF new
<1>8. CASE ~(c.op = "set" /\ c.key = k)
  <2>1. there'[k] = there[k]
    <3>1. CASE c.op = "set"
      BY <1>1, <1>2, <1>8, <3>1, AfterSetting DEF Setting, c
    <3>2. CASE c.op # "set"
      <4>1. c.op \notin Setting \cup Renaming
        BY <1>4, <3>2 DEF AppCall, Setting
      <4> QED BY <1>1, <1>2, <4>1, Leaves DEF c
    <3> QED BY <3>1, <3>2
  <2>2. AppWhole(there[k]) /\ HasNew(calls, there[k])
    BY <1>5, <2>1
  <2>3. HasNew(Tail(calls), there[k])
    BY <1>6, <2>2 DEF HasNew
  <2> QED BY <2>1, <2>2, <2>3
<1> QED BY <1>7, <1>8

AppRest == WholeAppInv /\ MadeAppInv /\ NewAppInv /\ BindingInv

LEMMA AppWorks ==
  ASSUME Grounded, Step \/ Refused \/ CallFails \/ AnswerLost
  PROVE  AppRest'
<1>1. /\ calls # <<>> /\ kind' = kind /\ wanted' = wanted /\ Final(calls) /\ DOMAIN there = Keys /\ 1 \in DOMAIN calls
      /\ there' = there \/ (there' = After(calls[1], there) /\ ~Refuses(calls[1], there))
      /\ pc \in {"create", "update", "delete"} /\ calls[1] \in ToSet(calls)
  <2>1. calls # <<>>
    BY StepDoes, FailDoes DEF Grounded
  <2>2. Final(calls) /\ 1 \in DOMAIN calls
    BY <2>1, Running DEF Grounded, IInv
  <2> QED BY <2>1, <2>2, StepDoes, FailDoes DEF Grounded
<1>2. Charmed' <=> Charmed
  <2>1. touched' = touched \/ touched' = touched \cup {"failed"}
    BY StepDoes, FailDoes DEF Grounded, Gently, Flatly
  <2> QED BY <1>1, <2>1 DEF Charmed
<1>3. Charmed /\ pc # "delete" => calls[1].soft = <<>> /\ calls[1].op # "saves"
  <2>1. kind = "application" /\ pc \in {"create", "update"} => calls[1].soft = <<>>
    BY <1>1 DEF Grounded, SoundInv, SoundWork
  <2>2. kind = "application" /\ pc \in {"create", "update"} => calls[1].op # "saves"
    BY <1>1 DEF Grounded, PlanInv, PlannedCalls, PlannedCall
  <2> QED BY <1>1, <2>1, <2>2 DEF Charmed
<1>4. Charmed => UNCHANGED <<tfstate, tainted>>
  <2>1. Step /\ calls[1].op = "saves" => pc = "create"
    BY NoSaving DEF Grounded
  <2> QED BY <1>3, <2>1, StepDoes, FailDoes DEF Grounded
<1>5. Charmed => Stated(tfstate') = Own /\ (tainted' <=> tainted)
  BY <1>4 DEF Own
<1>6. Charmed /\ pc # "delete" => (Step /\ pc' = pc /\ calls' = Tail(calls) /\ calls' # <<>>) \/ (calls' = <<>> /\ pc' = "idle")
  BY <1>3, StepDoes, FailDoes DEF Grounded, Gently, Flatly
<1>7. Charmed /\ pc = "delete" => pc' \notin {"create", "update"}
  BY StepDoes, FailDoes DEF Grounded, Gently, Flatly
<1>8. WholeAppInv'
  <2>1. ASSUME Charmed, tfstate # None, ~tainted, NEW k \in Own, there'[k] # None PROVE AppWhole(there'[k])
    <3>1. k \in Keys /\ pc # "create"
      BY <2>1 DEF Grounded, SoundInv, Proper, Own, Stated
    <3>2. there[k] # None => AppWhole(there[k])
      BY <2>1 DEF Grounded, AppInv, WholeAppInv
    <3>3. CASE there' = there
      BY <2>1, <3>2, <3>3
    <3>4. CASE there' = After(calls[1], there) /\ ~Refuses(calls[1], there) /\ pc = "update"
      BY <1>1, <2>1, <3>4, AppUpdated
    <3>5. CASE there' = After(calls[1], there) /\ pc = "delete"
      <4>1. calls[1].op \notin Setting \cup Renaming
        BY <1>1, <2>1, <3>5 DEF Grounded, HiddenInv, LeavingInv, Charmed, Hiding
      <4> DEFINE c == calls[1]
      <4>2. c.op \notin Setting \cup Renaming /\ there' = After(c, there)
        BY <3>5, <4>1
      <4> HIDE DEF c
      <4>3. there'[k] \in {there[k], None}
        BY <1>1, <3>1, <4>2, Leaves
      <4> QED BY <2>1, <3>2, <4>3
    <3> QED BY <1>1, <3>1, <3>3, <3>4, <3>5
  <2>2. Charmed' /\ tfstate' # None /\ ~tainted' =>
          \A k \in Stated(tfstate') : there'[k] # None => AppWhole(there'[k])
    BY <1>2, <1>4, <1>5, <2>1
  <2> QED BY <1>1, <2>2, AppKept
<1>9. MadeAppInv'
  <2>1. ASSUME Charmed, pc = "create", Step, NEW k \in Ends(calls), there'[k] # None PROVE AppWhole(there'[k])
    <3> DEFINE c == calls[1]
    <3>1. /\ c.op \notin {"returns", "fails"} /\ ~Refuses(c, there) /\ there' = After(c, there)
          /\ WorkInv /\ WorkCall(c, Own, Ends(calls))
      <4>1. WorkInv
        BY <1>1, <2>1, Running DEF Grounded, IInv
      <4> QED BY <1>1, <2>1, <4>1, StepDoes DEF Grounded, WorkInv, WorkCalls
    <3>2. k \in Keys
      BY <1>1, <2>1, EndsAreKeys DEF Grounded
    <3>3. AppCall(c) /\ c.op # "set"
      BY <1>1, <2>1 DEF Grounded, AppInv, AppCallsInv
    <3>4. CASE c.op \in Making
      <4>1. c.key \in Ends(calls)
        BY <2>1, <3>1, <3>4 DEF WorkCall, Within, Changing, Making, WorkInv
      <4>2. c.key = k
        <5>1. Ends(calls) = {} \/ Ends(calls) = KeysOf(calls[Len(calls)].val)
          BY DEF Ends
        <5>2. kind \in Hiding
          BY <2>1 DEF Charmed, Hiding
        <5> HIDE DEF c
        <5> QED BY <2>1, <4>1, <5>1, <5>2, OneKey
      <4> HIDE DEF c
      <4>3. there'[k] = c.val
        BY <1>1, <3>1, <3>2, <3>4, <4>2, AfterSetting DEF Setting
      <4> QED BY <3>3, <3>4, <4>3 DEF AppCall
    <3>5. CASE c.op \notin Making
      <4>1. c.op \notin Setting \cup Renaming
        BY <3>3, <3>5 DEF AppCall, Setting
      <4>2. there[k] # None => AppWhole(there[k])
        BY <1>1, <2>1, <3>1, <3>5 DEF Grounded, AppInv, MadeAppInv
      <4> HIDE DEF c
      <4>3. there'[k] \in {there[k], None}
        BY <1>1, <3>1, <3>2, <4>1, Leaves
      <4> QED BY <2>1, <4>2, <4>3
    <3> QED BY <3>4, <3>5
  <2>2. Charmed' /\ pc' = "create" /\ calls' # <<>> => Charmed /\ pc = "create" /\ Step /\ Ends(calls') = Ends(calls)
    BY <1>1, <1>2, <1>6, <1>7, StepDoes DEF Grounded
  <2>3. Charmed' /\ pc' = "create" /\ calls' # <<>> => \A k \in Ends(calls') : there'[k] # None => AppWhole(there'[k])
    BY <2>1, <2>2
  <2> QED BY <1>1, <2>3, AppKept
<1>10. NewAppInv'
  <2>1. ~(Charmed' /\ pc' = "update" /\ calls' = <<>>)
    BY <1>1, <1>2, <1>6, <1>7
  <2> QED BY <1>1, <2>1, AppKept
<1>11. BindingInv'
  <2>1. Charmed' /\ pc' = "update" => Charmed /\ pc = "update" /\ Step /\ calls' = Tail(calls)
    BY <1>1, <1>2, <1>6, <1>7
  <2>2. Charmed' /\ pc' = "update" => \A k \in Stated(tfstate') : there'[k] # None => HasNew(calls', there'[k])
    <3>1. ASSUME Charmed', pc' = "update", NEW k \in Own, there'[k] # None PROVE HasNew(Tail(calls), there'[k])
      <4>1. there' = After(calls[1], there) /\ ~Refuses(calls[1], there)
        BY <2>1, <3>1, StepDoes DEF Grounded
      <4> QED BY <1>1, <2>1, <3>1, <4>1, AppUpdated
    <3> QED BY <1>5, <2>1, <3>1
  <2> QED BY <1>1, <2>2, AppKept
<1> QED BY <1>8, <1>9, <1>10, <1>11 DEF AppRest

LEMMA AppBegins ==
  ASSUME NoneIsNoState, NoneIsNoValue, Grounded, Begin
  PROVE  AppRest'
<1>1. UNCHANGED <<tfstate, tainted, pc, kind, there>> /\ calls = <<>> /\ (pc # "create" => touched' = touched)
  BY BeginDoes
<1>2. Stated(tfstate') = Own /\ (tainted' <=> tainted)
  BY <1>1 DEF Own
<1>3. pc = "create" => tfstate = None
  BY <1>1 DEF Grounded, IInv, ControlInv
<1>4. pc # "create" => (Charmed' <=> Charmed)
  BY <1>1 DEF Charmed
<1>5. WholeAppInv'
  <2>1. Charmed' /\ tfstate' # None /\ ~tainted' => Charmed /\ WholeAppInv /\ ~tainted /\ tfstate # None
    BY <1>1, <1>2, <1>3, <1>4 DEF Grounded, AppInv
  <2> QED BY <1>1, <1>2, <2>1, AppKept DEF WholeAppInv
<1>6. MadeAppInv'
  <2>1. CASE pc = "create"
    <3>1. Charmed' => kind = "application"
      BY <1>1 DEF Charmed
    <3>2. CASE calls' = <<fails>>
      <4>1. calls'[1].op = "fails"
        BY <3>2, Singles
      <4> QED BY <1>1, <4>1, AppKept
    <3>3. CASE calls' = Create(wanted) /\ Creates(wanted)
      <4>1. kind = "application" => calls'[1].op \in Making
        BY <3>3 DEF Creates
      <4> QED BY <1>1, <3>1, <4>1, AppKept
    <3> QED BY <2>1, <3>2, <3>3, Beginning DEF Grounded
  <2>2. CASE pc # "create"
    BY <1>1, <2>2, AppKept
  <2> QED BY <2>1, <2>2
<1>7. NewAppInv'
  <2>1. pc = "update" => calls' # <<>>
    <3>1. UpdateKeeps
      BY HandlersKeep DEF Grounded, IInv, ControlInv
    <3> QED BY <3>1, BeginsSome DEF Grounded
  <2> QED BY <1>1, <2>1, AppKept
<1>8. BindingInv'
  <2>1. CASE pc = "update" /\ calls' = <<fails>>
    <3>1. ToSet(calls') = {fails} /\ fails.op = "fails"
      BY <2>1, SetsOfTuples, Singles
    <3> HIDE DEF fails
    <3>2. \A obj : HasNew(calls', obj)
      BY <3>1 DEF HasNew, Binds
    <3> QED BY <1>1, <3>2, AppKept
  <2>2. CASE pc = "update" /\ calls' = Update(tfstate, Plan(tfstate, wanted)) /\ Updates(tfstate, wanted)
    <3>1. Own = KeysOf(tfstate)
      BY <2>2 DEF Grounded, IInv, ControlInv, Own, Stated
    <3>2. Charmed => \A k \in Own : there[k] # None => HasNew(calls', there[k])
      BY <2>2, <3>1 DEF Updates, Charmed
    <3> QED BY <1>1, <1>2, <1>4, <2>2, <3>2, AppKept
  <2>3. CASE pc # "update"
    BY <1>1, <2>3, AppKept
  <2> QED BY <2>1, <2>2, <2>3, Beginning DEF Grounded
<1> QED BY <1>5, <1>6, <1>7, <1>8 DEF AppRest

LEMMA HasNoCalls == ASSUME NEW obj PROVE HasNew(<<>>, obj)
BY SetsOfTuples DEF HasNew

LEMMA AppReturns ==
  ASSUME Grounded, Returned
  PROVE  AppRest'
<1> DEFINE v == calls[1].val
<1>1. /\ kind' = kind /\ there' = there /\ tfstate' = v /\ pc' = "idle" /\ calls # <<>>
      /\ touched' = touched \ {"failed"} /\ Ends(calls) = KeysOf(v) /\ calls[1].op = "returns"
      /\ pc \in {"create", "update"} /\ calls[1] \in ToSet(calls) /\ 1 \in DOMAIN calls
  <2>1. 1 \in DOMAIN calls
    BY ReturnDoes, Running DEF Grounded, IInv
  <2> QED BY <2>1, ReturnDoes DEF Grounded
<1>2. Charmed' <=> Charmed
  BY <1>1 DEF Charmed
<1>3. AsPlanned(v) /\ IsState(v)
  <2>1. AsPlanned(v)
    BY <1>1 DEF Grounded, PlanInv, PlannedCalls, PlannedCall
  <2>2. WorkInv
    BY <1>1, Running DEF Grounded, IInv
  <2> QED BY <1>1, <2>1, <2>2 DEF WorkInv, WorkCalls, WorkCall
<1>4. ASSUME Charmed, NEW k \in KeysOf(v), there[k] # None PROVE AppWhole(there[k])
  <2>1. CASE pc = "create"
    BY <1>1, <1>4, <2>1 DEF Grounded, AppInv, MadeAppInv, Making
  <2>2. CASE pc = "update"
    <3>1. kind = "application"
      BY <1>4 DEF Charmed
    <3>2. v.id = tfstate.id
      BY <1>3, <2>2, <3>1 DEF AsPlanned, Excepted, PlannedOtherwise, Consistent
    <3>3. tfstate # None /\ ~tainted /\ IsState(tfstate)
      BY <2>2 DEF Grounded, IInv, ControlInv, SoundInv
    <3> HIDE DEF v
    <3>4. KeysOf(v) = {v.name} /\ KeysOf(tfstate) = {tfstate.name} /\ v.id = v.name /\ tfstate.id = tfstate.name
      BY <1>3, <3>1, <3>3, NamedKeys DEF ByName, AllKinds, IsState
    <3>5. k \in Own
      BY <1>4, <3>2, <3>3, <3>4 DEF Own, Stated
    <3> QED BY <1>4, <3>3, <3>5 DEF Grounded, AppInv, WholeAppInv
  <2> QED BY <1>1, <2>1, <2>2
<1>5. WholeAppInv'
  <2>1. Charmed' /\ tfstate' # None => \A k \in Stated(tfstate') : there'[k] # None => AppWhole(there'[k])
    BY <1>1, <1>2, <1>4 DEF Stated
  <2> QED BY <1>1, <2>1, AppKept
<1>6. MadeAppInv' /\ NewAppInv' /\ BindingInv'
  BY <1>1, AppKept
<1> QED BY <1>5, <1>6 DEF AppRest

LEMMA AppReads ==
  ASSUME NoneIsNoState, NoneIsNoConfig, NoneIsNoValue, Grounded, Read
  PROVE  AppRest'
<1>1. /\ tfstate # None /\ Own = KeysOf(tfstate)
      /\ UNCHANGED <<kind, there, calls>> /\ calls = <<>> /\ touched' = touched \ {"since"}
      /\ tfstate' # None => Stated(tfstate') = Own /\ \A k \in Own : Finds(tfstate, tfstate', k)
      /\ pc' = "update" => tfstate' # None /\ ~tainted'
  BY ReadDoes DEF Grounded
<1>2. Charmed' <=> Charmed
  BY <1>1 DEF Charmed
<1>3. tfstate' # None => (tainted' <=> tainted)
  BY ReadTaints
<1>4. Charmed /\ ~tainted => \A k \in Own : there[k] # None => AppWhole(there[k])
  BY <1>1 DEF Grounded, AppInv, WholeAppInv
<1>5. WholeAppInv'
  <2>1. Charmed' /\ tfstate' # None /\ ~tainted' =>
          \A k \in Stated(tfstate') : there'[k] # None => AppWhole(there'[k])
    BY <1>1, <1>2, <1>3, <1>4
  <2> QED BY <1>1, <2>1, AppKept
<1>6. NewAppInv'
  <2>1. ASSUME Charmed, pc' = "update", NEW k \in Own, there[k] # None, tfstate'.revision # 2 PROVE there[k].new = None
    <3>1. AppWhole(there[k])
      BY <1>1, <1>3, <1>4, <2>1
    <3>2. Visible(tfstate', there[k])
      BY <1>1, <2>1 DEF Finds
    <3>3. tfstate'.revision = there[k].revision
      BY <2>1, <3>2 DEF Visible, Charmed
    <3> QED BY <2>1, <3>1, <3>3 DEF AppWhole
  <2>2. Charmed' /\ pc' = "update" =>
          \A k \in Stated(tfstate') : there'[k] # None /\ tfstate'.revision # 2 => there'[k].new = None
    BY <1>1, <1>2, <2>1
  <2> QED BY <1>1, <2>2, AppKept
<1>7. MadeAppInv' /\ BindingInv'
  <2>1. \A obj : HasNew(calls', obj)
    BY <1>1, HasNoCalls
  <2> QED BY <1>1, <2>1, AppKept
<1> QED BY <1>5, <1>6, <1>7 DEF AppRest

LEMMA AppChanges ==
  ASSUME NoneIsNoValue, Grounded, Vanish \/ OutsideChange
  PROVE  AppRest'
<1>1. /\ DOMAIN there = Keys
      /\ \A j \in Keys : there'[j] \in {there[j], None} \cup Objects
      /\ "unseen" \notin touched' => \A j \in Keys : there'[j] = there[j] \/ Seen(there[j], there'[j])
      /\ UNCHANGED <<wanted, tfstate, tainted, pc, kind, calls>>
      /\ touched \subseteq touched'
  BY ChangeDoes DEF Grounded, IInv
<1>2. Charmed' => Charmed /\ "unseen" \notin touched'
  BY <1>1 DEF Charmed
<1>3. ASSUME Charmed', NEW j \in Keys, there'[j] # None
      PROVE  /\ there[j] # None /\ there'[j].new = there[j].new
             /\ AppWhole(there'[j]) \/ there'[j] = there[j]
  <2>1. CASE there'[j] = there[j]
    BY <1>3, <2>1
  <2>2. CASE there'[j] # there[j]
    <3>1. there'[j] \in Objects /\ Seen(there[j], there'[j])
      BY <1>1, <1>2, <1>3, <2>2
    <3>2. kind = "application" /\ kind \in AllKinds
      BY <1>2, <1>3 DEF Charmed, Grounded, IInv, ControlInv
    <3>3. Whole(there'[j]) /\ AppWhole(there'[j])
      BY <3>1, <3>2, ObjectsAreWhole
    <3>4. there'[j].new = there[j].new
      BY <3>1, <3>2, <3>3, SeenNew
    <3> QED BY <3>1, <3>3, <3>4 DEF Seen
  <2> QED BY <2>1, <2>2
<1>4. Stated(tfstate') = Own /\ (tainted' <=> tainted)
  BY <1>1 DEF Own
<1>5. tfstate # None => Own \subseteq Keys
  BY DEF Grounded, SoundInv, Proper, Own, Stated
<1>6. WholeAppInv'
  <2>1. Charmed' /\ tfstate' # None /\ ~tainted' =>
          \A k \in Stated(tfstate') : there'[k] # None => AppWhole(there'[k])
    BY <1>1, <1>2, <1>3, <1>4, <1>5 DEF Grounded, AppInv, WholeAppInv
  <2> QED BY <1>1, <2>1, AppKept
<1>7. MadeAppInv'
  <2>1. calls # <<>> /\ pc = "create" => Ends(calls) \subseteq Keys
    BY EndsAreKeys DEF Grounded
  <2>2. Charmed' /\ pc' = "create" /\ calls' # <<>> =>
          \/ calls'[1].op \in Making \cup {"fails"}
          \/ \A k \in Ends(calls') : there'[k] # None => AppWhole(there'[k])
    BY <1>1, <1>2, <1>3, <2>1 DEF Grounded, AppInv, MadeAppInv
  <2> QED BY <1>1, <2>2, AppKept
<1>8. pc = "update" => tfstate # None
  BY DEF Grounded, IInv, ControlInv
<1>9. NewAppInv'
  <2>1. Charmed' /\ pc' = "update" /\ calls' = <<>> =>
          \A k \in Stated(tfstate') : there'[k] # None /\ tfstate'.revision # 2 => there'[k].new = None
    BY <1>1, <1>2, <1>3, <1>4, <1>5, <1>8 DEF Grounded, AppInv, NewAppInv
  <2> QED BY <1>1, <2>1, AppKept
<1>10. BindingInv'
  <2>1. \A before, after : before.new = after.new /\ HasNew(calls, before) => HasNew(calls, after)
    BY DEF HasNew
  <2>2. Charmed' /\ pc' = "update" => \A k \in Stated(tfstate') : there'[k] # None => HasNew(calls', there'[k])
    <3>1. ASSUME Charmed', pc = "update", NEW k \in Own, there'[k] # None PROVE HasNew(calls, there'[k])
      <4>1. HasNew(calls, there[k])
        BY <1>2, <1>3, <1>5, <1>8, <3>1 DEF Grounded, AppInv, BindingInv
      <4> QED BY <1>3, <1>5, <1>8, <2>1, <3>1, <4>1
    <3> QED BY <1>1, <1>4, <3>1
  <2> QED BY <1>1, <2>2, AppKept
<1> QED BY <1>6, <1>7, <1>9, <1>10 DEF AppRest

LEMMA AppOthers ==
  ASSUME NoneIsNoState, Grounded, Deleted \/ ReadFails \/ Import \/ EditConfig \/ Start \/ UNCHANGED vars
  PROVE  AppRest'
<1>1. CASE Deleted
  <2>1. kind' = kind /\ calls' = <<>> /\ tfstate' = None /\ pc' \in {"idle", "create"}
    BY <1>1 DEF Deleted, Destroyed
  <2> QED BY <2>1, AppKept DEF AppRest
<1>2. CASE Import
  <2>1. kind' = kind /\ "unseen" \in touched'
    BY <1>2, ImportDoes DEF Grounded
  <2>2. ~Charmed'
    BY <2>1 DEF Charmed
  <2> QED BY <2>1, <2>2, AppKept DEF AppRest
<1>3. CASE ReadFails \/ EditConfig \/ Start
  <2>1. /\ kind' = kind /\ calls' = calls /\ calls = <<>> /\ tfstate' = tfstate /\ pc' \in {"idle", "create", "read"}
        /\ there' = there
    BY <1>3 DEF ReadFails, Errored, EditConfig, Edit, Start, BeginApply, Grounded, IInv, ControlInv
  <2>2. tainted' = tainted
    BY <1>3 DEF ReadFails, Errored, EditConfig, Edit, Start, BeginApply
  <2>3. touched' = touched \/ touched' = {"unseen"} \/ touched' = touched \ {"now"}
    BY <1>3 DEF ReadFails, EditConfig, Start
  <2>4. Charmed' => Charmed
    BY <2>1, <2>3 DEF Charmed
  <2>5. Stated(tfstate') = Own /\ (tainted' <=> tainted)
    BY <2>1, <2>2 DEF Own
  <2>6. WholeAppInv'
    <3>1. Charmed' /\ tfstate' # None /\ ~tainted' =>
            \A k \in Stated(tfstate') : there'[k] # None => AppWhole(there'[k])
      BY <2>1, <2>4, <2>5 DEF Grounded, AppInv, WholeAppInv
    <3> QED BY <2>1, <3>1, AppKept
  <2>7. MadeAppInv' /\ NewAppInv' /\ BindingInv'
    BY <2>1, AppKept
  <2> QED BY <2>6, <2>7 DEF AppRest
<1>4. CASE UNCHANGED vars
  <2>1. UNCHANGED <<wanted, tfstate, tainted, pc, kind, there, calls, touched>>
    BY <1>4 DEF vars
  <2>2. (Charmed' <=> Charmed) /\ Stated(tfstate') = Own /\ (tainted' <=> tainted)
    BY <2>1 DEF Charmed, Own
  <2>3. WholeAppInv /\ MadeAppInv /\ NewAppInv /\ BindingInv
    BY DEF Grounded, AppInv
  <2>4. WholeAppInv'
    BY <2>1, <2>2, <2>3, AppKept DEF WholeAppInv
  <2>5. MadeAppInv'
    BY <2>1, <2>2, <2>3, AppKept DEF MadeAppInv
  <2>6. NewAppInv' /\ BindingInv'
    BY <2>1, <2>2, <2>3, AppKept DEF NewAppInv, BindingInv
  <2> QED BY <2>4, <2>5, <2>6 DEF AppRest
<1> QED BY <1>1, <1>2, <1>3, <1>4

LEMMA AppStays ==
  ASSUME NoneIsNoState, NoneIsNoConfig, NoneIsNoValue, Grounded, [Next]_vars
  PROVE  AppInv'
<1>1. AppCallsInv'
  BY AppCallsStays
<1>2. AppRest'
  BY AppWorks, AppBegins, AppReturns, AppReads, AppChanges, AppOthers DEF Next, ApplyStep
<1> QED BY <1>1, <1>2 DEF AppInv, AppRest

-----------------------------------------------------------------------------
(* What is reported done is so, and stays so until something happens.      *)

LEMMA SuccessKept ==
  ASSUME kind' = kind,
         last' # "no" => /\ calls' = <<>> /\ tfstate' # None /\ wanted' # None
                         /\ \A k \in KeysOf(tfstate') : Has(there'[k], Asked(wanted'))
  PROVE  SuccessInv'
<1>1. KeysOf(tfstate)' = KeysOf(tfstate')
  BY DEF KeysOf
<1>2. \A w : Asked(w)' = Asked(w)
  BY KindKept
<1>3. Asked(wanted)' = Asked(wanted')
  BY DEF Asked
<1> QED BY <1>1, <1>3 DEF SuccessInv, SuccessIsTrue

LEMMA ReturnsTrue ==
  ASSUME NoneIsNoState, Grounded, Returned, last' # "no"
  PROVE  LET v == calls[1].val IN
         /\ Consistent(v) /\ Alone /\ IsState(v) /\ v # None /\ ~Off(v) /\ AtWork(calls)
         /\ \A k \in KeysOf(v) : Has(there[k], Asked(wanted))
<1> DEFINE v == calls[1].val
<1>1. /\ kind' = kind /\ there' = there /\ wanted' = wanted /\ tfstate' = v /\ calls' = <<>>
      /\ Final(calls) /\ calls[1].op = "returns" /\ Ends(calls) = KeysOf(v) /\ calls # <<>>
      /\ pc \in {"create", "update"}
      /\ Consistent(v) /\ Alone
  BY ReturnDoes DEF Grounded
<1>2. wanted \in Configs /\ wanted # None /\ kind \in AllKinds
  BY <1>1 DEF Grounded, IInv, ControlInv
<1>3. DOMAIN calls = {1} /\ ToSet(calls) = {calls[1]}
  <2>1. DOMAIN calls = {1}
    BY <1>1, Returning
  <2> QED BY <2>1 DEF ToSet
<1>4. IsState(v) /\ v # None
  <2>1. WorkInv
    BY <1>1, Running DEF Grounded, IInv
  <2>2. IsState(v)
    BY <1>1, <1>3, <2>1 DEF WorkInv, WorkCalls, WorkCall
  <2> HIDE DEF v
  <2> QED BY <2>2, StatedOfState
<1>5. ~Off(v)
  BY <1>1, <1>2, OffIsOther
<1>6. AtWork(calls)
  BY <1>1, <1>3, <1>5 DEF AtWork, Good
<1>7. Gets(calls, there, wanted)
  BY <1>1, <1>6 DEF Grounded, GetsInv
<1>8. ASSUME NEW k \in KeysOf(v) PROVE Has(there[k], Asked(wanted))
  <2>1. /\ There(calls, there, k)
        /\ \A x \in DOMAIN Asked(wanted) : Comes(calls, there, k, x, Asked(wanted)[x], "exactly")
    BY <1>1, <1>7, <1>8 DEF Gets
  <2>2. there[k] # None
    BY <1>1, <1>3, <2>1 DEF There, Setting, Making
  <2>3. ASSUME NEW x \in DOMAIN Asked(wanted) PROVE there[k][x] = Asked(wanted)[x]
    <3> DEFINE u == Asked(wanted)[x]
    <3>1. Comes(calls, there, k, x, u, "exactly")
      BY <2>1
    <3> HIDE DEF u, v
    <3>2. Is(there, k, x, u, "exactly")
      BY <1>1, <3>1, HasCome
    <3>3. there[k][x] = u
      BY <2>2, <3>2 DEF Is, Ok
    <3> QED BY <3>3 DEF u
  <2> QED BY <2>2, <2>3 DEF Has
<1> QED BY <1>1, <1>4, <1>5, <1>6, <1>8

LEMMA SuccessReturns ==
  ASSUME NoneIsNoState, Grounded, Returned
  PROVE  SuccessInv'
<1> DEFINE v == calls[1].val
<1>1. kind' = kind /\ there' = there /\ wanted' = wanted /\ tfstate' = v /\ calls' = <<>> /\ wanted # None
  BY ReturnDoes DEF Grounded, IInv, ControlInv
<1>2. last' # "no" => v # None /\ \A k \in KeysOf(v) : Has(there[k], Asked(wanted))
  BY ReturnsTrue
<1> QED BY <1>1, <1>2, SuccessKept

LEMMA SuccessReads ==
  ASSUME NoneIsNoState, NoneIsNoConfig, NoneIsNoValue, Grounded, SuccessInv, Read
  PROVE  SuccessInv'
<1>1. /\ UNCHANGED <<wanted, kind, there, calls, last>> /\ calls = <<>> /\ tfstate # None /\ Own = KeysOf(tfstate)
      /\ tfstate' # None => KeysOf(tfstate') = KeysOf(tfstate)
      /\ tfstate' = None => \E k \in Own : there[k] = None
  BY ReadDoes DEF Grounded
<1>2. last # "no" => wanted # None /\ \A k \in KeysOf(tfstate) : Has(there[k], Asked(wanted))
  BY DEF SuccessInv, SuccessIsTrue
<1>3. last # "no" => tfstate' # None
  BY <1>1, <1>2 DEF Has
<1> QED BY <1>1, <1>2, <1>3, SuccessKept

LEMMA SuccessStays ==
  ASSUME NoneIsNoState, NoneIsNoConfig, NoneIsNoValue, Grounded, SuccessInv, [Next]_vars
  PROVE  SuccessInv'
<1>1. CASE Step \/ Refused \/ CallFails \/ AnswerLost \/ Deleted
  <2>1. calls # <<>> /\ last' = last /\ kind' = kind
    BY <1>1 DEF Step, Refused, CallFails, AnswerLost, Deleted
  <2>2. last = "no"
    BY <2>1 DEF SuccessInv
  <2> QED BY <2>1, <2>2, SuccessKept
<1>2. CASE Begin \/ Vanish \/ OutsideChange \/ Import \/ EditConfig
  <2>1. last' = "no" /\ kind' = kind
    BY <1>2 DEF Begin, Vanish, OutsideChange, Import, EditConfig
  <2> QED BY <2>1, SuccessKept
<1>3. CASE ReadFails \/ Start \/ UNCHANGED vars
  <2>1. UNCHANGED <<wanted, tfstate, kind, there, calls, last>>
    BY <1>3 DEF ReadFails, Errored, Start, BeginApply, vars
  <2> QED BY <2>1, SuccessKept DEF SuccessInv, SuccessIsTrue
<1> QED BY <1>1, <1>2, <1>3, SuccessReturns, SuccessReads DEF Next, ApplyStep

-----------------------------------------------------------------------------
(* The inductive invariant.                                                *)

LEMMA GroundedFirst == Init => Grounded /\ SuccessInv
<1> SUFFICES ASSUME Init PROVE Grounded /\ SuccessInv
  OBVIOUS
<1>1. /\ kind \in Kinds /\ tfstate = None /\ tainted = FALSE /\ pc = "idle" /\ calls = <<>> /\ touched = {} /\ last = "no"
      /\ there = [k \in Keys |-> IF kind = "subnet" /\ k \in Names THEN [name |-> k, space |-> "alpha"] ELSE None]
  BY DEF Init, TerraformInit
<1>2. PlanInv
  BY <1>1 DEF PlanInv
<1>3. NamedInv
  BY <1>1 DEF NamedInv, NamesAt, NamedCalls, NamedKinds
<1>4. SoundInv
  BY SoundFirst
<1>5. SeenInv /\ GetsInv
  BY <1>1 DEF SeenInv, GetsInv
<1>6. HiddenInv
  BY <1>1 DEF HiddenInv, ComingInv, HoldingInv, TruthInv, SinceInv, HeedingInv, LeavingInv, RenewingInv
<1>7. AppInv
  BY <1>1 DEF AppInv, WholeAppInv, AppCallsInv, MadeAppInv, NewAppInv, BindingInv
<1>8. SuccessInv
  BY <1>1 DEF SuccessInv, SuccessIsTrue
<1> QED BY <1>2, <1>3, <1>4, <1>5, <1>6, <1>7, <1>8, Begun DEF Grounded

LEMMA GroundedStays ==
  ASSUME NoneIsNoState, NoneIsNoConfig, NoneIsNoValue, Grounded, [Next]_vars
  PROVE  Grounded'
<1> USE DEF Grounded
<1>1. IInv'
  BY HandlersKeep, Continued DEF IInv, ControlInv
<1>2. UpdateKeeps
  BY HandlersKeep DEF IInv, ControlInv
<1>3. NamedInv'
  BY NamedSteps, NamedBegins, NamedFails, NamedReads, NamedChanges, NamedOthers DEF Next, ApplyStep
<1>4. PlanInv'
  BY <1>2, PlanSteps, PlanBegins, PlanReads, PlanOthers DEF Next, ApplyStep
<1>5. SoundInv'
  BY SoundSteps, SoundFails, SoundBegins, SoundChanges, SoundReads, SoundOthers DEF Next, ApplyStep
<1>6. SeenInv'
  BY <1>2, SeenReads, SeenOthers DEF Next, ApplyStep
<1>7. GetsInv'
  BY GetsSteps, GetsFails, GetsBegins, GetsOthers DEF Next, ApplyStep
<1>8. HiddenInv'
  BY HiddenStays
<1>9. AppInv'
  BY AppStays
<1> QED BY <1>1, <1>3, <1>4, <1>5, <1>6, <1>7, <1>8, <1>9

\* What Create and Update report done is so on the controller, of every kind and
\* however often applies are repeated: every argument that the provider sends is
\* what the objects in the state have, whatever failures, edits and changes by
\* others came before, and still after any number of refreshes.  A success is not
\* recorded of an apply that others disturb, nor while they have changed a field
\* that Read cannot see (Alone).
THEOREM SuccessesAreTrue ==
  ASSUME NoneIsNoState, NoneIsNoConfig, NoneIsNoValue
  PROVE  Spec => []SuccessIsTrue
<1>1. Init => Grounded /\ SuccessInv
  BY GroundedFirst
<1>2. Grounded /\ SuccessInv /\ [Next]_vars => (Grounded /\ SuccessInv)'
  BY GroundedStays, SuccessStays
<1>3. SuccessInv => SuccessIsTrue
  BY DEF SuccessInv
<1> QED BY <1>1, <1>2, <1>3, PTL DEF Spec

-----------------------------------------------------------------------------
(* An apply that has succeeded leaves nothing to apply: what the handlers  *)
(* have of the objects beyond what is asked for.                           *)

\* None has none of the endpoints that bindings have.
NoneIsNoBindings == {"db", "new", others} \cap DOMAIN None = {}

\* Other fields of an object that Read goes by, and the values of them that go with
\* the state.
Besides ==
  CASE kind = "kubernetes_cloud" -> {"credential"}
    [] kind = "model"            -> {"agent", "credential"}
    [] kind = "application"      -> {"default", "db"}
    [] OTHER                     -> {}
DefaultOf(bindings) == BoundIn(bindings, others, modelDefault)
Spot(x, bindings) == IF x = "default" THEN DefaultOf(bindings) ELSE BoundIn(bindings, "db", DefaultOf(bindings))
Suits(x, y, s) ==
  CASE kind = "kubernetes_cloud" -> y # None
    [] kind = "model"            -> (x = "agent" /\ s.agent = None) \/ y = s[x]
    [] kind = "application"      -> y = Spot(x, s.bindings)
    [] OTHER                     -> TRUE

\* What a state is in itself.
Formed(s) ==
  CASE kind = "credential"      -> s.id = newCredentialID(s) /\ Flagged(s.id) # {}
    [] kind = "machine"         -> modelMachineIDAndName(s.id).name = s.name
    [] kind = "jaas_controller" -> s.ca = infoOf(wanted).ca
    [] OTHER                    -> TRUE

\* The states that the calls may end with, now or when one of them fails.
Results(cs) ==
  {c.val : c \in {d \in ToSet(cs) : d.op = "returns"}} \cup {c.soft[1] : c \in {d \in ToSet(cs) : d.soft # <<>>}}
Fit(s, cs, at) ==
  Formed(s) /\ \A k \in KeysOf(s) : \A x \in Besides : \E y : Suits(x, y, s) /\ Comes(cs, at, k, x, y, "exactly")
Fitted(cs, at) == \A s \in Results(cs) : Off(s) \/ Fit(s, cs, at)
FittedInv == pc \in {"create", "update"} /\ calls # <<>> /\ AtWork(calls) /\ Alone => Fitted(calls, there)

\* What Read has found before an Update.
Perceived(s, obj) ==
  CASE kind = "kubernetes_cloud" -> obj.credential # None
    [] kind = "application"      -> ReadBindings(obj) = None \/ s.bindings = ReadBindings(obj)
    [] OTHER                     -> TRUE
PerceivedInv ==
  pc = "update" /\ calls = <<>> /\ Alone => \A k \in Own : there[k] # None => Perceived(tfstate, there[k])

LEMMA FittingKept ==
  ASSUME kind' = kind
  PROVE  /\ Besides' = Besides
         /\ \A x, y, s : Suits(x, y, s)' <=> Suits(x, y, s)
         /\ \A s, obj : Perceived(s, obj)' <=> Perceived(s, obj)
         /\ wanted' = wanted => \A s : Formed(s)' <=> Formed(s)
<1>1. Besides' = Besides
  BY DEF Besides
<1>2. \A x, y, s : Suits(x, y, s)' <=> Suits(x, y, s)
  BY DEF Suits
<1>3. \A s, obj : Perceived(s, obj)' <=> Perceived(s, obj)
  BY DEF Perceived
<1>4. wanted' = wanted => \A s : Formed(s)' <=> Formed(s)
  BY DEF Formed
<1> QED BY <1>1, <1>2, <1>3, <1>4

LEMMA BesidesAreFields == Besides \subseteq FieldsOf
BY DEF Besides, FieldsOf

LEMMA FittedKept ==
  ASSUME \/ pc' \notin {"create", "update"} \/ calls' = <<>>
         \/ /\ kind' = kind /\ pc' = pc /\ wanted' = wanted
            /\ AtWork(calls') /\ Alone' => Fitted(calls', there')
  PROVE  FittedInv'
<1>1. CASE pc' \notin {"create", "update"} \/ calls' = <<>>
  BY <1>1 DEF FittedInv
<1>2. CASE /\ kind' = kind /\ pc' = pc /\ wanted' = wanted
           /\ AtWork(calls') /\ Alone' => Fitted(calls', there')
  <2>1. /\ Besides' = Besides /\ \A x, y, s : Suits(x, y, s)' <=> Suits(x, y, s)
        /\ \A s : Formed(s)' <=> Formed(s)
    BY <1>2, FittingKept
  <2>2. /\ \A s : KeysOf(s)' = KeysOf(s)
        /\ \A cs, at, k, x, v, how : Comes(cs, at, k, x, v, how)' <=> Comes(cs, at, k, x, v, how)
    BY <1>2, KindKept, ComingKept
  <2>3. \A v : Off(v)' <=> Off(v)
    BY <1>2, RunKept
  <2>4. AtWork(calls)' <=> AtWork(calls')
    BY <1>2, RunKept DEF AtWork, ToSet
  <2>5. \A s, cs, at : Fit(s, cs, at)' <=> Fit(s, cs, at)
    BY <2>1, <2>2 DEF Fit
  <2>6. Fitted(calls', there') => Fitted(calls, there)'
    BY <2>3, <2>5 DEF Fitted, Results, ToSet
  <2> QED BY <1>2, <2>4, <2>6 DEF FittedInv
<1> QED BY <1>1, <1>2

LEMMA FittedSteps ==
  ASSUME NoneIsNoConfig, NoneIsNoValue, IInv, SoundInv, FittedInv, Step
  PROVE  FittedInv'
<1> SUFFICES ASSUME pc \in {"create", "update"} PROVE FittedInv'
  BY StepDoes, FittedKept
<1>1. /\ calls # <<>> /\ Final(calls) /\ calls[1].op \notin {"returns", "fails"} /\ ~Refuses(calls[1], there)
      /\ DOMAIN there = Keys /\ there' = After(calls[1], there) /\ calls' = Tail(calls)
      /\ ToSet(calls') \subseteq ToSet(calls)
      /\ kind' = kind /\ pc' = pc /\ wanted' = wanted /\ touched' = touched
  BY StepDoes
<1>2. KeepsWhole(calls[1]) /\ calls[1].op \notin Removing /\ WholeAt(there)
  BY StepDoes DEF SoundInv, SoundWork, KeepsWhole
<1>3. AtWork(calls') <=> AtWork(calls)
  BY <1>1, Goes
<1>4. Results(calls') \subseteq Results(calls)
  BY <1>1 DEF Results
<1>5. \A s \in Results(calls) : KeysOf(s) \subseteq Keys
  BY DEF SoundInv, SoundWork, ProperCall, Proper, Results
<1>6. ASSUME AtWork(calls), Alone, NEW s \in Results(calls'), ~Off(s) PROVE Fit(s, calls', there')
  <2>1. Fit(s, calls, there)
    BY <1>1, <1>4, <1>6 DEF FittedInv, Fitted
  <2>2. ASSUME NEW k \in KeysOf(s), NEW x \in Besides
        PROVE  \E y : Suits(x, y, s) /\ Comes(calls', there', k, x, y, "exactly")
    <3>1. PICK y : Suits(x, y, s) /\ Comes(calls, there, k, x, y, "exactly")
      BY <2>1 DEF Fit
    <3>2. k \in Keys /\ x \in FieldsOf
      BY <1>4, <1>5, BesidesAreFields
    <3>3. Comes(calls', there', k, x, y, "exactly")
      BY <1>1, <1>2, <3>1, <3>2, ComesOn
    <3> QED BY <3>1, <3>3
  <2> QED BY <2>1, <2>2 DEF Fit
<1>7. Alone' => Alone
  BY <1>1 DEF Alone
<1> QED BY <1>1, <1>3, <1>6, <1>7, FittedKept DEF Fitted

LEMMA FittedFails ==
  ASSUME IInv, SoundInv, GetsInv, FittedInv, Refused \/ CallFails \/ AnswerLost
  PROVE  FittedInv'
<1>1. CASE Flatly
  BY <1>1, FittedKept DEF Flatly
<1>2. CASE Gently
  <2> SUFFICES ASSUME pc \in {"create", "update"} PROVE FittedInv'
    BY <1>2, FittedKept DEF Gently
  <2> DEFINE v == calls[1].soft[1]
             cs == <<returns(v)>>
  <2>1. calls[1].soft # <<>> /\ calls' = cs /\ pc' = pc /\ touched' = touched
    BY <1>2 DEF Gently
  <2>2. cs[1].soft = <<>> /\ ToSet(cs) = {returns(v)}
    BY ReturnsSpare
  <2>3. ASSUME AtWork(cs), Alone PROVE Fitted(cs, there')
    <3>0. returns(v).op = "returns" /\ returns(v).val = v /\ returns(v).soft = <<>>
      BY Singles
    <3>1. ~Off(v)
      <4> HIDE DEF v
      <4> QED BY <2>2, <2>3, <3>0 DEF AtWork, Good
    <3>2. /\ 1 \in DOMAIN calls /\ Final(calls) /\ DOMAIN calls = 1..Len(calls) /\ calls # <<>>
          /\ calls[1] \in ToSet(calls)
      BY FailDoes DEF Final
    <3>3. \A j \in DOMAIN calls : Plain(calls[j])
      <4>1. SoftLast(calls)
        BY <3>2 DEF GetsInv
      <4>2. \A j \in DOMAIN calls : j >= 1 => Plain(calls[j])
        BY <2>1, <3>1, <3>2, <4>1 DEF SoftLast
      <4> QED BY <3>2, <4>2
    <3>4. AtWork(calls)
      BY <3>3 DEF AtWork, ToSet, Plain
    <3>5. there' = there
      BY <3>2, <3>3, FailDoes DEF Plain
    <3>6. v \in Results(calls)
      BY <2>1, <3>2 DEF Results
    <3>7. \A j \in DOMAIN calls : calls[j].op \notin Setting \cup Renaming
      BY <3>3 DEF Plain
    <3> HIDE DEF v
    <3>8. Fit(v, calls, there)
      BY <2>3, <3>1, <3>2, <3>4, <3>6 DEF FittedInv, Fitted
    <3>9. ASSUME NEW k \in KeysOf(v), NEW x \in Besides
          PROVE  \E y : Suits(x, y, v) /\ Comes(cs, there, k, x, y, "exactly")
      <4>1. PICK y : Suits(x, y, v) /\ Comes(calls, there, k, x, y, "exactly")
        BY <3>8 DEF Fit
      <4>2. Comes(cs, there, k, x, y, "exactly")
        BY <3>2, <3>7, <4>1, ComesSoftly
      <4> QED BY <4>1, <4>2
    <3>10. Results(cs) = {v}
      <4> HIDE DEF cs
      <4> QED BY <2>2, <3>0 DEF Results
    <3> QED BY <3>5, <3>8, <3>9, <3>10 DEF Fitted, Fit
  <2>4. kind' = kind /\ wanted' = wanted
    BY FailDoes
  <2>5. Alone' => Alone
    BY <2>1 DEF Alone
  <2> HIDE DEF cs
  <2> QED BY <2>1, <2>3, <2>4, <2>5, FittedKept
<1> QED BY <1>1, <1>2, FailDoes

LEMMA FittedOthers ==
  ASSUME IInv, FittedInv,
         \/ Returned \/ Deleted \/ Read \/ ReadFails
         \/ Vanish \/ OutsideChange \/ Import \/ EditConfig \/ Start \/ UNCHANGED vars
  PROVE  FittedInv'
<1>1. CASE Returned \/ Deleted \/ Read \/ ReadFails \/ Import \/ EditConfig \/ Start
  <2>1. calls' = <<>>
    BY <1>1 DEF Returned, Deleted, Read, Refreshed, ReadFails, Import, EditConfig, Edit, Start, BeginApply, IInv, ControlInv
  <2> QED BY <2>1, FittedKept
<1>2. CASE Vanish \/ OutsideChange
  <2>1. UNCHANGED <<wanted, pc, kind, calls>> /\ (pc # "idle" => "now" \in touched')
    BY <1>2, ChangeDoes
  <2>2. "now" \in touched' => ~Alone'
    BY DEF Alone
  <2> QED BY <2>1, <2>2, FittedKept DEF FittedInv
<1>3. CASE UNCHANGED vars
  <2>1. UNCHANGED <<wanted, pc, kind, calls, there, touched>>
    BY <1>3 DEF vars
  <2>2. Alone' => Alone
    BY <2>1 DEF Alone
  <2> QED BY <2>1, <2>2, FittedKept DEF FittedInv
<1> QED BY <1>1, <1>2, <1>3

-----------------------------------------------------------------------------
(* The handlers end with states that suit what they leave.                 *)

LEMMA HandlerFits ==
  ASSUME NEW body, SoundCalls(body), NEW state, Proper(state), Formed(state), NEW at,
         \A c \in ToSet(body) : c.op # "returns" /\ c.soft = <<>>,
         \A k \in KeysOf(state) : \A x \in Besides : \E y : Suits(x, y, state) /\ Lands(body, at, k, x, y, "exactly")
  PROVE  Fitted(body \o <<returns(state)>>, at)
<1> DEFINE cs == body \o <<returns(state)>>
<1>1. /\ ToSet(cs) = ToSet(body) \cup {returns(state)}
      /\ \A k, x, v, how : /\ Still(body, k, x, v, how) => Still(cs, k, x, v, how)
                           /\ Sure(body, k, x, v, how) => Sure(cs, k, x, v, how)
  BY Handler
<1>2. returns(state).val = state /\ returns(state).soft = <<>>
  BY Singles
<1> HIDE DEF cs
<1>3. Results(cs) \subseteq {state}
  BY <1>1, <1>2 DEF Results
<1>4. \A k, x, y : Lands(body, at, k, x, y, "exactly") => Comes(cs, at, k, x, y, "exactly")
  BY <1>1 DEF Lands, Comes
<1>5. Fit(state, cs, at)
  BY <1>4 DEF Fit
<1> QED BY <1>3, <1>5 DEF Fitted, cs

LEMMA FormedFits ==
  ASSUME NEW cs, NEW at, Besides = {}, \A c \in ToSet(cs) : c.soft = <<>> /\ (c.op = "returns" => Formed(c.val))
  PROVE  Fitted(cs, at)
BY DEF Fitted, Fit, Results

LEMMA KubernetesCloudCreateFits ==
  ASSUME NoneIsNoValue, kind = "kubernetes_cloud", NEW w \in Configs
  PROVE  Fitted(Create(w), there)
<1> DEFINE c == add(w.name, [KubernetesCloudOf(w) EXCEPT !.credential = None])
           d == set(w.name, [credential |-> w.config])
           body == <<c, d>>
           state == StateOf(w.name, w)
<1>1. DOMAIN w = {"name", "config", "storage"} /\ kind \in ByName /\ w.config \in {1, 2}
  BY DEF Configs, KubernetesCloudConfigs, ByName, AllKinds
<1>2. Proper(state) /\ KeysOf(state) = {w.name}
  BY <1>1, ProperNamed
<1>3. /\ c.op = "add" /\ c.key = w.name /\ c.soft = <<>> /\ DOMAIN c.val = FieldsOf
      /\ d.op = "set" /\ d.key = w.name /\ d.soft = <<>> /\ DOMAIN d.val = {"credential"} /\ d.val["credential"] = w.config
  BY Singles DEF KubernetesCloudOf, FieldsOf
<1>4. Create(w) = body \o <<returns(state)>>
  BY DEF Create, KubernetesCloudCreate, CreateKubernetesCloud
<1>5. SoundCall(c) /\ SoundCall(d)
  <2>1. c.val.name = w.name /\ c.val.config = w.config
    BY DEF c, add, Call, KubernetesCloudOf
  <2> QED BY <1>3, <2>1, SoundMaking, SoundSetting DEF Making, Whole, OneName
<1>6. d.op \in Setting
  BY <1>3 DEF Setting
<1> HIDE DEF c, d
<1>7. Sure(body, w.name, "credential", w.config, "exactly")
  BY <1>3, <1>6, SettingCalls, SureTuples DEF Ok
<1>8. SoundCalls(body) /\ ToSet(body) = {c, d}
  BY <1>5, SoundTuples, SetsOfTuples
<1>9. \A e \in ToSet(body) : e.op # "returns" /\ e.soft = <<>>
  BY <1>3, <1>8
<1>10. w.config # None
  BY <1>1 DEF NoneIsNoValue
<1> HIDE DEF body, state
<1>11. Formed(state)
  BY DEF Formed
<1>12. \A k \in KeysOf(state) : \A x \in Besides : \E y : Suits(x, y, state) /\ Lands(body, there, k, x, y, "exactly")
  BY <1>2, <1>7, <1>10 DEF Besides, Suits, Lands
<1> QED BY <1>2, <1>4, <1>8, <1>9, <1>11, <1>12, HandlerFits

LEMMA KubernetesCloudUpdateFits ==
  ASSUME kind = "kubernetes_cloud", NEW w \in Configs, NEW s, IsState(s), Proper(s), ~Replaced(s, w),
         \A k \in KeysOf(s) : there[k] # None => Perceived(s, there[k])
  PROVE  LET cs == Update(s, Plan(s, w)) IN AtWork(cs) => Fitted(cs, there)
<1> DEFINE c == UpdateKubernetesCloud(w)
           body == <<c>>
           state == StateOf(s.id, w)
<1>1. kind \in ByName /\ Plan(s, w) = w /\ s.name = w.name
  BY DEF ByName, AllKinds, Plan, Replaced, KubernetesCloudReplaced
<1>2. KeysOf(s) = {w.name} /\ Proper(state) /\ KeysOf(state) = {w.name}
  BY <1>1, StaysNamed
<1>3. /\ setting.jaas => Update(s, Plan(s, w)) = <<fails>>
      /\ ~setting.jaas => Update(s, Plan(s, w)) = <<c, returns(state)>>
  BY <1>1 DEF Update, KubernetesCloudUpdate
<1>4. c.op = "set" /\ c.key = w.name /\ c.soft = <<>> /\ c.val = [config |-> w.config]
  BY Singles DEF UpdateKubernetesCloud
<1>5. SoundCall(c)
  BY <1>4, SoundSetting DEF OneName
<1>6. c.op \in Setting /\ "credential" \notin DOMAIN c.val
  BY <1>4 DEF Setting
<1>7. <<c, returns(state)>> = body \o <<returns(state)>>
  BY Tuples
<1> HIDE DEF c, state
<1>8. \A k, v : Still(body, k, "credential", v, "exactly")
  BY <1>6, SettingCalls, SureTuples
<1>9. SoundCalls(body) /\ ToSet(body) = {c}
  BY <1>5, SoundTuples, SetsOfTuples
<1>10. Formed(state)
  BY DEF Formed
<1> HIDE DEF body
<1>11. \E y : Suits("credential", y, state) /\ Lands(body, there, w.name, "credential", y, "exactly")
  <2>1. CASE there[w.name] = None
    <3>1. PICK y : y # None
      OBVIOUS
    <3> QED BY <1>8, <2>1, <3>1 DEF Suits, Lands, Is
  <2>2. CASE there[w.name] # None
    <3>1. there[w.name].credential # None
      BY <1>2, <2>2 DEF Perceived
    <3> QED BY <1>8, <3>1 DEF Suits, Lands, Is, Ok
  <2> QED BY <2>1, <2>2
<1>12. \A k \in KeysOf(state) : \A x \in Besides : \E y : Suits(x, y, state) /\ Lands(body, there, k, x, y, "exactly")
  BY <1>2, <1>11 DEF Besides
<1>13. \A e \in ToSet(body) : e.op # "returns" /\ e.soft = <<>>
  BY <1>4, <1>9
<1>14. Fitted(body \o <<returns(state)>>, there)
  BY <1>2, <1>9, <1>10, <1>12, <1>13, HandlerFits
<1> QED BY <1>3, <1>7, <1>14, FailsOnly

LEMMA CredentialFits ==
  ASSUME kind = "credential", NEW w \in Configs
  PROVE  LET cs == CreateCredential(w) \o <<returns(StateOf(newCredentialID(w), w))>> IN
         AtWork(cs) => Fitted(cs, there)
<1> DEFINE v == [name |-> w.name, auth |-> w.auth]
           c == put("client", v)
           d == put("controller", v)
           one == putClient(w)
           two == putController(w)
           id == newCredentialID(w)
           state == StateOf(id, w)
           end == <<returns(state)>>
           body == CreateCredential(w)
           cs == body \o end
<1>1. /\ c.op = "put" /\ c.soft = <<>> /\ d.op = "put" /\ d.soft = <<>>
      /\ fails.op = "fails" /\ fails.soft = <<>>
      /\ returns(state).val = state /\ returns(state).soft = <<>>
  BY Singles
<1>2. DOMAIN w = {"name", "auth", "client", "controller"}
  BY DEF Configs, CredentialConfigs
<1>3. state.client = w.client /\ state.controller = w.controller /\ state.id = id
  BY <1>2 DEF StateOf
<1>4. id = [client |-> w.client, controller |-> w.controller] /\ newCredentialID(state) = id
  BY <1>3 DEF newCredentialID
<1>5. Flagged(w) = Flagged(id)
  BY <1>4 DEF Flagged
<1>6. Flagged(w) # {} => Formed(state)
  <2> HIDE DEF state, id
  <2> QED BY <1>3, <1>4, <1>5 DEF Formed
<1>7. /\ one = IF w.client THEN <<c>> ELSE <<>>
      /\ two = IF w.controller THEN <<d>> ELSE <<>>
      /\ body = IF Flagged(w) = {} THEN <<fails>> ELSE one \o two
  BY DEF putClient, putController, CreateCredential
<1> HIDE DEF v, c, d, one, two, body, id, state
<1>8. /\ one \in Seq(ToSet(one)) /\ ToSet(one) \subseteq {c}
      /\ two \in Seq(ToSet(two)) /\ ToSet(two) \subseteq {d}
      /\ <<fails>> \in Seq(ToSet(<<fails>>)) /\ ToSet(<<fails>>) = {fails}
      /\ end \in Seq(ToSet(end)) /\ ToSet(end) = {returns(state)}
  BY <1>7, SetsOfTuples
<1> HIDE DEF end
<1>9. CASE Flagged(w) = {}
  <2>1. body \in Seq(ToSet(body)) /\ fails \in ToSet(body)
    BY <1>7, <1>8, <1>9
  <2>2. fails \in ToSet(cs)
    BY <1>8, <2>1, SetsTogether
  <2>3. ~AtWork(cs)
    BY <1>1, <2>2 DEF AtWork, Good
  <2> QED BY <2>3 DEF body, end, state, id
<1>10. CASE Flagged(w) # {}
  <2>1. body \in Seq(ToSet(body)) /\ ToSet(body) \subseteq {c, d}
    <3>1. one \o two \in Seq(ToSet(one \o two)) /\ ToSet(one \o two) = ToSet(one) \cup ToSet(two)
      BY <1>8, SetsTogether
    <3> QED BY <1>7, <1>8, <1>10, <3>1
  <2>2. ToSet(cs) \subseteq {c, d, returns(state)}
    <3>1. end \in Seq(ToSet(end)) /\ ToSet(end) = {returns(state)}
      BY <1>8
    <3>2. ToSet(body \o end) = ToSet(body) \cup ToSet(end)
      BY <2>1, <3>1, SetsTogether
    <3> QED BY <2>1, <3>1, <3>2
  <2> HIDE DEF cs
  <2>3. \A e \in ToSet(cs) : e.soft = <<>> /\ (e.op = "returns" => Formed(e.val))
    BY <1>1, <1>6, <1>10, <2>2
  <2>4. Besides = {}
    BY DEF Besides
  <2>5. Fitted(cs, there)
    BY <2>3, <2>4, FormedFits
  <2> QED BY <2>5 DEF cs, body, end, state, id
<1> QED BY <1>9, <1>10

LEMMA JAASControllerFits ==
  ASSUME kind = "jaas_controller", NEW w \in Configs, w = wanted, NEW s
  PROVE  /\ Fitted(Create(w), there)
         /\ ~AtWork(Update(s, Plan(s, w)))
<1> DEFINE c == AddController(w)
           end == [StateOf(w.name, w) EXCEPT !.ca = infoOf(w).ca]
           cs == <<c, returns(end)>>
<1>1. c.op = "add" /\ c.soft = <<>> /\ returns(end).val = end /\ returns(end).soft = <<>>
  BY Singles DEF AddController
<1>2. end.ca = infoOf(w).ca
  <2>1. "ca" \in DOMAIN StateOf(w.name, w)
    BY DEF StateOf, Configs, ControllerConfigsOfJAAS
  <2> QED BY <2>1
<1>3. Formed(end)
  <2> HIDE DEF end
  <2> QED BY <1>2 DEF Formed
<1>4. Create(w) = cs
  BY DEF Create, JAASControllerCreate
<1> HIDE DEF c, end
<1>5. ToSet(cs) = {c, returns(end)}
  BY SetsOfTuples
<1> HIDE DEF cs
<1>6. Besides = {}
  BY DEF Besides
<1>7. Fitted(cs, there)
  BY <1>1, <1>3, <1>5, <1>6, FormedFits
<1>8. Update(s, Plan(s, w)) = <<fails>>
  BY DEF Update, JAASControllerUpdate
<1> QED BY <1>4, <1>7, <1>8, FailsOnly

LEMMA MachineCreateFits ==
  ASSUME kind = "machine", NEW w \in Configs
  PROVE  Fitted(Create(w), there)
<1> DEFINE key == FreshID(there)
           state == StateOf(newMachineID(key, w.name), w)
           c == CreateMachine(key, w)
           s == saves(state)
           made == <<c, s>>
           n == SetAnnotations(key, w.annotations)
           notes == updateAnnotations(key, None, w.annotations)
           waits == waitForMachine(key)
           body == (made \o notes) \o <<waits>>
           cs == body \o <<returns(state)>>
<1>1. state.id = <<key, w.name>> /\ state.name = w.name
  BY StateOfID DEF newMachineID, StateOf, Configs, MachineConfigs
<1>2. Formed(state)
  <2> HIDE DEF state, key
  <2> QED BY <1>1 DEF Formed, modelMachineIDAndName
<1>3. /\ c.op = "add" /\ c.soft = <<>> /\ n.op = "set" /\ n.soft = <<>> /\ s.op = "saves" /\ s.soft = <<>>
      /\ waits.op = "see" /\ waits.soft = <<>> /\ returns(state).val = state /\ returns(state).soft = <<>>
  BY Singles DEF CreateMachine, SetAnnotations, waitForMachine
<1>4. notes = IF None = w.annotations THEN <<>> ELSE <<n>>
  BY DEF updateAnnotations
<1>5. Create(w) = (made \o notes) \o <<waits, returns(state)>>
  BY DEF Create, MachineCreate
<1>6. SoundCalls(Create(w))
  BY MachineCreates DEF Creates
<1> HIDE DEF c, s, n, waits, notes, state, key
<1>7. notes \in Seq(ToSet(notes)) /\ ToSet(notes) \subseteq {n}
  BY <1>4, SetsOfTuples
<1>8. made \in Seq(ToSet(made)) /\ ToSet(made) = {c, s}
  BY SetsOfTuples
<1> HIDE DEF made
<1>9. made \o notes \in Seq(ToSet(made \o notes)) /\ ToSet(made \o notes) = ToSet(made) \cup ToSet(notes)
  BY <1>7, <1>8, SetsTogether
<1> DEFINE front == made \o notes
           rest == <<waits, returns(state)>>
<1>10. rest \in Seq(ToSet(rest)) /\ ToSet(rest) = {waits, returns(state)}
  BY SetsOfTuples
<1>11. front \in Seq(ToSet(front)) /\ ToSet(front) = ToSet(made) \cup ToSet(notes)
  BY <1>9
<1> HIDE DEF front, rest
<1>12. ToSet(front \o rest) = ToSet(front) \cup ToSet(rest)
  BY <1>10, <1>11, SetsTogether
<1>13. \A e \in ToSet(front \o rest) : e.soft = <<>> /\ (e.op = "returns" => Formed(e.val))
  BY <1>2, <1>3, <1>7, <1>8, <1>10, <1>11, <1>12
<1>14. Besides = {}
  BY DEF Besides
<1> QED BY <1>5, <1>13, <1>14, FormedFits DEF front, rest

LEMMA MachineUpdateFits ==
  ASSUME kind = "machine", NEW w \in Configs, NEW s, Proper(s)
  PROVE  Fitted(Update(s, Plan(s, w)), there)
<1> DEFINE key == modelMachineIDAndName(s.id).machine
           c == SetAnnotations(key, w.annotations)
           notes == updateAnnotations(key, s.annotations, w.annotations)
           state == [s EXCEPT !.name = w.name, !.annotations = w.annotations, !.id = newMachineID(key, w.name)]
           end == <<returns(state)>>
<1>1. Plan(s, w) = w
  BY DEF Plan
<1>2. "id" \in DOMAIN s /\ "name" \in DOMAIN s
  <2>1. StateFields = DOMAIN s
    BY DEF Proper
  <2>2. "id" \in StateFields /\ "name" \in StateFields
    BY DEF StateFields
  <2> QED BY <2>1, <2>2
<1>3. state.id = <<key, w.name>> /\ state.name = w.name
  BY <1>2 DEF newMachineID
<1>4. Formed(state)
  <2> HIDE DEF state, key
  <2> QED BY <1>3 DEF Formed, modelMachineIDAndName
<1>5. c.op = "set" /\ c.soft = <<>> /\ returns(state).val = state /\ returns(state).soft = <<>>
  BY Singles DEF SetAnnotations
<1>6. notes = IF s.annotations = w.annotations THEN <<>> ELSE <<c>>
  BY DEF updateAnnotations
<1>7. Update(s, Plan(s, w)) = notes \o end
  BY <1>1 DEF Update, MachineUpdate
<1> HIDE DEF c, notes, state, key
<1>8. /\ notes \in Seq(ToSet(notes)) /\ ToSet(notes) \subseteq {c}
      /\ end \in Seq(ToSet(end)) /\ ToSet(end) = {returns(state)}
  BY <1>6, SetsOfTuples
<1> HIDE DEF end
<1>9. ToSet(notes \o end) \subseteq {c, returns(state)}
  BY <1>8, SetsTogether
<1>10. \A e \in ToSet(notes \o end) : e.soft = <<>> /\ (e.op = "returns" => Formed(e.val))
  BY <1>4, <1>5, <1>9
<1>11. Besides = {}
  BY DEF Besides
<1> QED BY <1>7, <1>10, <1>11, FormedFits

\* Of calls that are not soft, do not return, and spare the fields.
Sparing(cs, fields) ==
  /\ SoundCalls(cs) /\ \A c \in ToSet(cs) : c.op # "returns" /\ c.soft = <<>>
  /\ \A k, v : \A x \in fields : Still(cs, k, x, v, "exactly")

LEMMA SparingTogether ==
  /\ \A fields : Sparing(<<>>, fields)
  /\ \A c, fields : SoundCall(c) /\ c.op = "set" /\ c.soft = <<>> /\ fields \cap DOMAIN c.val = {} => Sparing(<<c>>, fields)
  /\ \A c, fields : SoundCall(c) /\ c.op \in Idle \ {"returns"} /\ c.soft = <<>> => Sparing(<<c>>, fields)
  /\ \A s, t, fields : /\ Sparing(s, fields) /\ Sparing(t, fields) => Sparing(s \o t, fields)
                       /\ Sparing(s, fields) /\ Sparing(t, {}) =>
                            \A k, v : \A x \in fields : Sure(t, k, x, v, "exactly") => Sure(s \o t, k, x, v, "exactly")
                       /\ Sparing(s, {}) /\ Sparing(t, {}) => Sparing(s \o t, {})
<1>1. \A fields : Sparing(<<>>, fields)
  BY SoundTuples, SetsOfTuples, SureTuples DEF Sparing
<1>2. ASSUME NEW c, NEW fields, SoundCall(c), c.op = "set", c.soft = <<>>, fields \cap DOMAIN c.val = {}
      PROVE  Sparing(<<c>>, fields)
  <2>1. \A k, v : \A x \in fields : Spares(c, k, x, v, "exactly")
    BY <1>2, SettingCalls DEF Setting
  <2>2. \A k, v : \A x \in fields : Still(<<c>>, k, x, v, "exactly")
    BY <2>1, SureTuples
  <2>3. SoundCalls(<<c>>) /\ ToSet(<<c>>) = {c}
    BY <1>2, SoundTuples, SetsOfTuples
  <2> QED BY <1>2, <2>2, <2>3 DEF Sparing
<1>3. ASSUME NEW c, NEW fields, SoundCall(c), c.op \in Idle \ {"returns"}, c.soft = <<>>
      PROVE  Sparing(<<c>>, fields)
  <2>1. \A k, v : \A x \in fields : Spares(c, k, x, v, "exactly")
    BY <1>3, IdleCalls
  <2>2. \A k, v : \A x \in fields : Still(<<c>>, k, x, v, "exactly")
    BY <2>1, SureTuples
  <2>3. SoundCalls(<<c>>) /\ ToSet(<<c>>) = {c}
    BY <1>3, SoundTuples, SetsOfTuples
  <2> QED BY <1>3, <2>2, <2>3 DEF Sparing
<1>4. ASSUME NEW s, NEW t, NEW fields, SoundCalls(s), SoundCalls(t)
      PROVE  /\ Sparing(s, fields) /\ Sparing(t, fields) => Sparing(s \o t, fields)
             /\ \A k, x, v : Sure(t, k, x, v, "exactly") => Sure(s \o t, k, x, v, "exactly")
  BY <1>4, SoundTogether DEF Sparing
<1>5. \A s, fields : Sparing(s, fields) => SoundCalls(s)
  BY DEF Sparing
<1> QED BY <1>1, <1>2, <1>3, <1>4, <1>5

LEMMA ModelUpdateFits ==
  ASSUME NoneIsNoValue, kind = "model", NEW w \in Configs, NEW s, s # None, Proper(s), Seeing(s)
  PROVE  LET cs == Update(s, Plan(s, w)) IN AtWork(cs) => Fitted(cs, there)
<1> DEFINE plan == Plan(s, w)
           key == s.id
           a == SetAnnotations(key, plan.annotations)
           b == set(key, [config |-> plan.config])
           c == SetModelConstraints(key, plan.constraints)
           d == SetModelSecretBackend(key, plan.backend)
           e == UpgradeModel(key, plan.agent)
           notes == updateAnnotations(key, s.annotations, plan.annotations)
           config == IF s.config = plan.config THEN <<>> ELSE <<b>>
           credential == IF s.credential = plan.credential THEN <<>> ELSE <<ChangeModelCredential>>
           backend == IF s.backend = plan.backend THEN <<>> ELSE <<d>>
           agent == IF s.agent = plan.agent THEN <<>> ELSE <<e>>
           limits == <<c>>
           some == (config \o limits) \o credential
           same == \A x \in {"config", "constraints", "credential"} : s[x] = plan[x]
           update == UpdateModel(s, plan)
           body == ((notes \o update) \o backend) \o agent
           state == StateOf(key, plan)
           F == {"agent", "credential"}
<1>1. DOMAIN plan = {"name", "config", "constraints", "annotations", "backend", "agent", "credential"}
  BY PlannedModels
<1> HIDE DEF plan
<1>2. KeysOf(s) = {key} /\ key \in Keys
  BY DEF KeysOf, Proper
<1>3. Proper(state) /\ KeysOf(state) = {key} /\ state.agent = plan.agent /\ state.credential = plan.credential
  <2>1. DOMAIN plan \cup {"id"} = StateFields
    BY <1>1 DEF StateFields
  <2>2. state = [x \in StateFields |-> state[x]] /\ state.id = key
        /\ state.agent = plan.agent /\ state.credential = plan.credential
    BY <1>1, <2>1 DEF StateOf
  <2> HIDE DEF key, state
  <2>3. KeysOf(state) = {key}
    BY <2>2 DEF KeysOf
  <2> QED BY <1>2, <2>2, <2>3 DEF Proper
<1>4. Update(s, Plan(s, w)) = body \o <<returns(state)>>
  BY DEF Update, ModelUpdate, plan
<1>5. /\ a.op = "set" /\ a.soft = <<>> /\ a.val = [annotations |-> plan.annotations]
      /\ b.op = "set" /\ b.soft = <<>> /\ b.val = [config |-> plan.config]
      /\ c.op = "set" /\ c.soft = <<>> /\ c.val = [constraints |-> plan.constraints]
      /\ d.op = "set" /\ d.soft = <<>> /\ d.val = [backend |-> IF plan.backend = None THEN "auto" ELSE plan.backend]
      /\ e.op = "set" /\ e.key = key /\ e.soft = <<>> /\ e.val = [agent |-> plan.agent]
      /\ fails.op = "fails" /\ fails.soft = <<>>
  BY Singles DEF SetAnnotations, SetModelConstraints, SetModelSecretBackend, UpgradeModel
<1>6. SoundCall(a) /\ SoundCall(b) /\ SoundCall(c) /\ SoundCall(d) /\ SoundCall(e) /\ SoundCall(fails)
  <2>1. SoundCall(a) /\ SoundCall(b) /\ SoundCall(c) /\ SoundCall(d) /\ SoundCall(e)
    BY <1>5, SoundSetting DEF OneName, NoneIsNoValue
  <2>2. SoundCall(fails)
    BY Singles, IdleCalls DEF Idle
  <2> QED BY <2>1, <2>2
<1>7. /\ F \cap DOMAIN a.val = {} /\ F \cap DOMAIN b.val = {} /\ F \cap DOMAIN c.val = {} /\ F \cap DOMAIN d.val = {}
      /\ DOMAIN e.val = {"agent"} /\ e.val["agent"] = plan.agent /\ fails.op \in Idle \ {"returns"}
  BY <1>5 DEF Idle
<1>8. /\ notes = <<>> \/ notes = <<a>>
      /\ config = <<>> \/ config = <<b>>
      /\ credential = IF s.credential = plan.credential THEN <<>> ELSE <<fails>>
      /\ backend = <<>> \/ backend = <<d>>
      /\ agent = IF s.agent = plan.agent THEN <<>> ELSE <<e>>
  BY DEF updateAnnotations, ChangeModelCredential
<1>9. update = IF same THEN <<>> ELSE some
  BY DEF UpdateModel
<1>10. same => s.credential = plan.credential
  OBVIOUS
<1>11. \A fields : Sparing(<<>>, fields)
  BY SparingTogether
<1> HIDE DEF a, b, c, d, e, notes, config, credential, backend, agent, update, same, state, key, F
<1>12. Sparing(notes, F) /\ Sparing(config, F) /\ Sparing(backend, F) /\ Sparing(limits, F)
  BY <1>5, <1>6, <1>7, <1>8, SparingTogether
<1> HIDE DEF limits
<1>13. Sparing(credential, F) /\ (s.credential # plan.credential => fails \in ToSet(credential))
  <2>1. CASE s.credential = plan.credential
    BY <1>8, <1>11, <2>1
  <2>2. CASE s.credential # plan.credential
    <3>1. credential = <<fails>>
      BY <1>8, <2>2
    <3> QED BY <1>5, <1>6, <1>7, <3>1, SparingTogether, SetsOfTuples
  <2> QED BY <2>1, <2>2
<1>14. Sparing(some, F) /\ (s.credential # plan.credential => fails \in ToSet(some))
  <2>1. Sparing(config \o limits, F)
    BY <1>12, SparingTogether
  <2> DEFINE l == config \o limits
  <2>2. Sparing(l, F)
    BY <2>1
  <2> HIDE DEF l
  <2>3. Sparing(l \o credential, F)
    BY <1>13, <2>2, SparingTogether
  <2>4. ToSet(l \o credential) = ToSet(l) \cup ToSet(credential)
    BY <1>13, <2>2, SoundTogether DEF Sparing
  <2> QED BY <1>13, <2>3, <2>4 DEF l
<1> HIDE DEF some
<1>15. Sparing(update, F) /\ (s.credential # plan.credential => fails \in ToSet(update))
  BY <1>9, <1>10, <1>11, <1>14
<1> DEFINE one == notes \o update
           two == one \o backend
<1>16. Sparing(one, F) /\ (s.credential # plan.credential => fails \in ToSet(one))
  <2>1. Sparing(notes \o update, F)
    BY <1>12, <1>15, SparingTogether
  <2>2. ToSet(notes \o update) = ToSet(notes) \cup ToSet(update)
    BY <1>12, <1>15, SoundTogether DEF Sparing
  <2> QED BY <1>15, <2>1, <2>2
<1> HIDE DEF one
<1>17. Sparing(two, F) /\ (s.credential # plan.credential => fails \in ToSet(two))
  <2>1. Sparing(one \o backend, F)
    BY <1>12, <1>16, SparingTogether
  <2>2. ToSet(one \o backend) = ToSet(one) \cup ToSet(backend)
    BY <1>12, <1>16, SoundTogether DEF Sparing
  <2> QED BY <1>16, <2>1, <2>2
<1>18. body = two \o agent
  BY DEF one
<1> HIDE DEF two, body
<1>19. /\ SoundCalls(agent) /\ \A f \in ToSet(agent) : f.op # "returns" /\ f.soft = <<>>
       /\ \A k, v : Still(agent, k, "credential", v, "exactly")
       /\ s.agent = plan.agent => \A k, v : Still(agent, k, "agent", v, "exactly")
       /\ s.agent # plan.agent => Sure(agent, key, "agent", plan.agent, "exactly")
  <2>1. CASE s.agent = plan.agent
    <3>1. agent = <<>>
      BY <1>8, <2>1
    <3> QED BY <2>1, <3>1, SoundTuples, SetsOfTuples, SureTuples
  <2>2. CASE s.agent # plan.agent
    <3>1. agent = <<e>>
      BY <1>8, <2>2
    <3>2. Sparing(agent, {"credential"})
      <4>1. {"credential"} \cap DOMAIN e.val = {}
        BY <1>7
      <4> QED BY <1>5, <1>6, <3>1, <4>1, SparingTogether
    <3>3. Gives(e, key, "agent", plan.agent, "exactly")
      BY <1>5, <1>7 DEF Gives, Setting, Ok
    <3>4. Spares(e, key, "agent", plan.agent, "exactly")
      BY <1>5, <1>7 DEF Spares, Renaming, Ok
    <3>5. Sure(agent, key, "agent", plan.agent, "exactly")
      BY <3>1, <3>3, <3>4, SureTuples
    <3> QED BY <2>2, <3>2, <3>5 DEF Sparing
  <2> QED BY <2>1, <2>2
<1>20. /\ SoundCalls(two) /\ \A f \in ToSet(two) : f.op # "returns" /\ f.soft = <<>>
       /\ \A k, v : Still(two, k, "credential", v, "exactly") /\ Still(two, k, "agent", v, "exactly")
  BY <1>17 DEF Sparing, F
<1>21. /\ SoundCalls(body) /\ ToSet(body) = ToSet(two) \cup ToSet(agent)
       /\ \A k, v : Still(body, k, "credential", v, "exactly")
       /\ s.agent = plan.agent => \A k, v : Still(body, k, "agent", v, "exactly")
       /\ s.agent # plan.agent => Sure(body, key, "agent", plan.agent, "exactly")
  BY <1>18, <1>19, <1>20, SoundTogether
<1>22. \A f \in ToSet(body) : f.op # "returns" /\ f.soft = <<>>
  BY <1>19, <1>20, <1>21
<1>23. there[key] # None /\ s.agent = there[key].agent /\ s.credential = there[key].credential
  BY <1>2 DEF Seeing, Visible
<1>24. ASSUME s.credential = plan.credential
       PROVE  \A x \in Besides : \E y : Suits(x, y, state) /\ Lands(body, there, key, x, y, "exactly")
  <2>1. Suits("agent", plan.agent, state) /\ Suits("credential", plan.credential, state)
    BY <1>3 DEF Suits
  <2>2. Lands(body, there, key, "credential", plan.credential, "exactly")
    BY <1>21, <1>23, <1>24 DEF Lands, Is, Ok
  <2>3. Lands(body, there, key, "agent", plan.agent, "exactly")
    BY <1>21, <1>23 DEF Lands, Is, Ok
  <2>4. Besides = {"agent", "credential"}
    BY DEF Besides
  <2> QED BY <2>1, <2>2, <2>3, <2>4
<1>25. Formed(state)
  BY DEF Formed
<1>26. s.credential = plan.credential => Fitted(body \o <<returns(state)>>, there)
  BY <1>3, <1>21, <1>22, <1>24, <1>25, HandlerFits
<1>27. s.credential # plan.credential => ~AtWork(body \o <<returns(state)>>)
  <2>1. s.credential # plan.credential => fails \in ToSet(body \o <<returns(state)>>)
    BY <1>3, <1>17, <1>21, Handler
  <2> QED BY <1>5, <2>1 DEF AtWork, Good
<1> QED BY <1>4, <1>26, <1>27

\* The states that the creation of a model can end with.
Modelled(key, w) == [StateOf(key, w) EXCEPT !.agent = 2, !.credential = credentialOf(w)]
Unset(s) == [s EXCEPT !.backend = None]
Unread(s) == [s EXCEPT !.agent = None]
LEMMA NewModels ==
  ASSUME kind = "model", NEW w \in Configs, NEW key \in Keys
  PROVE  \A r \in {Modelled(key, w), Unset(Modelled(key, w)), Unread(Modelled(key, w))} :
           Proper(r) /\ KeysOf(r) = {key} /\ r.agent \in {None, 2} /\ r.credential = credentialOf(w)
<1> DEFINE s == StateOf(key, w)
           credential == credentialOf(w)
           state == Modelled(key, w)
           unset == Unset(state)
           unread == Unread(state)
<1>1. DOMAIN w = {"name", "config", "constraints", "annotations", "backend", "agent", "credential"}
  BY DEF Configs, ModelConfigs
<1>2. StateFields = {"id", "name", "config", "constraints", "annotations", "backend", "agent", "credential"}
  BY DEF StateFields
<1>3. s = [x \in StateFields |-> s[x]] /\ s.id = key
  BY <1>1, <1>2 DEF StateOf
<1>9. state = [s EXCEPT !.agent = 2, !.credential = credential] /\ unset = [state EXCEPT !.backend = None] /\ unread = [state EXCEPT !.agent = None]
  BY DEF Modelled, Unset, Unread
<1> HIDE DEF s, credential, state, unset, unread
<1>4. state = [x \in StateFields |-> state[x]] /\ state.id = key /\ state.agent = 2 /\ state.credential = credential
  BY <1>2, <1>3, <1>9
<1>5. unset = [x \in StateFields |-> unset[x]] /\ unset.id = key /\ unset.agent = 2 /\ unset.credential = credential
  BY <1>2, <1>4, <1>9
<1>6. unread = [x \in StateFields |-> unread[x]] /\ unread.id = key /\ unread.agent = None /\ unread.credential = credential
  BY <1>2, <1>4, <1>9
<1>7. \A r : KeysOf(r) = {r.id}
  BY DEF KeysOf
<1>8. \A r \in {state, unset, unread} : Proper(r) /\ KeysOf(r) = {key} /\ r.agent \in {None, 2} /\ r.credential = credential
  BY <1>4, <1>5, <1>6, <1>7 DEF Proper
<1> QED BY <1>8 DEF credential, state, unset, unread

LEMMA ModelCreateFits ==
  ASSUME NoneIsNoValue, kind = "model", NEW w \in Configs
  PROVE  Fitted(Create(w), there)
<1> DEFINE key == FreshID(there)
           credential == credentialOf(w)
           state == Modelled(key, w)
           unset == Unset(state)
           unread == Unread(state)
           a == AddModel(key, w)
           b == SetModelConstraints(key, w.constraints)
           n == SetAnnotations(key, w.annotations)
           d == soft(SetModelSecretBackend(key, w.backend), unset)
           e == soft(see(key, [name |-> w.name]), unread)
           limits == IF w.constraints = None THEN <<>> ELSE <<b>>
           notes == updateAnnotations(key, None, w.annotations)
           backend == IF w.backend = None THEN <<>> ELSE <<d>>
           adds == <<a>>
           sees == <<e>>
           one == adds \o limits
           two == one \o notes
           made == two \o backend
           body == made \o sees
           cs == body \o <<returns(state)>>
           F == {"agent", "credential"}
<1>1. key \in Keys
  BY FreshIDs
<1> HIDE DEF key
<1>2. \A r \in {state, unset, unread} : Proper(r) /\ KeysOf(r) = {key} /\ r.agent \in {None, 2} /\ r.credential = credential
  BY <1>1, NewModels
<1>3. /\ a.op = "add_named" /\ a.key = key /\ a.soft = <<>>
      /\ a.val = [name |-> w.name, config |-> w.config, constraints |-> None, annotations |-> None,
                  backend |-> "auto", agent |-> 2, credential |-> credentialOf(w)]
      /\ b.op = "set" /\ b.soft = <<>> /\ b.val = [constraints |-> w.constraints]
      /\ n.op = "set" /\ n.soft = <<>> /\ n.val = [annotations |-> w.annotations]
      /\ returns(state).val = state /\ returns(state).soft = <<>>
  BY Singles DEF AddModel, SetModelConstraints, SetAnnotations
<1>4. /\ d.op = "set" /\ d.key = key /\ d.soft = <<unset>>
      /\ d.val = [backend |-> IF w.backend = None THEN "auto" ELSE w.backend]
      /\ e.op = "see" /\ e.soft = <<unread>>
  BY DEF SetModelSecretBackend, soft, set, see, Call
<1>5. SoundCall(a) /\ SoundCall(b) /\ SoundCall(n)
  <2>1. w.name = "a"
    BY DEF Configs, ModelConfigs
  <2> QED BY <1>3, <2>1, SoundMaking, SoundSetting DEF Making, Whole, OneName, FieldsOf, NoneIsNoValue
<1>6. SoundCall(d)
  <2>1. w.backend \in {None, "b"}
    BY DEF Configs, ModelConfigs
  <2> QED BY <1>2, <1>4, <2>1 DEF SoundCall, KeepsWhole, ProperCall, Making, Removing, OneName, NoneIsNoValue
<1>7. SoundCall(e)
  BY <1>2, <1>4 DEF SoundCall, KeepsWhole, ProperCall, Making, Removing, Setting
<1>8. /\ limits = <<>> \/ limits = <<b>>
      /\ notes = <<>> \/ notes = <<n>>
      /\ backend = <<>> \/ backend = <<d>>
  BY DEF updateAnnotations
<1>9. Create(w) = made \o <<e, returns(state)>>
  BY DEF Create, ModelCreate, CreateModel, key, Modelled, Unset, Unread
<1>10. /\ F \cap DOMAIN b.val = {} /\ F \cap DOMAIN n.val = {} /\ "agent" \notin DOMAIN d.val /\ "credential" \notin DOMAIN d.val
       /\ F \subseteq DOMAIN a.val /\ a.val["agent"] = 2 /\ a.val["credential"] = credential
  BY <1>3, <1>4
<1> HIDE DEF a, b, n, d, e, limits, notes, backend, state, unset, unread, credential
<1>11. Sparing(limits, F) /\ Sparing(notes, F)
  BY <1>3, <1>5, <1>8, <1>10, SparingTogether
<1>12. /\ SoundCalls(adds) /\ ToSet(adds) = {a}
       /\ Sure(adds, key, "agent", 2, "exactly") /\ Sure(adds, key, "credential", credential, "exactly")
  <2>1. Gives(a, key, "agent", 2, "exactly") /\ Gives(a, key, "credential", credential, "exactly")
    BY <1>3, <1>10 DEF Gives, Setting, Making, Ok, F
  <2>2. Spares(a, key, "agent", 2, "exactly") /\ Spares(a, key, "credential", credential, "exactly")
    BY <1>3, <1>10 DEF Spares, Renaming, Ok, F
  <2> QED BY <1>5, <2>1, <2>2, SoundTuples, SetsOfTuples, SureTuples
<1>13. /\ SoundCalls(backend) /\ ToSet(backend) \subseteq {d}
       /\ \A k, v : Still(backend, k, "agent", v, "exactly") /\ Still(backend, k, "credential", v, "exactly")
  <2>1. \A k, v : Spares(d, k, "agent", v, "exactly") /\ Spares(d, k, "credential", v, "exactly")
    BY <1>4, <1>10, SettingCalls DEF Setting
  <2>2. CASE backend = <<>>
    BY <2>2, SoundTuples, SetsOfTuples, SureTuples
  <2>3. CASE backend = <<d>>
    BY <1>6, <2>1, <2>3, SoundTuples, SetsOfTuples, SureTuples
  <2> QED BY <1>8, <2>2, <2>3
<1>14. /\ SoundCalls(sees) /\ ToSet(sees) = {e}
       /\ \A k, v : Still(sees, k, "agent", v, "exactly") /\ Still(sees, k, "credential", v, "exactly")
  <2>1. \A k, v : Spares(e, k, "agent", v, "exactly") /\ Spares(e, k, "credential", v, "exactly")
    BY <1>4 DEF Spares, Setting, Making, Renaming
  <2> QED BY <1>7, <2>1, SoundTuples, SetsOfTuples, SureTuples
<1>15. /\ SoundCalls(limits) /\ SoundCalls(notes)
       /\ \A f \in ToSet(limits) \cup ToSet(notes) : f.op # "returns" /\ f.soft = <<>>
       /\ \A k, v : /\ Still(limits, k, "agent", v, "exactly") /\ Still(limits, k, "credential", v, "exactly")
                    /\ Still(notes, k, "agent", v, "exactly") /\ Still(notes, k, "credential", v, "exactly")
  BY <1>11 DEF Sparing, F
<1> HIDE DEF adds, sees
<1>16. /\ SoundCalls(one) /\ ToSet(one) = ToSet(adds) \cup ToSet(limits)
       /\ Sure(one, key, "agent", 2, "exactly") /\ Sure(one, key, "credential", credential, "exactly")
  BY <1>12, <1>15, SoundTogether
<1> HIDE DEF one
<1>17. /\ SoundCalls(two) /\ ToSet(two) = ToSet(one) \cup ToSet(notes)
       /\ Sure(two, key, "agent", 2, "exactly") /\ Sure(two, key, "credential", credential, "exactly")
  BY <1>15, <1>16, SoundTogether
<1> HIDE DEF two
<1>18. /\ SoundCalls(made) /\ ToSet(made) = ToSet(two) \cup ToSet(backend)
       /\ Sure(made, key, "agent", 2, "exactly") /\ Sure(made, key, "credential", credential, "exactly")
  BY <1>13, <1>17, SoundTogether
<1>19. Create(w) = (made \o <<e>>) \o <<returns(state)>>
  BY <1>9, <1>18, SoundLastTwo
<1> HIDE DEF made
<1>20. /\ SoundCalls(body) /\ ToSet(body) = ToSet(made) \cup ToSet(sees)
       /\ Sure(body, key, "agent", 2, "exactly") /\ Sure(body, key, "credential", credential, "exactly")
  BY <1>14, <1>18, SoundTogether
<1> HIDE DEF body
<1>21. /\ ToSet(cs) = ToSet(body) \cup {returns(state)}
       /\ Sure(cs, key, "agent", 2, "exactly") /\ Sure(cs, key, "credential", credential, "exactly")
  BY <1>2, <1>20, Handler
<1> HIDE DEF cs
<1>22. \A f \in ToSet(cs) : (f.op = "returns" => f.val = state) /\ (f.soft # <<>> => f.soft \in {<<unset>>, <<unread>>})
  BY <1>3, <1>4, <1>12, <1>13, <1>14, <1>15, <1>16, <1>17, <1>18, <1>20, <1>21
<1>23. Results(cs) \subseteq {state, unset, unread}
  <2>1. <<unset>>[1] = unset /\ <<unread>>[1] = unread
    OBVIOUS
  <2> QED BY <1>22, <2>1 DEF Results
<1>24. Besides = {"agent", "credential"} /\ \A r : Formed(r)
  BY DEF Besides, Formed
<1>25. ASSUME NEW r \in {state, unset, unread} PROVE Fit(r, cs, there)
  <2>1. KeysOf(r) = {key} /\ r.agent \in {None, 2} /\ r.credential = credential
    BY <1>2
  <2>2. Suits("agent", 2, r) /\ Suits("credential", credential, r)
    BY <2>1 DEF Suits
  <2>3. Comes(cs, there, key, "agent", 2, "exactly") /\ Comes(cs, there, key, "credential", credential, "exactly")
    BY <1>21 DEF Comes
  <2> QED BY <1>24, <2>1, <2>2, <2>3 DEF Fit
<1>26. Fitted(cs, there)
  BY <1>23, <1>25 DEF Fitted
<1>27. Create(w) = cs
  BY <1>19 DEF cs, body, sees
<1> QED BY <1>26, <1>27

\* What is read of the bindings tells the spaces of an application.
LEMMA BindingsRead ==
  ASSUME NoneIsNoBindings, NEW app
  PROVE  LET b == ReadBindings(app) IN
         /\ b = None => app.default = modelDefault /\ app.db = modelDefault /\ ("new" \in EndpointsOf(app.revision) => app.new = modelDefault)
         /\ b # None => /\ Spot("default", b) = app.default /\ Spot("db", b) = app.db
                        /\ DOMAIN b # {} /\ (app.db # app.default => "db" \in DOMAIN b)
<1> DEFINE spaces == EndpointBindings(app)
           special == {e \in DOMAIN spaces : spaces[e] # IF e = others THEN modelDefault ELSE spaces[others]}
           f == [e \in special |-> spaces[e]]
           b == ReadBindings(app)
<1>1. b = IF special = {} THEN None ELSE f
  BY DEF ReadBindings
<1>2. /\ DOMAIN spaces = EndpointsOf(app.revision) \cup {others}
      /\ "db" \in DOMAIN spaces /\ others \in DOMAIN spaces /\ DOMAIN spaces \subseteq {"db", "new", others}
      /\ spaces[others] = app.default /\ spaces["db"] = app.db
      /\ "new" \in DOMAIN spaces => spaces["new"] = app.new
      /\ "db" # others /\ "new" # others
  BY DEF EndpointBindings, EndpointsOf, FieldOf, others
<1> HIDE DEF spaces
<1>3. /\ others \in special <=> app.default # modelDefault
      /\ "db" \in special <=> app.db # app.default
      /\ "new" \in DOMAIN spaces => ("new" \in special <=> app.new # app.default)
      /\ special \subseteq {"db", "new", others}
  BY <1>2
<1>4. DOMAIN f = special /\ \A e \in special : f[e] = spaces[e]
  OBVIOUS
<1> HIDE DEF f, special
<1>5. special # {} => f # None
  BY <1>3, <1>4 DEF NoneIsNoBindings
<1>6. CASE special = {}
  <2>1. b = None
    BY <1>1, <1>6
  <2>2. app.default = modelDefault /\ app.db = modelDefault /\ ("new" \in EndpointsOf(app.revision) => app.new = modelDefault)
    BY <1>2, <1>3, <1>6
  <2> QED BY <2>1, <2>2
<1>7. CASE special # {}
  <2>1. b = f /\ b # None
    BY <1>1, <1>5, <1>7
  <2>2. Spot("default", f) = app.default
    BY <1>2, <1>3, <1>4, <1>5, <1>7 DEF Spot, DefaultOf, BoundIn
  <2>3. Spot("db", f) = app.db
    BY <1>2, <1>3, <1>4, <1>5, <1>7, <2>2 DEF Spot, BoundIn
  <2> HIDE DEF b
  <2>4. DOMAIN b # {} /\ (app.db # app.default => "db" \in DOMAIN b)
    BY <1>3, <1>4, <1>7, <2>1
  <2> QED BY <2>1, <2>2, <2>3, <2>4 DEF b
<1> QED BY <1>6, <1>7

\* The call that binds, when there is one, leaves the spaces that go with the
\* configuration; when there is none, they are so.
Spots(app, w) == app.default = Spot("default", w.bindings) /\ app.db = Spot("db", w.bindings)
LEMMA BindsSpots ==
  ASSUME kind = "application", NoneIsNoValue, NoneIsNoBindings, NEW w \in Configs, NEW s, NEW app,
         Perceived(s, app), Holds(s, w, app)
  PROVE  LET d == UpdateBindings(s, w, app) IN
         \/ d = <<>> /\ Spots(app, w)
         \/ d = <<fails>>
         \/ \E c : /\ d = <<c>> /\ c.op = "set" /\ c.key = w.name
                   /\ {"default", "db"} \subseteq DOMAIN c.val /\ Spots(c.val, w)
<1> DEFINE current == EndpointBindings(app)
           input   == computeEndpointBindingsDeltas(s.bindings, w.bindings)
           updated == computeUpdatedBindings(current, input)
           kept    == DOMAIN current \ ({"new"} \ EndpointsOf(w.revision))
           fields  == {FieldOf(e) : e \in kept}
           val == [f \in fields |-> updated[EndpointOf(f)]]
           c == set(w.name, val)
           d == UpdateBindings(s, w, app)
           default == IF BoundIn(input, others, unbound) = unbound THEN modelDefault ELSE input[others]
           b == ReadBindings(app)
<1>1. d = IF s.bindings = w.bindings \/ input = <<>> THEN <<>> ELSE IF ~(DOMAIN input \subseteq DOMAIN current) THEN <<fails>> ELSE <<c>>
  BY DEF UpdateBindings
<1>2. c.op = "set" /\ c.key = w.name /\ c.val = val
  BY Singles
<1>3. /\ "db" \in DOMAIN current /\ others \in DOMAIN current /\ "db" # others
      /\ current[others] = app.default /\ current["db"] = app.db
  BY DEF EndpointBindings, EndpointsOf, FieldOf, others
<1>4. /\ w.bindings # None => \A e \in DOMAIN w.bindings : e \in DOMAIN input /\ input[e] = "s1" /\ w.bindings[e] = "s1"
      /\ \A e \in DOMAIN input : w.bindings = None \/ e \notin DOMAIN w.bindings => input[e] = unbound
      /\ s.bindings # None => DOMAIN s.bindings \subseteq DOMAIN input
  BY AppShape DEF computeEndpointBindingsDeltas, BoundIn
<1>5. \A e \in DOMAIN current : updated[e] = (IF e \in DOMAIN input THEN IF input[e] = unbound THEN default ELSE input[e]
                                              ELSE IF current[e] = current[others] THEN default ELSE current[e])
  BY DEF computeUpdatedBindings
<1>6. "s1" # unbound /\ "s1" # modelDefault
  BY DEF unbound, modelDefault
<1>7. /\ {"default", "db"} \subseteq DOMAIN val /\ val["default"] = updated[others] /\ val["db"] = updated["db"]
  <2>1. {"db", others} \subseteq kept
    BY <1>3 DEF others
  <2>2. FieldOf("db") = "db" /\ FieldOf(others) = "default" /\ EndpointOf("db") = "db" /\ EndpointOf("default") = others
    BY DEF FieldOf, EndpointOf, others
  <2> HIDE DEF kept
  <2>3. "default" \in fields /\ "db" \in fields
    BY <2>1, <2>2
  <2> HIDE DEF fields, updated
  <2> QED BY <2>2, <2>3
<1>8. /\ b = None => app.default = modelDefault /\ app.db = modelDefault
      /\ b # None => /\ Spot("default", b) = app.default /\ Spot("db", b) = app.db
                     /\ DOMAIN b # {} /\ (app.db # app.default => "db" \in DOMAIN b)
  BY BindingsRead
<1>9. b = None \/ s.bindings = b
  <2>1. Perceived(s, app) <=> (ReadBindings(app) = None \/ s.bindings = ReadBindings(app))
    BY DEF Perceived
  <2> QED BY <2>1
<1> HIDE DEF b, input, updated, current, val, c, d
<1>10. default = DefaultOf(w.bindings)
  BY <1>4, <1>6 DEF DefaultOf, BoundIn, NoneIsNoBindings
<1> HIDE DEF default
<1>11. CASE s.bindings = w.bindings
  <2>1. CASE b # None
    <3>1. w.bindings = b
      BY <1>9, <1>11, <2>1
    <3> QED BY <1>1, <1>8, <1>11, <2>1, <3>1 DEF Spots, d
  <2>2. CASE b = None
    <3>1. app.default = modelDefault /\ app.db = modelDefault
      BY <1>8, <2>2
    <3>2. Allows("default", w.bindings, app.default) /\ Allows("db", w.bindings, app.db)
      <4>1. In("default") = "bindings" /\ In("db") = "bindings" /\ "default" \in HiddenFields /\ "db" \in HiddenFields
        BY AppShape
      <4>2. s["bindings"] = w["bindings"]
        BY <1>11
      <4> QED BY <4>1, <4>2 DEF Holds
    <3>3. ~Bound(w, "default") /\ ~Bound(w, "db")
      <4>1. /\ Bound(w, "default") => app.default = w.bindings[EndpointOf("default")]
            /\ Bound(w, "db") => app.db = w.bindings[EndpointOf("db")]
        BY <3>2, AppAllows
      <4> QED BY <1>4, <1>6, <3>1, <4>1 DEF Bound
    <3>4. Spot("default", w.bindings) = modelDefault /\ Spot("db", w.bindings) = modelDefault
      BY <3>3 DEF Spot, DefaultOf, BoundIn, Bound, EndpointOf
    <3> QED BY <1>1, <1>11, <3>1, <3>4 DEF Spots, d
  <2> QED BY <2>1, <2>2
<1>12. CASE s.bindings # w.bindings /\ input = <<>>
  <2>1. DOMAIN input = {}
    BY <1>12, SetsOfTuples
  <2>2. Spot("default", w.bindings) = modelDefault /\ Spot("db", w.bindings) = modelDefault
    BY <1>4, <2>1 DEF Spot, DefaultOf, BoundIn
  <2>3. b = None
    BY <1>4, <1>8, <1>9, <2>1
  <2> QED BY <1>1, <1>8, <1>12, <2>2, <2>3 DEF Spots, d
<1>13. CASE s.bindings # w.bindings /\ input # <<>> /\ ~(DOMAIN input \subseteq DOMAIN current)
  BY <1>1, <1>13 DEF d
<1>14. CASE s.bindings # w.bindings /\ input # <<>> /\ DOMAIN input \subseteq DOMAIN current
  <2>1. d = <<c>>
    BY <1>1, <1>14
  <2>2. updated[others] = Spot("default", w.bindings)
    BY <1>3, <1>4, <1>5, <1>6, <1>10 DEF Spot, DefaultOf, BoundIn
  <2>3. updated["db"] = Spot("db", w.bindings)
    <3>1. CASE "db" \in DOMAIN input
      BY <1>3, <1>4, <1>5, <1>6, <1>10, <3>1 DEF Spot, BoundIn
    <3>2. CASE "db" \notin DOMAIN input
      <4>1. app.db = app.default
        BY <1>4, <1>8, <1>9, <3>2
      <4>2. updated["db"] = default
        BY <1>3, <1>5, <3>2, <4>1
      <4> QED BY <1>4, <1>10, <3>2, <4>2 DEF Spot, BoundIn
    <3> QED BY <3>1, <3>2
  <2>4. {"default", "db"} \subseteq DOMAIN c.val /\ Spots(c.val, w)
    BY <1>2, <1>7, <2>2, <2>3 DEF Spots
  <2> QED BY <1>2, <2>1, <2>4 DEF d
<1> QED BY <1>11, <1>12, <1>13, <1>14

LEMMA ApplicationCreateFits ==
  ASSUME NoneIsNoValue, kind = "application", NEW w \in Configs
  PROVE  Fitted(Create(w), there)
<1> DEFINE default == BoundIn(w.bindings, others, modelDefault)
           c == CreateApplication(w)
           d == see(w.name, [name |-> w.name])
           state == StateOf(w.name, w)
           body == <<c, d>>
<1>1. kind \in ByName /\ "bindings" \in DOMAIN w
  BY DEF Configs, AppConfigs, ByName, AllKinds
<1>2. Proper(state) /\ KeysOf(state) = {w.name} /\ state.bindings = w.bindings
  BY <1>1, ProperNamed
<1>3. /\ c.op = "add" /\ c.key = w.name /\ c.soft = <<>> /\ d.op = "see" /\ d.soft = <<>>
      /\ {"default", "db"} \subseteq DOMAIN c.val /\ Spots(c.val, w)
  BY Singles DEF CreateApplication, Spots, Spot, DefaultOf
<1>4. Create(w) = <<c, d, returns(state)>>
  BY DEF Create, AppCreate
<1>5. SoundCalls(Create(w)) /\ ToSet(<<c, d>>) = {c, d} /\ <<c, d, returns(state)>> = body \o <<returns(state)>>
  BY ApplicationCreates, SetsOfTuples, Tuples DEF Creates
<1>6. SoundCall(c)
  <2>1. /\ w \in AppConfigs /\ w.bindings # None => DOMAIN w.bindings \subseteq {"db", others, "new"}
                              /\ ("new" \in DOMAIN w.bindings => w.revision = 2)
    BY DEF Configs, AppConfigs
  <2>2. default # None /\ BoundIn(w.bindings, "new", default) # None
    BY DEF Configs, AppConfigs, BoundIn, NoneIsNoValue, modelDefault, others
  <2>3. /\ c.val = [name |-> w.name, revision |-> w.revision, config |-> w.config,
                    resource |-> IF w.resource = None THEN 0 ELSE w.resource,
                    default |-> default, db |-> BoundIn(w.bindings, "db", default),
                    new |-> IF w.revision = 2 THEN BoundIn(w.bindings, "new", default) ELSE None]
    BY Singles DEF CreateApplication
  <2>4. AppWhole(c.val) /\ Whole(c.val)
    BY <2>2, <2>3 DEF AppWhole, Whole, OneName, FieldsOf
  <2> QED BY <1>3, <2>4, SoundMaking DEF Making
<1> HIDE DEF c, d, state
<1>7. SoundCall(d) /\ \A k, x, v, how : Spares(d, k, x, v, how)
  BY <1>3, IdleCalls DEF Idle
<1>8. SoundCalls(body)
  BY <1>6, <1>7, SoundTuples
<1>9. ASSUME NEW x \in {"default", "db"} PROVE Sure(body, w.name, x, Spot(x, w.bindings), "exactly")
  <2>1. x \in DOMAIN c.val /\ c.val[x] = Spot(x, w.bindings)
    BY <1>3 DEF Spots
  <2>2. c.op \in Setting /\ Ok(x, c.val[x], Spot(x, w.bindings), "exactly")
    BY <1>3, <2>1 DEF Setting, Making, Ok
  <2>3. Gives(c, c.key, x, Spot(x, w.bindings), "exactly")
    BY <2>1, <2>2, SettingCalls
  <2> QED BY <1>3, <1>7, <2>3, SureTuples
<1>10. \A f \in ToSet(body) : f.op # "returns" /\ f.soft = <<>>
  BY <1>3, <1>5
<1> HIDE DEF body
<1>11. Besides = {"default", "db"} /\ Formed(state)
  BY DEF Besides, Formed
<1>12. \A x, y : Suits(x, y, state) <=> y = Spot(x, w.bindings)
  BY <1>2 DEF Suits
<1>13. \A k \in KeysOf(state) : \A x \in Besides : \E y : Suits(x, y, state) /\ Lands(body, there, k, x, y, "exactly")
  BY <1>2, <1>9, <1>11, <1>12 DEF Lands
<1> QED BY <1>2, <1>4, <1>5, <1>8, <1>10, <1>11, <1>13, HandlerFits

LEMMA ApplicationUpdateFits ==
  ASSUME kind = "application", pc # "create", NoneIsNoValue, NoneIsNoBindings, "unseen" \notin touched,
         NEW w \in Configs, NEW s, IsState(s), Proper(s), ~Replaced(s, w), NewKnown(s), Seeing(s), Holding(s, w),
         \A k \in KeysOf(s) : there[k] # None => Perceived(s, there[k])
  PROVE  LET cs == Update(s, Plan(s, w)) IN AtWork(cs) => Fitted(cs, there)
<1> DEFINE key == w.name
           app == there[key]
           a == UpdateCharmAndResources(s, w, app)
           b == UpdateConfigOf(s, w)
           d == UpdateBindings(s, w, app)
           both == a \o b
           update == both \o d
           state == StateOf(s.id, w)
           e == see(key, [name |-> key])
           sees == <<e>>
           body == update \o sees
           cs == Update(s, Plan(s, w))
           ends == body \o <<returns(state)>>
<1>1. Plan(s, w) = w /\ kind \in ByName /\ s.name = w.name
  BY DEF Plan, ByName, AllKinds, Replaced, AppReplaced
<1>2. KeysOf(s) = {key} /\ Proper(state) /\ KeysOf(state) = {key} /\ state.bindings = w.bindings
  <2>1. "bindings" \in DOMAIN w
    BY DEF Configs, AppConfigs
  <2> QED BY <1>1, <2>1, StaysNamed
<1>3. app # None /\ AppWhole(app) /\ Perceived(s, app) /\ Holds(s, w, app)
  BY <1>2 DEF Seeing, NewKnown, Holding
<1>4. UpdateApplication(s, w, app) = update
  BY <1>3 DEF UpdateApplication
<1>5. cs = IF update # <<>> /\ update[Len(update)] = fails THEN update ELSE update \o <<e, returns(state)>>
  BY <1>1, <1>4 DEF Update, AppUpdate
<1>6. /\ SoundCalls(update)
      /\ \A f \in ToSet(update) : f.op # "returns"
      /\ IF fails \in ToSet(update) THEN update # <<>> /\ update[Len(update)] = fails
         ELSE ~(update # <<>> /\ update[Len(update)] = fails)
  <2> DEFINE u == UpdateApplication(s, w, app)
  <2>0. app # None /\ ("unseen" \in touched \/ AppWhole(app))
    BY <1>3
  <2> HIDE DEF app
  <2>1. /\ SoundCalls(u)
        /\ \A f \in ToSet(u) : \/ Recharms(f, s, w, app)
                               \/ s.config # w.config /\ (f.op = "check" \/ Sets(f, w))
                               \/ Rebinds(f, s, w, app)
                               \/ f = fails
        /\ IF fails \in ToSet(u) THEN u # <<>> /\ u[Len(u)] = fails
           ELSE ~(u # <<>> /\ u[Len(u)] = fails)
    BY <2>0, AppUpdateCalls
  <2> HIDE DEF u
  <2>2. \A f \in ToSet(u) : f.op # "returns"
    BY <2>1, Singles DEF Recharms, Sets, Rebinds
  <2>3. u = update
    BY <1>4 DEF u
  <2> HIDE DEF update
  <2> QED BY <2>1, <2>2, <2>3
<1>7. /\ SoundCalls(a) /\ \A x \in {"default", "db"} : \A v : Still(a, key, x, v, "exactly")
      /\ SoundCalls(b) /\ \A x \in {"default", "db"} : \A v : Still(b, key, x, v, "exactly")
      /\ SoundCalls(d)
  <2>1. SoundCalls(a) /\ \A x, v, how : x \notin {"resource", "revision", "config", "new"} => Still(a, key, x, v, how)
    BY <1>3, AppCharms
  <2>2. SoundCalls(b) /\ \A x, v, how : x # "config" => Still(b, key, x, v, how)
    BY AppOptions
  <2>3. SoundCalls(d)
    BY <1>3, AppBindings
  <2> HIDE DEF a, b, d
  <2> QED BY <2>1, <2>2, <2>3
<1>8. \/ d = <<>> /\ Spots(app, w)
      \/ d = <<fails>>
      \/ \E c : /\ d = <<c>> /\ c.op = "set" /\ c.key = w.name
                /\ {"default", "db"} \subseteq DOMAIN c.val /\ Spots(c.val, w)
  BY <1>3, BindsSpots
<1>9. e.op = "see" /\ e.soft = <<>> /\ SoundCall(e) /\ \A k, x, v, how : Spares(e, k, x, v, how)
  BY Singles, IdleCalls DEF Idle
<1> HIDE DEF a, b, d, e, state, cs
<1>10. SoundCalls(both) /\ \A x \in {"default", "db"} : \A v : Still(both, key, x, v, "exactly")
  BY <1>7, SoundTogether
<1> HIDE DEF both
<1>11. ToSet(update) = ToSet(both) \cup ToSet(d)
  BY <1>7, <1>10, SoundTogether
<1>12. SoundCalls(sees) /\ ToSet(sees) = {e} /\ \A k, x, v, how : Still(sees, k, x, v, how)
  BY <1>9, SoundTuples, SetsOfTuples, SureTuples
<1>13. ASSUME fails \in ToSet(update) PROVE ~AtWork(cs)
  <2>1. cs = update
    BY <1>5, <1>6, <1>13
  <2> QED BY <1>13, <2>1, Singles DEF AtWork, Good
<1>14. ASSUME fails \notin ToSet(update), NEW x \in {"default", "db"}
       PROVE  Lands(update, there, key, x, Spot(x, w.bindings), "exactly")
  <2> DEFINE v == Spot(x, w.bindings)
  <2> HIDE DEF v
  <2>1. Still(both, key, x, v, "exactly")
    BY <1>10
  <2>2. CASE d = <<>> /\ Spots(app, w)
    <3>1. app[x] = v
      BY <2>2 DEF Spots, v
    <3>2. Still(d, key, x, v, "exactly")
      BY <2>2, SureTuples
    <3>3. Still(update, key, x, v, "exactly")
      BY <1>7, <1>10, <2>1, <3>2, SoundTogether
    <3>4. Is(there, key, x, v, "exactly")
      BY <3>1 DEF Is, Ok
    <3> QED BY <3>3, <3>4 DEF Lands, v
  <2>3. CASE d = <<fails>>
    BY <1>11, <1>14, <2>3, SetsOfTuples
  <2>4. CASE \E c : /\ d = <<c>> /\ c.op = "set" /\ c.key = w.name
                    /\ {"default", "db"} \subseteq DOMAIN c.val /\ Spots(c.val, w)
    <3>1. PICK c : /\ d = <<c>> /\ c.op = "set" /\ c.key = w.name
                   /\ {"default", "db"} \subseteq DOMAIN c.val /\ Spots(c.val, w)
      BY <2>4
    <3>2. x \in DOMAIN c.val /\ c.val[x] = v
      BY <3>1 DEF Spots, v
    <3>3. c.op \in Setting /\ Ok(x, c.val[x], v, "exactly")
      BY <3>1, <3>2 DEF Setting, Ok
    <3>4. Gives(c, c.key, x, v, "exactly")
      BY <3>2, <3>3, SettingCalls
    <3>5. Sure(d, key, x, v, "exactly")
      BY <3>1, <3>4, SureTuples
    <3>6. Sure(update, key, x, v, "exactly")
      BY <1>7, <1>10, <3>5, SoundTogether
    <3> QED BY <3>6 DEF Lands, v
  <2> QED BY <1>8, <2>2, <2>3, <2>4
<1> HIDE DEF update
<1>15. ASSUME fails \notin ToSet(update) PROVE Fitted(cs, there)
  <2>1. cs = update \o <<e, returns(state)>>
    BY <1>5, <1>6, <1>15
  <2>2. cs = ends
    BY <1>6, <2>1, SoundLastTwo
  <2>3. /\ SoundCalls(body) /\ ToSet(body) = ToSet(update) \cup ToSet(sees)
        /\ \A x, v : Lands(update, there, key, x, v, "exactly") => Lands(body, there, key, x, v, "exactly")
    BY <1>6, <1>12, SoundTogether DEF Lands
  <2>4. \A f \in ToSet(body) : f.op # "returns" /\ f.soft = <<>>
    <3>1. \A f \in ToSet(body) : f.soft = <<>>
      BY <2>3 DEF SoundCalls, SoundCall
    <3> QED BY <1>6, <1>9, <1>12, <2>3, <3>1
  <2> HIDE DEF body
  <2>5. Besides = {"default", "db"} /\ Formed(state)
    BY DEF Besides, Formed
  <2>6. \A x, y : Suits(x, y, state) <=> y = Spot(x, w.bindings)
    BY <1>2 DEF Suits
  <2>7. \A k \in KeysOf(state) : \A x \in Besides : \E y : Suits(x, y, state) /\ Lands(body, there, k, x, y, "exactly")
    BY <1>2, <1>14, <1>15, <2>3, <2>5, <2>6
  <2>8. Fitted(body \o <<returns(state)>>, there)
    BY <1>2, <2>3, <2>4, <2>5, <2>7, HandlerFits
  <2> QED BY <2>2, <2>8
<1>16. AtWork(cs) => Fitted(cs, there)
  BY <1>13, <1>15
<1> QED BY <1>16 DEF cs

-----------------------------------------------------------------------------
(* Whatever is begun fits.                                                 *)

LEMMA OthersFit ==
  ASSUME kind \in AllKinds \ {"kubernetes_cloud", "model", "application", "credential", "machine", "jaas_controller"},
         NEW cs, SoundCalls(cs)
  PROVE  Fitted(cs, there)
<1>1. kind # "model" /\ kind # "kubernetes_cloud" /\ kind # "application"
      /\ kind # "credential" /\ kind # "machine" /\ kind # "jaas_controller"
  OBVIOUS
<1>2. Besides = {} /\ \A s : Formed(s)
  BY <1>1 DEF Besides, Formed
<1>3. \A c \in ToSet(cs) : c.soft = <<>>
  BY <1>1 DEF SoundCalls, SoundCall
<1> QED BY <1>2, <1>3, FormedFits

LEMMA CreatesFit ==
  ASSUME NoneIsNoValue, kind \in AllKinds, NEW w \in Configs, w = wanted, Creates(w)
  PROVE  AtWork(Create(w)) => Fitted(Create(w), there)
<1>1. CASE kind = "credential"
  <2> DEFINE id == newCredentialID(w)
             end == CreateCredential(w) \o <<returns(StateOf(id, w))>>
  <2>1. Create(w) = end
    BY <1>1 DEF Create, CredentialCreate
  <2>2. AtWork(end) => Fitted(end, there)
    BY <1>1, CredentialFits
  <2> HIDE DEF end
  <2> QED BY <2>1, <2>2
<1>2. CASE kind = "kubernetes_cloud"
  BY <1>2, KubernetesCloudCreateFits
<1>3. CASE kind = "model"
  BY <1>3, ModelCreateFits
<1>4. CASE kind = "application"
  BY <1>4, ApplicationCreateFits
<1>5. CASE kind = "machine"
  BY <1>5, MachineCreateFits
<1>6. CASE kind = "jaas_controller"
  BY <1>6, JAASControllerFits
<1>7. CASE kind \notin {"kubernetes_cloud", "model", "application", "credential", "machine", "jaas_controller"}
  <2>1. SoundCalls(Create(w))
    BY DEF Creates
  <2> QED BY <1>7, <2>1, OthersFit
<1> QED BY <1>1, <1>2, <1>3, <1>4, <1>5, <1>6, <1>7

LEMMA UpdatesFit ==
  ASSUME NoneIsNoValue, NoneIsNoBindings, kind \in AllKinds, pc # "create", "unseen" \notin touched,
         NEW w \in Configs, w = wanted, NEW s, s # None, IsState(s), Proper(s), ~Replaced(s, Plan(s, w)),
         Updates(s, w), NewKnown(s), Seeing(s), kind \in Hiding => Holding(s, w),
         \A k \in KeysOf(s) : there[k] # None => Perceived(s, there[k])
  PROVE  AtWork(Update(s, Plan(s, w))) => Fitted(Update(s, Plan(s, w)), there)
<1>1. kind \notin {"model", "ssh_key"} => Plan(s, w) = w
  BY DEF Plan
<1>2. CASE kind = "credential"
  <2> DEFINE id == newCredentialID(w)
             end == CreateCredential(w) \o <<returns(StateOf(id, w))>>
  <2>1. Update(s, w) = end
    BY <1>2, CredentialCalls DEF Update, CredentialUpdate
  <2>2. AtWork(end) => Fitted(end, there)
    BY <1>2, CredentialFits
  <2> HIDE DEF end
  <2> QED BY <1>1, <1>2, <2>1, <2>2
<1>3. CASE kind = "kubernetes_cloud"
  <2>1. ~Replaced(s, w)
    BY <1>1, <1>3
  <2> QED BY <1>3, <2>1, KubernetesCloudUpdateFits
<1>4. CASE kind = "model"
  BY <1>4, ModelUpdateFits
<1>5. CASE kind = "application"
  <2>1. ~Replaced(s, w) /\ Holding(s, w)
    BY <1>1, <1>5 DEF Hiding
  <2> QED BY <1>5, <2>1, ApplicationUpdateFits
<1>6. CASE kind = "machine"
  BY <1>6, MachineUpdateFits
<1>7. CASE kind = "jaas_controller"
  BY <1>7, JAASControllerFits
<1>8. CASE kind \notin {"kubernetes_cloud", "model", "application", "credential", "machine", "jaas_controller"}
  <2>1. SoundCalls(Update(s, Plan(s, w)))
    BY DEF Updates
  <2> QED BY <1>8, <2>1, OthersFit
<1> QED BY <1>2, <1>3, <1>4, <1>5, <1>6, <1>7, <1>8

LEMMA FittedBegins ==
  ASSUME NoneIsNoValue, NoneIsNoBindings, Grounded, PerceivedInv, Begin
  PROVE  FittedInv'
<1> USE DEF Grounded
<1>1. /\ kind' = kind /\ pc' = pc /\ wanted' = wanted /\ there' = there /\ calls = <<>> /\ tfstate' = tfstate
      /\ kind \in AllKinds
  BY BeginDoes DEF IInv, ControlInv
<1>2. CASE calls' = <<fails>>
  <2>1. ~AtWork(calls')
    BY <1>2, FailsOnly
  <2> QED BY <1>1, <2>1, FittedKept
<1>3. CASE pc = "create" /\ calls' = Create(wanted) /\ Creates(wanted)
  <2>1. wanted \in Configs
    BY <1>3 DEF IInv, ControlInv
  <2>2. AtWork(calls') => Fitted(calls', there')
    BY <1>1, <1>3, <2>1, CreatesFit
  <2> QED BY <1>1, <2>2, FittedKept
<1>4. CASE pc = "update" /\ calls' = Update(tfstate, Plan(tfstate, wanted)) /\ Updates(tfstate, wanted)
  <2>1. touched' = touched /\ (Alone' => Alone /\ "unseen" \notin touched)
    <3>1. touched' = touched
      BY <1>4, BeginDoes
    <3> QED BY <3>1 DEF Alone
  <2> SUFFICES ASSUME Alone, "unseen" \notin touched PROVE AtWork(calls') => Fitted(calls', there')
    BY <1>1, <2>1, FittedKept
  <2>2. /\ tfstate # None /\ Own = KeysOf(tfstate) /\ ~tainted /\ wanted \in Configs /\ wanted # None
        /\ IsState(tfstate) /\ Proper(tfstate) /\ WholeAt(there)
    BY <1>4 DEF IInv, ControlInv, SoundInv, Own, Stated
  <2>3. Seeing(tfstate)
    BY <1>1, <1>4, <2>2 DEF SeenInv, Seeing
  <2>4. kind \in Hiding => Holding(tfstate, wanted)
    <3>1. kind \in Hiding => Sighted
      BY <2>1 DEF Sighted
    <3> QED BY <2>2, <3>1 DEF HiddenInv, HoldingInv, Holding
  <2>5. ~Replaced(tfstate, Plan(tfstate, wanted))
    BY <1>1, <1>4 DEF PlanInv
  <2>6. NewKnown(tfstate)
    BY <1>1, <1>4, <2>2 DEF AppInv, WholeAppInv, NewAppInv, Charmed, NewKnown
  <2>7. \A k \in KeysOf(tfstate) : there[k] # None => Perceived(tfstate, there[k])
    BY <1>1, <1>4, <2>2 DEF PerceivedInv
  <2>8. AtWork(Update(tfstate, Plan(tfstate, wanted))) => Fitted(Update(tfstate, Plan(tfstate, wanted)), there)
    BY <1>1, <1>4, <2>2, <2>3, <2>4, <2>5, <2>6, <2>7, UpdatesFit
  <2> QED BY <1>1, <1>4, <2>8
<1>5. CASE pc = "delete"
  BY <1>1, <1>5, FittedKept
<1> QED BY <1>2, <1>3, <1>4, <1>5, Beginning

-----------------------------------------------------------------------------
(* What Read has found when an Update follows.                             *)

LEMMA PerceivedKept ==
  ASSUME pc' # "update" \/ calls' # <<>> \/ "now" \in touched'
  PROVE  PerceivedInv'
BY DEF PerceivedInv, Alone

LEMMA ReadsPerceive ==
  ASSUME NoneIsNoState, kind \in AllKinds, NEW s, IsState(s), Proper(s), NEW state \in ReadOf(s), state # None,
         NEW k \in KeysOf(s)
  PROVE  Perceived(state, there[k])
<1>1. CASE kind = "kubernetes_cloud"
  <2>1. k = s.name
    BY <1>1, NamedKeys DEF ByName, AllKinds
  <2>2. there[k] # None /\ there[k].credential # None
    BY <1>1, <2>1 DEF ReadOf, KubernetesCloudRead, ReadKubernetesCloud
  <2> QED BY <1>1, <2>2 DEF Perceived
<1>2. CASE kind = "application"
  <2> DEFINE app == there[s.id]
             b == ReadBindings(app)
             config == newConfigFromApplicationAPI(app.config, s.config)
             resource == configureResourceData(s.resource, app)
             bindings == IF b = None THEN s.bindings ELSE b
  <2>1. k = s.id
    BY <1>2, NamedKeys DEF IsState, ByName, AllKinds
  <2>2. /\ app # None
        /\ state = [s EXCEPT !.name = app.name, !.revision = app.revision, !.config = config,
                             !.resource = resource, !.bindings = bindings]
    BY <1>2 DEF ReadOf, AppRead
  <2>3. "bindings" \in DOMAIN s
    BY <1>2 DEF Proper, StateFields
  <2> HIDE DEF config, resource, b
  <2>4. state.bindings = bindings
    BY <2>2, <2>3
  <2>5. b = None \/ state.bindings = b
    BY <2>4
  <2> QED BY <1>2, <2>1, <2>5 DEF Perceived, b
<1>3. CASE kind \notin {"kubernetes_cloud", "application"}
  BY <1>3 DEF Perceived
<1> QED BY <1>1, <1>2, <1>3

LEMMA PerceivedReads ==
  ASSUME NoneIsNoState, NoneIsNoConfig, NoneIsNoValue, IInv, SoundInv, Read
  PROVE  PerceivedInv'
<1>1. CASE pc' # "update"
  BY <1>1, PerceivedKept
<1>2. CASE pc' = "update"
  <2>1. /\ tfstate' # None /\ Stated(tfstate') = KeysOf(tfstate) /\ kind' = kind /\ there' = there
        /\ kind \in AllKinds /\ tfstate # None /\ IsState(tfstate) /\ Proper(tfstate)
    BY <1>2, ReadDoes DEF IInv, ControlInv, SoundInv
  <2>2. tfstate' \in ReadOf(tfstate)
    BY DEF Read, Refreshed
  <2>3. Own' = KeysOf(tfstate)
    BY <2>1, KindKept DEF Own
  <2>4. \A k \in KeysOf(tfstate) : Perceived(tfstate', there[k])
    BY <2>1, <2>2, ReadsPerceive
  <2>5. \A k \in Own' : Perceived(tfstate, there[k])'
    BY <2>1, <2>3, <2>4, FittingKept
  <2> QED BY <2>5 DEF PerceivedInv
<1> QED BY <1>1, <1>2

LEMMA PerceivedOthers ==
  ASSUME IInv, PerceivedInv, UpdateKeeps,
         \/ Begin \/ Step \/ Refused \/ CallFails \/ AnswerLost \/ Returned \/ Deleted \/ ReadFails
         \/ Vanish \/ OutsideChange \/ Import \/ EditConfig \/ Start \/ UNCHANGED vars
  PROVE  PerceivedInv'
<1>1. CASE Begin
  <2>1. pc' = pc
    BY <1>1, BeginDoes
  <2> QED BY <1>1, <2>1, BeginsSome, PerceivedKept
<1>2. CASE Step
  BY <1>2, StepDoes, PerceivedKept
<1>3. CASE Refused \/ CallFails \/ AnswerLost
  <2>1. pc' = "idle" \/ calls' # <<>>
    <3>1. \A v : <<returns(v)>> # <<>>
      BY Singles
    <3> QED BY <1>3, <3>1, FailDoes DEF Gently, Flatly
  <2> QED BY <2>1, PerceivedKept
<1>4. CASE Returned \/ Deleted \/ ReadFails \/ Import \/ EditConfig \/ Start
  <2>1. pc' # "update"
    BY <1>4 DEF Returned, Deleted, Destroyed, ReadFails, Errored, Import, EditConfig, Edit, Start, BeginApply
  <2> QED BY <2>1, PerceivedKept
<1>5. CASE Vanish \/ OutsideChange
  <2>1. pc' = pc /\ (pc = "idle" \/ "now" \in touched')
    BY <1>5, ChangeDoes
  <2> QED BY <2>1, PerceivedKept
<1>6. CASE UNCHANGED vars
  <2>1. kind' = kind /\ tfstate' = tfstate /\ there' = there /\ pc' = pc /\ calls' = calls /\ touched' = touched
    BY <1>6 DEF vars
  <2>2. Own' = Own /\ \A s, obj : Perceived(s, obj)' <=> Perceived(s, obj)
    BY <2>1, KindKept, FittingKept DEF Own
  <2> QED BY <2>1, <2>2 DEF PerceivedInv, Alone
<1> QED BY <1>1, <1>2, <1>3, <1>4, <1>5, <1>6

-----------------------------------------------------------------------------
(* Reading what an apply has left changes nothing.                         *)

\* The state has what is wanted, and the objects have what the state has.
Stable(s) ==
  /\ AgreesWith(s, Plan(s, wanted)) /\ Formed(s)
  /\ \A k \in KeysOf(s) : Has(there[k], Asked(wanted)) /\ \A x \in Besides : Suits(x, there[k][x], s)

LEMMA StableByName ==
  ASSUME kind \in {"user", "kubernetes_cloud", "secret_backend", "offer", "space", "subnet", "storage_pool", "ssh_key"},
         wanted \in Configs, NEW s, IsState(s), Proper(s), Stable(s), ~Unapplied
  PROVE  ReadOf(s) = {s}
<1> DEFINE obj == there[s.name]
<1>1. KeysOf(s) = {s.name} /\ s.id = s.name /\ s = [x \in StateFields |-> s[x]]
  BY NamedKeys DEF IsState, ByName, AllKinds, Proper
<1>2. /\ obj # None /\ \A x \in DOMAIN Asked(wanted) : obj[x] = Asked(wanted)[x]
      /\ \A x \in Besides : Suits(x, obj[x], s)
  BY <1>1 DEF Stable, Has
<1>3. kind # "ssh_key" => \A x \in DOMAIN wanted : s[x] = wanted[x]
  BY DEF Stable, AgreesWith, Plan
<1>4. CASE kind = "user"
  <2>1. DOMAIN wanted = {"name", "display", "password"} /\ StateFields = {"id", "name", "display", "password"}
    BY <1>4 DEF Configs, UserConfigs, StateFields
  <2>2. s.name = wanted.name /\ s.display = wanted.display
    BY <1>3, <1>4, <2>1
  <2>3. obj.display = s.display
    BY <1>4, <2>2 DEF Unapplied
  <2>4. ReadOf(s) = {[s EXCEPT !.name = s.id, !.display = IF @ = None THEN None ELSE obj.display]}
    BY <1>1, <1>2, <1>4 DEF ReadOf, UserRead, ReadUser
  <2> HIDE DEF obj
  <2>5. [s EXCEPT !.name = s.id, !.display = IF @ = None THEN None ELSE obj.display] = s
    BY <1>1, <2>1, <2>3
  <2> QED BY <2>4, <2>5
<1>5. CASE kind = "kubernetes_cloud"
  <2>1. obj.credential # None
    BY <1>2, <1>5 DEF Besides, Suits
  <2> QED BY <1>2, <1>5, <2>1 DEF ReadOf, KubernetesCloudRead, ReadKubernetesCloud
<1>6. CASE kind = "secret_backend"
  <2>1. DOMAIN wanted = {"name", "interval", "version"} /\ StateFields = {"id", "name", "interval", "version"}
        /\ "name" \in DOMAIN Asked(wanted) /\ Asked(wanted).name = wanted.name
    BY <1>6 DEF Configs, SecretBackendConfigs, StateFields, Asked, Only, SetIn, SecretBackendOf
  <2>2. s.name = wanted.name /\ s.interval = wanted.interval /\ obj.name = s.name
    BY <1>2, <1>3, <1>6, <2>1
  <2>3. obj.interval = s.interval
    BY <1>6, <2>2 DEF Unapplied
  <2>4. ReadOf(s) = {[s EXCEPT !.name = obj.name, !.interval = obj.interval]}
    BY <1>1, <1>2, <1>6 DEF ReadOf, SecretBackendRead, GetSecretBackend
  <2> HIDE DEF obj
  <2>5. [s EXCEPT !.name = obj.name, !.interval = obj.interval] = s
    BY <1>1, <2>1, <2>2, <2>3
  <2> QED BY <2>4, <2>5
<1>7. CASE kind = "offer"
  <2>1. DOMAIN wanted = {"name", "endpoints", "force"} /\ StateFields = {"id", "name", "endpoints", "force"}
        /\ Asked(wanted) = [x \in {"name", "endpoints"} |-> wanted[x]]
    BY <1>7 DEF Configs, OfferConfigs, StateFields, Asked, Only
  <2>2. obj.name = s.name /\ obj.endpoints = s.endpoints
    BY <1>2, <1>3, <1>7, <2>1
  <2>3. ReadOf(s) = {[s EXCEPT !.name = obj.name, !.endpoints = obj.endpoints]}
    BY <1>1, <1>2, <1>7 DEF ReadOf, OfferRead, ReadOffer
  <2> HIDE DEF obj
  <2>4. [s EXCEPT !.name = obj.name, !.endpoints = obj.endpoints] = s
    BY <1>1, <2>1, <2>2
  <2> QED BY <2>3, <2>4
<1>8. CASE kind \in {"space", "ssh_key"}
  BY <1>2, <1>8 DEF ReadOf, SpaceRead, ReadSpace, SSHKeyRead, ReadSSHKey
<1>9. CASE kind = "subnet"
  <2>1. DOMAIN wanted = {"name", "space"} /\ StateFields = {"id", "name", "space"} /\ Asked(wanted) = wanted
    BY <1>9 DEF Configs, SubnetConfigs, StateFields, Asked
  <2>2. obj.space = s.space
    BY <1>2, <1>3, <1>9, <2>1
  <2>3. ReadOf(s) = {[s EXCEPT !.name = s.id, !.space = obj.space]}
    BY <1>1, <1>2, <1>9 DEF ReadOf, SubnetRead, ReadSubnet
  <2> HIDE DEF obj
  <2>4. [s EXCEPT !.name = s.id, !.space = obj.space] = s
    BY <1>1, <2>1, <2>2
  <2> QED BY <2>3, <2>4
<1>10. CASE kind = "storage_pool"
  <2>1. DOMAIN wanted = {"name", "provider", "attrs"} /\ StateFields = {"id", "name", "provider", "attrs"}
        /\ Asked(wanted) = wanted
    BY <1>10 DEF Configs, StoragePoolConfigs, StateFields, Asked
  <2>2. obj.name = s.name /\ obj.provider = s.provider /\ obj.attrs = s.attrs
    BY <1>2, <1>3, <1>10, <2>1
  <2>3. ReadOf(s) = {[s EXCEPT !.name = obj.name, !.provider = obj.provider,
                               !.attrs = IF obj.attrs = None THEN @ ELSE obj.attrs]}
    BY <1>1, <1>2, <1>10 DEF ReadOf, StoragePoolRead, GetPool
  <2> HIDE DEF obj
  <2>4. [s EXCEPT !.name = obj.name, !.provider = obj.provider, !.attrs = IF obj.attrs = None THEN @ ELSE obj.attrs] = s
    BY <1>1, <2>1, <2>2
  <2> QED BY <2>3, <2>4
<1> QED BY <1>4, <1>5, <1>6, <1>7, <1>8, <1>9, <1>10

LEMMA StableByID ==
  ASSUME kind \in {"group", "role", "secret", "machine", "controller", "jaas_controller"}, ThereInv,
         wanted \in Configs, NEW s, IsState(s), Proper(s), Stable(s)
  PROVE  ReadOf(s) = {s}
<1>1. s = [x \in StateFields |-> s[x]] /\ KeysOf(s) \subseteq Keys
  BY DEF Proper
<1>2. \A x \in DOMAIN wanted : s[x] = wanted[x]
  BY DEF Stable, AgreesWith, Plan
<1>3. \A k \in KeysOf(s) : there[k] # None /\ \A x \in DOMAIN Asked(wanted) : there[k][x] = Asked(wanted)[x]
  BY DEF Stable, Has
<1>4. CASE kind \in {"group", "role"}
  <2> DEFINE obj == there[s.id]
  <2>1. DOMAIN wanted = {"name"} /\ StateFields = {"id", "name"} /\ KeysOf(s) = {s.id} /\ Asked(wanted) = wanted
    BY <1>4 DEF Configs, GroupConfigs, StateFields, KeysOf, Asked
  <2>2. obj # None /\ obj.name = s.name
    BY <1>2, <1>3, <2>1
  <2>3. ReadOf(s) = {[s EXCEPT !.name = obj.name]}
    BY <1>4, <2>2 DEF ReadOf, GroupRead, ReadGroupByUUID, RoleRead, ReadRoleByUUID
  <2> HIDE DEF obj
  <2>4. [s EXCEPT !.name = obj.name] = s
    BY <1>1, <2>1, <2>2
  <2> QED BY <2>3, <2>4
<1>5. CASE kind = "secret"
  <2> DEFINE obj == there[s.id]
             name == IF s.name = None THEN None ELSE obj.name
             info == IF s.info = None THEN None ELSE obj.info
             value == IF s.value = None THEN None ELSE IF obj.content[1] = "plain" THEN obj.content[2] ELSE 0
  <2>1. /\ DOMAIN wanted = {"name", "info", "value", "version"} /\ StateFields = {"id", "name", "info", "value", "version"}
        /\ KeysOf(s) = {s.id} /\ DOMAIN Asked(wanted) = SetIn(wanted, {"name", "info"}) \cup {"content"}
        /\ \A x \in SetIn(wanted, {"name", "info"}) : Asked(wanted)[x] = wanted[x]
        /\ Asked(wanted)["content"] = resolveSecretValue(wanted)
    BY <1>5 DEF Configs, SecretConfigs, StateFields, KeysOf, Asked, SetIn
  <2>2. wanted.value # None => wanted.version = None
    BY <1>5 DEF Configs, SecretConfigs
  <2>3. /\ obj # None /\ obj.content = resolveSecretValue(wanted)
        /\ wanted.name # None => obj.name = wanted.name
        /\ wanted.info # None => obj.info = wanted.info
    BY <1>3, <2>1 DEF SetIn
  <2>4. s.name = wanted.name /\ s.info = wanted.info /\ s.value = wanted.value
    BY <1>2, <2>1
  <2>5. ReadOf(s) = {[s EXCEPT !.name = name, !.info = info, !.value = value]}
    BY <1>5, <2>3 DEF ReadOf, SecretRead, ReadSecret
  <2> HIDE DEF obj
  <2>6. wanted.value # None => obj.content[1] = "plain" /\ obj.content[2] = wanted.value
    BY <2>2, <2>3 DEF resolveSecretValue
  <2>7. name = s.name /\ info = s.info /\ value = s.value
    BY <2>3, <2>4, <2>6
  <2> HIDE DEF name, info, value
  <2>8. [s EXCEPT !.name = name, !.info = info, !.value = value] = s
    BY <1>1, <2>1, <2>7
  <2> QED BY <2>5, <2>8
<1>6. CASE kind = "machine"
  <2> DEFINE key == modelMachineIDAndName(s.id).machine
             name == modelMachineIDAndName(s.id).name
             obj == there[key]
  <2>1. /\ DOMAIN wanted = {"name", "constraints", "annotations", "hostname"}
        /\ StateFields = {"id", "name", "constraints", "annotations", "hostname"}
        /\ KeysOf(s) = {key} /\ Asked(wanted) = [x \in {"constraints", "annotations"} |-> wanted[x]]
    BY <1>6 DEF Configs, MachineConfigs, StateFields, KeysOf, Asked, Only
  <2>2. obj # None /\ obj.constraints = s.constraints /\ obj.annotations = s.annotations
    BY <1>2, <1>3, <2>1
  <2>3. name = s.name
    BY <1>6 DEF Stable, Formed
  <2>4. ReadOf(s) = {[s EXCEPT !.name = name, !.constraints = obj.constraints, !.annotations = obj.annotations]}
    BY <1>6, <2>2 DEF ReadOf, MachineRead, ReadMachine
  <2> HIDE DEF obj, name, key
  <2>5. [s EXCEPT !.name = name, !.constraints = obj.constraints, !.annotations = obj.annotations] = s
    BY <1>1, <2>1, <2>2, <2>3
  <2> QED BY <2>4, <2>5
<1>7. CASE kind = "controller"
  <2> DEFINE obj == there[s.uuid]
             config == newConfigFromModelConfigAPI(obj.config, s.config)
             modelconfig == newConfigFromModelConfigAPI(obj.modelconfig, s.modelconfig)
  <2>1. /\ DOMAIN wanted = {"name", "config", "modelconfig", "version", "binary"}
        /\ StateFields = {"id", "uuid", "name", "config", "modelconfig", "version", "binary"}
        /\ KeysOf(s) = {s.uuid} /\ DOMAIN Asked(wanted) = {"name", "version", "modelconfig"} \cup SetIn(wanted, {"config"})
        /\ \A x \in DOMAIN Asked(wanted) : Asked(wanted)[x] = wanted[x]
    BY <1>7 DEF Configs, ControllerConfigs, StateFields, KeysOf, Asked, Only
  <2>2. /\ obj # None /\ obj.version = wanted.version /\ obj.modelconfig = wanted.modelconfig
        /\ wanted.config # None => obj.config = wanted.config
    BY <1>3, <2>1 DEF SetIn
  <2>3. s.version = wanted.version /\ s.modelconfig = wanted.modelconfig /\ s.config = wanted.config
    BY <1>2, <2>1
  <2>4. ReadOf(s) = {[s EXCEPT !.version = obj.version, !.config = config, !.modelconfig = modelconfig]}
    BY <1>7, <2>2 DEF ReadOf, ControllerRead, Config
  <2> HIDE DEF obj
  <2>5. config = s.config /\ modelconfig = s.modelconfig
    BY <2>2, <2>3 DEF newConfigFromModelConfigAPI
  <2> HIDE DEF config, modelconfig
  <2>6. [s EXCEPT !.version = obj.version, !.config = config, !.modelconfig = modelconfig] = s
    BY <1>1, <2>1, <2>2, <2>3, <2>5
  <2> QED BY <2>4, <2>6
<1>8. CASE kind = "jaas_controller"
  <2> DEFINE obj == there[s.name]
             found == {c \in ListControllers(there) : c.name = s.id}
  <2>1. /\ KeysOf(s) = {s.name} /\ s.id = s.name /\ s.name \in Names
        /\ StateFields = {"id", "name", "ca", "password", "force"}
    BY <1>8, NamedKeys DEF IsState, ByName, AllKinds, StateFields
  <2>2. \A j \in Names : there[j] # None => there[j].name = j
    BY <1>8 DEF ThereInv, ByName, AllKinds, Keys
  <2>3. Asked(wanted) = infoOf(wanted) /\ "ca" \in DOMAIN infoOf(wanted) /\ s.ca = infoOf(wanted).ca
    BY <1>8 DEF Asked, infoOf, Stable, Formed
  <2>4. obj # None /\ obj.name = s.name /\ obj.ca = s.ca
    BY <1>3, <2>1, <2>2, <2>3
  <2>5. found = {obj}
    BY <2>1, <2>2, <2>4 DEF ListControllers
  <2>6. ReadOf(s) = {[s EXCEPT !.name = c.name, !.ca = c.ca] : c \in {obj}}
    BY <1>8, <2>5 DEF ReadOf, JAASControllerRead
  <2> HIDE DEF obj
  <2>7. [s EXCEPT !.name = obj.name, !.ca = obj.ca] = s
    BY <1>1, <2>1, <2>4
  <2> QED BY <2>6, <2>7
<1> QED BY <1>4, <1>5, <1>6, <1>7, <1>8

LEMMA StableCredential ==
  ASSUME kind = "credential", wanted \in Configs, NEW s, Proper(s), Stable(s)
  PROVE  ReadOf(s) = {s}
<1> DEFINE id == s.id
           found == [k \in {"client", "controller"} |->
                       IF id[k] /\ there[k] # None THEN there[k] ELSE [name |-> None, auth |-> None]]
           best == IF id.controller THEN found["controller"] ELSE found["client"]
           other == [name |-> best.name, auth |-> best.auth, client |-> id.client, controller |-> id.controller]
<1>1. /\ DOMAIN wanted = {"name", "auth", "client", "controller"} /\ StateFields = {"id", "name", "auth", "client", "controller"}
      /\ KeysOf(s) = Flagged(id) /\ Asked(wanted) = [x \in {"name", "auth"} |-> wanted[x]]
  BY DEF Configs, CredentialConfigs, StateFields, KeysOf, Asked, Only
<1>2. s = [x \in StateFields |-> s[x]] /\ s.name = wanted.name /\ s.auth = wanted.auth
  BY <1>1 DEF Proper, Stable, AgreesWith, Plan
<1>3. \A k \in Flagged(id) : there[k] # None /\ there[k].name = s.name /\ there[k].auth = s.auth
  BY <1>1, <1>2 DEF Stable, Has
<1>4. id = [client |-> s.client, controller |-> s.controller] /\ Flagged(id) # {}
  BY DEF Stable, Formed, newCredentialID
<1>5. \A k \in {"client", "controller"} : id[k] => there[k] # None /\ found[k] = there[k]
                                                   /\ found[k].name = s.name /\ found[k].auth = s.auth
  BY <1>3 DEF Flagged
<1>6. id["client"] \/ id["controller"]
  BY <1>4 DEF Flagged
<1> HIDE DEF found
<1>7. best.name = s.name /\ best.auth = s.auth
  BY <1>5, <1>6
<1>8. ~(Cardinality(Flagged(id)) = 2 /\ found["client"].auth # found["controller"].auth)
  <2>1. CASE id["client"] /\ id["controller"]
    BY <1>5, <2>1
  <2>2. CASE ~(id["client"] /\ id["controller"])
    <3>1. \E k : Flagged(id) = {k}
      BY <1>6, <2>2 DEF Flagged
    <3>2. Cardinality(Flagged(id)) = 1
      BY <3>1, FS_Singleton
    <3> QED BY <3>2
  <2> QED BY <2>1, <2>2
<1>9. ReadCredential(id, there) = {best}
  BY <1>4, <1>8 DEF ReadCredential, found
<1> HIDE DEF best
<1>10. ReadOf(s) = {StateOf(id, other)}
  BY <1>9 DEF ReadOf, CredentialRead
<1>11. /\ id.client = s.client /\ id.controller = s.controller
  <2> HIDE DEF id
  <2> QED BY <1>4
<1>12. StateOf(id, other) = s
  BY <1>1, <1>2, <1>7, <1>11 DEF StateOf
<1> QED BY <1>10, <1>12

LEMMA StableCloud ==
  ASSUME NoneIsNoConfig, kind = "cloud", wanted \in Configs, NEW s, IsState(s), Proper(s), Stable(s), WholeAt(there)
  PROVE  ReadOf(s) = {s}
<1> DEFINE obj == there[s.name]
           w == wanted
           out == [obj EXCEPT !.regions = listed(@)]
           regions == orderedRegions(s.regions, out.regions)
<1>1. /\ KeysOf(s) = {s.name} /\ s.name \in Keys /\ s = [x \in StateFields |-> s[x]]
      /\ StateFields = {"id", "name", "storage", "regions", "cacerts"}
      /\ DOMAIN w = {"name", "storage", "regions", "cacerts"} /\ w \in CloudConfigs /\ Asked(w) = w
  BY NamedKeys DEF ByName, AllKinds, Proper, StateFields, Configs, CloudConfigs, Asked
<1>2. s.storage = w.storage /\ s.regions = w.regions
  BY <1>1 DEF Stable, AgreesWith, Plan
<1>3. obj # None /\ \A x \in DOMAIN w : obj[x] = w[x]
  BY <1>1 DEF Stable, Has
<1>4. "regions" \in DOMAIN obj /\ "storage" \in DOMAIN obj
  BY <1>1, <1>3 DEF WholeAt, Whole, FieldsOf
<1>5. out.storage = s.storage /\ out.regions = listed(w.regions)
  BY <1>1, <1>2, <1>3, <1>4
<1>6. orderedRegions(w.regions, listed(w.regions)) = w.regions
  BY <1>1, RegionsAssumption
<1>7. ReadOf(s) = {[s EXCEPT !.storage = out.storage, !.regions = regions]}
  <2>1. out # None
    <3>1. "name" \in DOMAIN out
      BY <1>1, <1>3 DEF WholeAt, Whole, FieldsOf
    <3> QED BY <3>1 DEF NoneIsNoConfig
  <2>2. ReadOf(s) = CloudRead(s, there) /\ ReadCloud(s.name, there) = out
    BY <1>3 DEF ReadOf, ReadCloud
  <2> HIDE DEF out
  <2> QED BY <2>1, <2>2 DEF CloudRead
<1>8. regions = s.regions
  <2> HIDE DEF out
  <2> QED BY <1>2, <1>5, <1>6
<1>9. [s EXCEPT !.storage = out.storage, !.regions = regions] = s
  <2> HIDE DEF out, regions
  <2> QED BY <1>1, <1>5, <1>8
<1> QED BY <1>7, <1>9

LEMMA StableApplication ==
  ASSUME NoneIsNoBindings, kind = "application", wanted \in Configs, NEW s, IsState(s), Proper(s), Stable(s), ~Unapplied,
         \A k \in KeysOf(s) : there[k] # None => AppWhole(there[k])
  PROVE  ReadOf(s) = {s}
<1> DEFINE app == there[s.name]
           w == wanted
           spaces == EndpointBindings(app)
           special == {e \in DOMAIN spaces : spaces[e] # IF e = others THEN modelDefault ELSE spaces[others]}
           b == ReadBindings(app)
           config == newConfigFromApplicationAPI(app.config, s.config)
           resource == configureResourceData(s.resource, app)
           bindings == IF b = None THEN s.bindings ELSE b
<1>1. /\ KeysOf(s) = {s.name} /\ s.id = s.name /\ s = [x \in StateFields |-> s[x]]
      /\ StateFields = {"id", "name", "revision", "config", "resource", "bindings"}
      /\ DOMAIN w = {"name", "revision", "config", "resource", "bindings"}
  BY NamedKeys DEF IsState, ByName, AllKinds, Proper, StateFields, Configs, AppConfigs
<1>2. /\ s.name = w.name /\ s.revision = w.revision /\ s.config = w.config /\ s.resource = w.resource
      /\ s.bindings = w.bindings
  BY <1>1 DEF Stable, AgreesWith, Plan
<1>3. app # None /\ AppWhole(app) /\ \A x \in DOMAIN AppAsked(w) : app[x] = AppAsked(w)[x]
  BY <1>1 DEF Stable, Has, Asked
<1>4. /\ app.default = Spot("default", w.bindings) /\ app.db = Spot("db", w.bindings)
  BY <1>1, <1>2 DEF Stable, Besides, Suits
<1>5. app.new \in {None, app.default, BoundIn(w.bindings, "new", None)}
  <2>1. Unapplied <=> there[w.name].new \notin {None, there[w.name].default, BoundIn(w.bindings, "new", None)}
    BY DEF Unapplied
  <2>2. app = there[w.name]
    BY <1>2
  <2> HIDE DEF app
  <2> QED BY <2>1, <2>2
<1>6. \/ w.bindings = None
      \/ \E e \in {"db", others, "new"} : w.bindings = [x \in {e} |-> "s1"] /\ (e = "new" => w.revision = 2)
  BY DEF Configs, AppConfigs
<1>7. /\ app.name = w.name /\ app.revision = w.revision /\ app.config = w.config
      /\ w.resource # None => app.resource = w.resource
      /\ w.bindings # None /\ "new" \in DOMAIN w.bindings => app.new = w.bindings["new"]
  <2> DEFINE bound == IF w.bindings = None THEN {} ELSE {FieldOf(e) : e \in DOMAIN w.bindings}
  <2>1. /\ DOMAIN AppAsked(w) = {"name", "revision", "config"} \cup (IF w.resource = None THEN {} ELSE {"resource"}) \cup bound
        /\ \A x \in DOMAIN AppAsked(w) : AppAsked(w)[x] = IF x \in bound THEN w.bindings[EndpointOf(x)] ELSE w[x]
    BY DEF AppAsked
  <2>2. w.bindings # None => DOMAIN w.bindings \subseteq {"db", others, "new"}
    BY <1>6
  <2>3. bound \subseteq {"db", "default", "new"}
    BY <2>2 DEF FieldOf
  <2>4. w.bindings # None /\ "new" \in DOMAIN w.bindings => "new" \in bound
    BY DEF FieldOf, others
  <2>5. EndpointOf("new") = "new"
    BY DEF EndpointOf
  <2> HIDE DEF bound, app
  <2> QED BY <1>3, <2>1, <2>3, <2>4, <2>5
<1>8. /\ DOMAIN spaces = EndpointsOf(app.revision) \cup {others}
      /\ EndpointsOf(app.revision) = IF app.revision = 2 THEN {"db", "new"} ELSE {"db"}
      /\ spaces[others] = app.default /\ spaces["db"] = app.db
      /\ "new" \in DOMAIN spaces => spaces["new"] = app.new
      /\ "db" # others /\ "new" # others
  BY DEF EndpointBindings, EndpointsOf, FieldOf, others
<1>9. ReadOf(s) = {[s EXCEPT !.name = app.name, !.revision = app.revision, !.config = config,
                             !.resource = resource, !.bindings = bindings]}
  BY <1>1, <1>3 DEF ReadOf, AppRead
<1>10. b = IF special = {} THEN None ELSE [e \in special |-> spaces[e]]
  BY DEF ReadBindings
<1>11. app.revision = 2 => app.new # None
  BY <1>3 DEF AppWhole
<1> HIDE DEF app, spaces, b
<1>12. /\ others \in special <=> app.default # modelDefault
       /\ "db" \in special <=> app.db # app.default
       /\ "new" \in special <=> app.revision = 2 /\ app.new # app.default
       /\ special \subseteq {"db", "new", others} /\ special \subseteq DOMAIN spaces
  BY <1>8
<1> HIDE DEF special
<1>13. b = None \/ b = w.bindings
  <2>1. CASE w.bindings = None
    <3>1. app.default = modelDefault /\ app.db = modelDefault /\ app.new \in {None, modelDefault}
      BY <1>4, <1>5, <2>1 DEF Spot, DefaultOf, BoundIn
    <3>2. special = {}
      BY <1>11, <1>12, <3>1
    <3> QED BY <1>10, <3>2
  <2>2. ASSUME NEW e \in {"db", others, "new"}, w.bindings = [x \in {e} |-> "s1"], e = "new" => w.revision = 2
        PROVE  b = None \/ b = w.bindings
    <3>1. w.bindings # None /\ DOMAIN w.bindings = {e} /\ w.bindings[e] = "s1"
      <4>1. DOMAIN [x \in {e} |-> "s1"] = {e} /\ [x \in {e} |-> "s1"][e] = "s1"
        OBVIOUS
      <4> QED BY <2>2, <4>1 DEF NoneIsNoBindings
    <3>2. "s1" # modelDefault
      BY DEF modelDefault
    <3>3. CASE e = others
      <4>1. app.default = "s1" /\ app.db = "s1" /\ app.new \in {None, "s1"}
        BY <1>4, <1>5, <1>8, <3>1, <3>3 DEF Spot, DefaultOf, BoundIn
      <4>2. special = {others} /\ spaces[others] = "s1"
        BY <1>8, <1>11, <1>12, <3>2, <4>1
      <4> QED BY <1>10, <2>2, <3>3, <4>2
    <3>4. CASE e = "db"
      <4>1. app.default = modelDefault /\ app.db = "s1" /\ app.new \in {None, modelDefault}
        BY <1>4, <1>5, <1>8, <3>1, <3>4 DEF Spot, DefaultOf, BoundIn
      <4>2. special = {"db"} /\ spaces["db"] = "s1"
        BY <1>8, <1>11, <1>12, <3>2, <4>1
      <4> QED BY <1>10, <2>2, <3>4, <4>2
    <3>5. CASE e = "new"
      <4>1. app.default = modelDefault /\ app.db = modelDefault /\ app.new = "s1" /\ app.revision = 2
        BY <1>4, <1>7, <1>8, <2>2, <3>1, <3>5 DEF Spot, DefaultOf, BoundIn
      <4>2. special = {"new"} /\ spaces["new"] = "s1"
        BY <1>8, <1>12, <3>2, <4>1
      <4> QED BY <1>10, <2>2, <3>5, <4>2
    <3> QED BY <3>3, <3>4, <3>5
  <2> QED BY <1>6, <2>1, <2>2
<1>14. config = s.config
  BY <1>2, <1>7 DEF newConfigFromApplicationAPI
<1>15. resource = s.resource
  BY <1>2, <1>7 DEF configureResourceData
<1>16. bindings = s.bindings
  BY <1>2, <1>13
<1> HIDE DEF config, resource, bindings
<1>17. [s EXCEPT !.name = app.name, !.revision = app.revision, !.config = config,
                 !.resource = resource, !.bindings = bindings] = s
  BY <1>1, <1>2, <1>7, <1>14, <1>15, <1>16
<1> QED BY <1>9, <1>17

\* A model whose agent version could not be read gets it from the next Read.
LEMMA StableModel ==
  ASSUME NoneIsNoState, kind = "model", wanted \in Configs, NEW s, IsState(s), Proper(s), Stable(s)
  PROVE  LET r == [s EXCEPT !.agent = there[s.id].agent] IN
         ReadOf(s) = {r} /\ Stable(r) /\ KeysOf(r) = KeysOf(s) /\ (s.agent # None => r = s)
<1> DEFINE m == there[s.id]
           w == wanted
           config == newConfigFromModelConfigAPI(m.config, s.config)
           constraints == IF s.constraints # None \/ (s.name = None /\ m.constraints # None)
                          THEN IF m.constraints = None THEN 0 ELSE m.constraints ELSE None
           annotations == IF m.annotations = None THEN s.annotations ELSE m.annotations
           backend == IF s.backend = None THEN None ELSE m.backend
           agent == m.agent
           r == [s EXCEPT !.agent = agent]
           computed == {x \in {"agent", "credential"} : w[x] = None}
           asked == [Without(w, computed) EXCEPT !.backend = IF @ = None THEN "auto" ELSE @]
<1>1. /\ KeysOf(s) = {s.id} /\ s = [x \in StateFields |-> s[x]] /\ s # None
      /\ StateFields = {"id", "name", "config", "constraints", "annotations", "backend", "agent", "credential"}
      /\ DOMAIN w = {"name", "config", "constraints", "annotations", "backend", "agent", "credential"}
      /\ w.name = "a" /\ "a" # None
  BY StatedOfState, NamesAssumption DEF KeysOf, Proper, StateFields, Configs, ModelConfigs
<1>2. \A x : x # None => Plan(x, w) = [y \in DOMAIN w |-> IF y \in computed THEN x[y] ELSE w[y]]
  BY DEF Plan, PlannedModel
<1>3. \A y \in DOMAIN w \ computed : s[y] = w[y]
  BY <1>1, <1>2 DEF Stable, AgreesWith
<1>4. Asked(w) = asked
  BY DEF Asked, PlannedModel
<1>5. /\ DOMAIN asked = DOMAIN w \ computed /\ "backend" \in DOMAIN asked
      /\ \A y \in DOMAIN asked \ {"backend"} : asked[y] = w[y]
      /\ asked["backend"] = IF w.backend = None THEN "auto" ELSE w.backend
  BY <1>1 DEF Without
<1>7. m.credential = s.credential /\ (s.agent = None \/ agent = s.agent)
  BY <1>1 DEF Stable, Besides, Suits
<1> HIDE DEF asked
<1>6. m # None /\ \A y \in DOMAIN asked : m[y] = asked[y]
  <2>1. Has(m, Asked(w))
    BY <1>1 DEF Stable
  <2> QED BY <1>4, <2>1 DEF Has
<1>8. /\ m.name = s.name /\ m.config = s.config /\ m.constraints = s.constraints /\ m.annotations = s.annotations
      /\ m.backend = IF s.backend = None THEN "auto" ELSE s.backend
      /\ w.agent # None => agent = w.agent
      /\ s.name # None
  BY <1>1, <1>3, <1>5, <1>6
<1>9. ReadOf(s) = {[s EXCEPT !.name = m.name, !.config = config, !.constraints = constraints,
                             !.annotations = annotations, !.backend = backend,
                             !.agent = agent, !.credential = m.credential]}
  BY <1>6 DEF ReadOf, ModelRead, ReadModel
<1> HIDE DEF m
<1>10. config = s.config /\ constraints = s.constraints /\ annotations = s.annotations /\ backend = s.backend
  BY <1>8 DEF newConfigFromModelConfigAPI
<1> HIDE DEF config, constraints, annotations, backend, agent
<1>11. [s EXCEPT !.name = m.name, !.config = config, !.constraints = constraints, !.annotations = annotations,
                 !.backend = backend, !.agent = agent, !.credential = m.credential] = r
  BY <1>1, <1>7, <1>8, <1>10
<1>12. r = [x \in StateFields |-> IF x = "agent" THEN agent ELSE s[x]]
  BY <1>1
<1>13. s.agent # None => r = s
  BY <1>1, <1>7, <1>12
<1> HIDE DEF r
<1>14. DOMAIN r = StateFields /\ \A x \in StateFields : r[x] = IF x = "agent" THEN agent ELSE s[x]
  BY <1>12
<1>15. r # None /\ KeysOf(r) = {s.id}
  BY <1>1, <1>14 DEF KeysOf, NoneIsNoState
<1>16. AgreesWith(r, Plan(r, w))
  <2> SUFFICES ASSUME NEW y \in DOMAIN w \ computed PROVE r[y] = w[y]
    BY <1>2, <1>15 DEF AgreesWith
  <2>1. CASE y = "agent"
    BY <1>1, <1>8, <1>14, <2>1
  <2>2. CASE y # "agent"
    BY <1>1, <1>3, <1>14, <2>2
  <2> QED BY <2>1, <2>2
<1>17. Formed(r)
  BY DEF Formed
<1>18. Has(m, Asked(w))
  BY <1>4, <1>6 DEF Has
<1>19. \A x \in Besides : Suits(x, m[x], r)
  <2>1. Besides = {"agent", "credential"} /\ m["agent"] = agent
    BY DEF Besides, agent
  <2>2. r["agent"] = agent /\ r["credential"] = m.credential
    BY <1>1, <1>7, <1>14
  <2> QED BY <2>1, <2>2 DEF Suits
<1>20. Stable(r)
  BY <1>15, <1>16, <1>17, <1>18, <1>19 DEF Stable, m
<1> QED BY <1>1, <1>9, <1>11, <1>13, <1>15, <1>20 DEF r, agent, m

\* What Unapplied excepts for ever; a model's agent is excepted for one refresh.
Lasting == kind # "model" /\ Unapplied
StableInv == last # "no" => "unseen" \notin touched /\ ~tainted /\ (Lasting \/ Stable(tfstate))

LEMMA StableReads ==
  ASSUME NoneIsNoState, NoneIsNoConfig, NoneIsNoBindings, Grounded, last # "no", SuccessInv, StableInv, ~Lasting
  PROVE  \E r : ReadOf(tfstate) = {r} /\ Stable(r) /\ ((kind = "model" /\ tfstate.agent = None) \/ r = tfstate)
<1>1. /\ kind \in AllKinds /\ ThereInv /\ tfstate # None /\ wanted \in Configs
      /\ IsState(tfstate) /\ Proper(tfstate) /\ Stable(tfstate) /\ Own = KeysOf(tfstate)
  BY DEF Grounded, IInv, ControlInv, SuccessInv, StableInv, SoundInv, Own, Stated
<1>2. kind # "model" => ~Unapplied
  BY DEF Lasting
<1>3. CASE kind = "model"
  <2> DEFINE r == [tfstate EXCEPT !.agent = there[tfstate.id].agent]
  <2>1. ReadOf(tfstate) = {r} /\ Stable(r) /\ (tfstate.agent # None => r = tfstate)
    BY <1>1, <1>3, StableModel
  <2> HIDE DEF r
  <2> QED BY <1>3, <2>1
<1>4. CASE kind = "application"
  <2>1. \A k \in KeysOf(tfstate) : there[k] # None => AppWhole(there[k])
    BY <1>1, <1>4 DEF Grounded, AppInv, WholeAppInv, Charmed, StableInv
  <2> QED BY <1>1, <1>2, <1>4, <2>1, StableApplication
<1>5. CASE kind = "credential"
  BY <1>1, <1>5, StableCredential
<1>6. CASE kind \in {"user", "kubernetes_cloud", "secret_backend", "offer", "space", "subnet", "storage_pool", "ssh_key"}
  BY <1>1, <1>2, <1>6, StableByName
<1>7. CASE kind \in {"group", "role", "secret", "machine", "controller", "jaas_controller"}
  BY <1>1, <1>7, StableByID
<1>8. CASE kind = "cloud"
  <2>1. WholeAt(there)
    BY <1>1 DEF Grounded, SoundInv, StableInv
  <2> QED BY <1>1, <1>8, <2>1, StableCloud
<1> QED BY <1>1, <1>3, <1>4, <1>5, <1>6, <1>7, <1>8 DEF AllKinds

LEMMA StableKept ==
  ASSUME kind' = kind,
         last' # "no" => /\ "unseen" \notin touched' /\ ~tainted'
                         /\ wanted' = wanted /\ there' = there
                         /\ Lasting \/ Stable(tfstate')
  PROVE  StableInv'
<1> SUFFICES ASSUME last' # "no" PROVE (Lasting \/ Stable(tfstate))'
  BY DEF StableInv
<1>1. wanted' = wanted /\ there' = there
  OBVIOUS
<1>2. Lasting => Lasting'
  BY <1>1 DEF Lasting, Unapplied
<1>3. /\ \A s : KeysOf(s)' = KeysOf(s) /\ \A w : Asked(w)' = Asked(w)
      /\ \A s : Formed(s)' <=> Formed(s)
      /\ Besides' = Besides /\ \A x, y, s : Suits(x, y, s)' <=> Suits(x, y, s)
  BY <1>1, KindKept, FittingKept
<1>4. \A s, w : Plan(s, w)' = Plan(s, w)
  BY DEF Plan
<1>5. \A s : Stable(s)' <=> Stable(s)
  BY <1>1, <1>3, <1>4 DEF Stable
<1>6. Stable(tfstate') => Stable(tfstate)'
  BY <1>5
<1> QED BY <1>2, <1>6

\* What a result agrees with goes on to be what is planned for it.
LEMMA AgreesStill ==
  ASSUME kind \in AllKinds, NEW w \in Configs, NEW s, NEW v, v # None, AgreesWith(v, Plan(s, w))
  PROVE  AgreesWith(v, Plan(v, w))
<1>1. CASE kind = "model"
  <2> DEFINE computed == {x \in {"agent", "credential"} : w[x] = None}
             plan == [x \in DOMAIN w |-> IF x \in computed THEN v[x] ELSE w[x]]
  <2>1. Plan(v, w) = plan
    BY <1>1 DEF Plan, PlannedModel
  <2>2. \A x \in DOMAIN w \ computed : x \in DOMAIN Plan(s, w) /\ Plan(s, w)[x] = w[x]
    BY <1>1 DEF Plan, PlannedModel, Without
  <2>3. \A x \in DOMAIN w \ computed : v[x] = w[x]
    BY <2>2 DEF AgreesWith
  <2>4. \A x \in DOMAIN plan : v[x] = plan[x]
    BY <2>3
  <2> HIDE DEF plan
  <2> QED BY <2>1, <2>4 DEF AgreesWith
<1>2. CASE kind = "ssh_key"
  <2> DEFINE plan == SSHKeyCommentInsensitive(v, w)
  <2>1. /\ DOMAIN w = {"name", "comment"} /\ w = [x \in {"name", "comment"} |-> w[x]]
        /\ Plan(v, w) = plan /\ Plan(s, w) = SSHKeyCommentInsensitive(s, w)
    BY <1>2 DEF Plan, Configs, SSHKeyConfigs
  <2>2. "name" \in DOMAIN Plan(s, w) /\ Plan(s, w)["name"] = w.name
    BY <2>1 DEF SSHKeyCommentInsensitive
  <2>3. v.name = w.name
    BY <2>2 DEF AgreesWith
  <2>4. plan = [w EXCEPT !.comment = v.comment]
    BY <2>3 DEF SSHKeyCommentInsensitive
  <2>5. DOMAIN plan = {"name", "comment"} /\ plan["name"] = v.name /\ plan["comment"] = v.comment
    BY <2>1, <2>3, <2>4
  <2> HIDE DEF plan
  <2> QED BY <2>1, <2>5 DEF AgreesWith
<1>3. CASE kind \notin {"model", "ssh_key"}
  BY <1>3 DEF Plan
<1> QED BY <1>1, <1>2, <1>3

LEMMA StableReturns ==
  ASSUME NoneIsNoState, Grounded, FittedInv, Returned
  PROVE  StableInv'
<1> DEFINE v == calls[1].val
<1>1. /\ kind' = kind /\ there' = there /\ wanted' = wanted /\ tfstate' = v /\ touched' = touched \ {"failed"}
      /\ tainted' = (pc = "create" /\ ~Consistent(v))
      /\ Final(calls) /\ calls[1].op = "returns" /\ calls # <<>> /\ calls[1] \in ToSet(calls)
      /\ pc \in {"create", "update"}
  BY ReturnDoes DEF Grounded
<1>2. wanted \in Configs /\ kind \in AllKinds
  BY <1>1 DEF Grounded, IInv, ControlInv
<1> SUFFICES ASSUME last' # "no" PROVE "unseen" \notin touched' /\ ~tainted' /\ Stable(v)
  BY <1>1, StableKept
<1>3. /\ Consistent(v) /\ Alone /\ v # None /\ ~Off(v) /\ AtWork(calls)
      /\ \A k \in KeysOf(v) : Has(there[k], Asked(wanted))
  BY ReturnsTrue
<1>4. "unseen" \notin touched' /\ ~tainted'
  BY <1>1, <1>3 DEF Alone
<1>5. AgreesWith(v, Plan(v, wanted))
  BY <1>2, <1>3, AgreesStill DEF Consistent
<1>6. Fit(v, calls, there)
  <2>1. Fitted(calls, there)
    BY <1>1, <1>3 DEF FittedInv
  <2>2. v \in Results(calls)
    BY <1>1 DEF Results
  <2> HIDE DEF v
  <2> QED BY <1>3, <2>1, <2>2 DEF Fitted
<1>7. ASSUME NEW k \in KeysOf(v), NEW x \in Besides PROVE Suits(x, there[k][x], v)
  <2>1. PICK y : Suits(x, y, v) /\ Comes(calls, there, k, x, y, "exactly")
    BY <1>6 DEF Fit
  <2>2. Is(there, k, x, y, "exactly")
    BY <1>1, <2>1, HasCome
  <2>3. there[k] # None
    BY <1>3 DEF Has
  <2>4. there[k][x] = y
    BY <2>2, <2>3 DEF Is, Ok
  <2> QED BY <2>1, <2>4
<1> QED BY <1>3, <1>4, <1>5, <1>6, <1>7 DEF Stable, Fit

LEMMA StableRefreshed ==
  ASSUME NoneIsNoState, NoneIsNoConfig, NoneIsNoValue, NoneIsNoBindings, Grounded, SuccessInv, StableInv, Read
  PROVE  StableInv'
<1>1. /\ UNCHANGED <<wanted, kind, there, last>> /\ touched' = touched \ {"since"} /\ (~tainted => ~tainted')
  BY ReadDoes DEF Grounded
<1> SUFFICES ASSUME last # "no", ~Lasting PROVE Stable(tfstate')
  BY <1>1, StableKept DEF StableInv
<1>2. PICK r : ReadOf(tfstate) = {r} /\ Stable(r)
  BY StableReads
<1>3. tfstate' \in ReadOf(tfstate)
  BY DEF Read, Refreshed
<1> QED BY <1>2, <1>3

LEMMA StableStays ==
  ASSUME NoneIsNoState, NoneIsNoConfig, NoneIsNoValue, NoneIsNoBindings, Grounded, SuccessInv, FittedInv, StableInv, [Next]_vars
  PROVE  StableInv'
<1>1. CASE Step \/ Refused \/ CallFails \/ AnswerLost \/ Deleted
  <2>1. calls # <<>> /\ last' = last /\ kind' = kind
    BY <1>1 DEF Step, Refused, CallFails, AnswerLost, Deleted
  <2>2. last = "no"
    BY <2>1 DEF SuccessInv
  <2> QED BY <2>1, <2>2, StableKept
<1>2. CASE Begin \/ Vanish \/ OutsideChange \/ Import \/ EditConfig
  <2>1. last' = "no" /\ kind' = kind
    BY <1>2 DEF Begin, Vanish, OutsideChange, Import, EditConfig
  <2> QED BY <2>1, StableKept
<1>3. CASE ReadFails \/ Start \/ UNCHANGED vars
  <2>1. UNCHANGED <<wanted, tfstate, kind, there, last>> /\ ("unseen" \notin touched => "unseen" \notin touched')
    BY <1>3 DEF ReadFails, Errored, Start, BeginApply, vars
  <2>2. tainted' <=> tainted
    BY <1>3 DEF ReadFails, Errored, Start, BeginApply, vars
  <2> QED BY <2>1, <2>2, StableKept DEF StableInv
<1> QED BY <1>1, <1>2, <1>3, StableReturns, StableRefreshed DEF Next, ApplyStep

-----------------------------------------------------------------------------
(* The fifth theorem.                                                      *)

LEMMA FittedStays ==
  ASSUME NoneIsNoState, NoneIsNoConfig, NoneIsNoValue, NoneIsNoBindings, Grounded, FittedInv, PerceivedInv, [Next]_vars
  PROVE  FittedInv' /\ PerceivedInv'
<1>1. UpdateKeeps
  BY HandlersKeep DEF Grounded, IInv, ControlInv
<1>2. FittedInv'
  BY FittedBegins, FittedSteps, FittedFails, FittedOthers DEF Grounded, Next, ApplyStep
<1>3. PerceivedInv'
  BY <1>1, PerceivedReads, PerceivedOthers DEF Grounded, Next, ApplyStep
<1> QED BY <1>2, <1>3

\* Once an apply has succeeded there is nothing left to apply: reading what it has
\* made gives back the state that it returned, and that state is what is planned,
\* so that the next plan is empty.  It stays so over any number of refreshes, and
\* whatever came before the apply.  The exceptions are those that Unapplied lists,
\* where a difference is there for ever or for one more refresh.  Of the regions
\* of a cloud it rests on RegionsAssumption: orderedRegions finds the order of the
\* configuration again.
THEOREM AppliesSettle ==
  ASSUME NoneIsNoState, NoneIsNoConfig, NoneIsNoValue, NoneIsNoBindings
  PROVE  Spec => []AppliedIsStable
<1> DEFINE Ind == Grounded /\ SuccessInv /\ FittedInv /\ PerceivedInv /\ StableInv
<1>1. Init => Ind
  <2> SUFFICES ASSUME Init PROVE FittedInv /\ PerceivedInv /\ StableInv
    BY GroundedFirst
  <2>1. pc = "idle" /\ calls = <<>> /\ last = "no"
    BY DEF Init, TerraformInit
  <2> QED BY <2>1 DEF FittedInv, PerceivedInv, StableInv
<1>2. Ind /\ [Next]_vars => Ind'
  BY GroundedStays, SuccessStays, FittedStays, StableStays
<1>3. Ind => AppliedIsStable
  <2> SUFFICES ASSUME Ind, last # "no", ~Unapplied
               PROVE  ReadOf(tfstate) = {tfstate} /\ AgreesWith(tfstate, Plan(tfstate, wanted))
    BY DEF AppliedIsStable
  <2>1. ~Lasting
    BY DEF Lasting
  <2>2. Stable(tfstate)
    BY <2>1 DEF StableInv
  <2>3. PICK r : ReadOf(tfstate) = {r} /\ ((kind = "model" /\ tfstate.agent = None) \/ r = tfstate)
    BY <2>1, StableReads
  <2>4. ~(kind = "model" /\ tfstate.agent = None)
    BY DEF Unapplied
  <2> QED BY <2>2, <2>3, <2>4 DEF Stable
<1> QED BY <1>1, <1>2, <1>3, PTL DEF Spec
==============================================================================
