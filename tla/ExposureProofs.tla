--------------------------- MODULE ExposureProofs ---------------------------
(***************************************************************************)
(* What the exposure of an application guarantees at every point of an     *)
(* update, for all endpoints, spaces and CIDRs.  The invariant says what   *)
(* is exposed before the first of the two calls, between them and after    *)
(* them, as a function of the state read and the plan.                     *)
(***************************************************************************)
EXTENDS Exposure, TLAPS

\* Without an operator, the endpoints exposed share one setting, and "" is not
\* exposed next to others.
UniformInv ==
  ~drifted => /\ \E setting \in Setting : \A e \in Names : exposed[e] \in {None, setting}
              /\ exposed[All] # None => \A e \in Endpoints : exposed[e] = None

\* Without an operator, what is exposed is first what was read, then what the
\* plan leaves as it is, and in the end what the plan asks for, or nothing.
ProgressInv ==
  ~drifted =>
    \A e \in Names :
      LET was   == AsAsked(tfstate)[e]
          shall == AsAsked(plan)[e]
      IN  /\ pc = "unexpose" => exposed[e] = was
          /\ pc = "expose" => exposed[e] = IF was = shall THEN shall ELSE None
          /\ pc = "rest" => exposed[e] = shall \/ (was # shall /\ exposed[e] = None)

\* The named endpoints exposed at each point, whatever an operator did before.
NamesInv ==
  \A e \in Endpoints :
    LET was   == tfstate # None /\ e \in tfstate.endpoints
        shall == plan # None /\ e \in plan.endpoints
    IN  /\ pc = "unexpose" => (exposed[e] # None <=> was)
        /\ pc = "expose" => (exposed[e] # None <=> was /\ shall /\ SettingOf(plan) = SettingOf(tfstate))
        /\ pc = "rest" => (exposed[e] # None <=> shall)

IInv == TypeOK /\ UniformInv /\ ProgressInv /\ NamesInv
-----------------------------------------------------------------------------
(* The operators on blocks and settings.                                   *)

\* A block exposes at least one endpoint, and "" only when it names none.
LEMMA BlockExposes ==
  ASSUME NEW B \in Block
  PROVE  /\ B # None /\ B.endpoints \subseteq Endpoints
         /\ EndpointsOf(B) \subseteq Names /\ EndpointsOf(B) # {}
         /\ All \in EndpointsOf(B) <=> B.endpoints = {}
         /\ All \in EndpointsOf(B) => EndpointsOf(B) = {All}
         /\ \A e \in Endpoints : e \in EndpointsOf(B) <=> e \in B.endpoints
         /\ SettingOf(B) \in Setting /\ SettingOf(B) # None
<1>1. B # None /\ B.endpoints \subseteq Endpoints /\ All \notin Endpoints
  BY ExposureAssumption DEF Block
<1>2. SettingOf(B) \in Setting
  BY DEF SettingOf, Setting, Block
<1>3. SettingOf(B) # None
  BY <1>2, ExposureAssumption
<1> QED BY <1>1, <1>2, <1>3 DEF EndpointsOf, Names

LEMMA AskedOf ==
  ASSUME NEW B \in Block \cup {None}, NEW e \in Names
  PROVE  AsAsked(B)[e] = IF B # None /\ e \in EndpointsOf(B) THEN SettingOf(B) ELSE None
BY DEF AsAsked, Nowhere

\* What computeExposeDeltas (resource_application.go:1676) makes of two blocks.
LEMMA DeltasAre ==
  ASSUME NEW old \in Block \cup {None}, NEW new \in Block \cup {None}
  PROVE  LET D == computeExposeDeltas(old, new)
             changed == SettingOf(new) # SettingOf(old)
             added == EndpointsOf(new) \ EndpointsOf(old)
         IN  /\ new = None => D.unexpose = {All} /\ D.expose = {}
             /\ new # None /\ old = None => D.unexpose = {} /\ D.expose = EndpointsOf(new)
             /\ new # None /\ old # None =>
                  /\ D.unexpose = {e \in EndpointsOf(old) : changed \/ e \notin EndpointsOf(new)}
                  /\ D.expose = IF changed THEN EndpointsOf(new) ELSE IF added = {All} THEN {} ELSE added
<1>1. CASE new = None
  BY <1>1 DEF computeExposeDeltas
<1>2. CASE new # None /\ old = None
  BY <1>2 DEF computeExposeDeltas
<1>3. CASE new # None /\ old # None
  <2> DEFINE changed == SettingOf(new) # SettingOf(old)
             kept    == EndpointsOf(new) \cap EndpointsOf(old)
             added   == EndpointsOf(new) \ EndpointsOf(old)
  <2>1. EndpointsOf(new) \ kept = added
    OBVIOUS
  <2>2. (EndpointsOf(old) \ kept) \cup (IF changed THEN kept ELSE {})
        = {e \in EndpointsOf(old) : changed \/ e \notin EndpointsOf(new)}
    OBVIOUS
  <2>3. computeExposeDeltas(old, new)
        = [unexpose |-> (EndpointsOf(old) \ kept) \cup (IF changed THEN kept ELSE {}),
           expose   |-> IF changed THEN EndpointsOf(new)
                        ELSE IF EndpointsOf(new) \ kept = {All} THEN {} ELSE EndpointsOf(new) \ kept]
    BY <1>3 DEF computeExposeDeltas
  <2> QED BY <1>3, <2>1, <2>2, <2>3
<1> QED BY <1>1, <1>2, <1>3

\* After the first call, an endpoint is exposed when it was, unless the call names
\* it, or "".
LEMMA UnexposeSets ==
  ASSUME TypeOK, Unexpose, NEW e \in Names
  PROVE  exposed'[e] = IF e \in Deltas.unexpose \/ All \in Deltas.unexpose THEN None ELSE exposed[e]
BY DEF TypeOK, Unexpose, Unexposed, Nowhere

LEMMA ExposeSets ==
  ASSUME TypeOK, Expose, NEW e \in Names
  PROVE  exposed'[e] = IF e \in Deltas.expose THEN SettingOf(plan) ELSE exposed[e]
BY DEF TypeOK, Expose, processExpose

\* What a read gives is a block whose names are the exposed ones, with spaces and
\* CIDRs of theirs.
LEMMA ReadIs ==
  ASSUME TypeOK, NEW B \in ReadBlocks
  PROVE  /\ B \in Block \cup {None}
         /\ B = None <=> \A e \in Names : exposed[e] = None
         /\ B # None => B.endpoints = {e \in Endpoints : exposed[e] # None}
         /\ B # None => B.spaces \in FirstOf("spaces") /\ B.cidrs \in FirstOf("cidrs")
<1>1. CASE Exposed = {}
  BY <1>1 DEF ReadBlocks, Exposed
<1>2. CASE Exposed # {}
  <2>1. B \in [endpoints : {Exposed \ {All}}, spaces : FirstOf("spaces"), cidrs : FirstOf("cidrs")]
    BY <1>2 DEF ReadBlocks
  <2>2. B = [endpoints |-> B.endpoints, spaces |-> B.spaces, cidrs |-> B.cidrs]
        /\ B.endpoints = Exposed \ {All} /\ B.spaces \in FirstOf("spaces") /\ B.cidrs \in FirstOf("cidrs")
    BY <2>1
  <2>3. Exposed \ {All} = {e \in Endpoints : exposed[e] # None}
    BY ExposureAssumption DEF Exposed, Names
  <2>4. \A e \in Exposed : exposed[e].spaces \in Spaces \cup {None} /\ exposed[e].cidrs \in CIDRs \cup {None}
    BY DEF TypeOK, Exposed, Setting
  <2>5. B.spaces \in Spaces \cup {None} /\ B.cidrs \in CIDRs \cup {None}
    BY <2>2, <2>4 DEF FirstOf
  <2>6. B \in Block
    BY <2>2, <2>3, <2>5 DEF Block
  <2> QED BY <1>2, <2>2, <2>3, <2>6, ExposureAssumption DEF Exposed
<1> QED BY <1>1, <1>2
\* What is exposed with one setting is read back as it is.
LEMMA ReadUniform ==
  ASSUME TypeOK, UniformInv, ~drifted, NEW B \in ReadBlocks, NEW e \in Names
  PROVE  exposed[e] = AsAsked(B)[e]
<1>1. PICK setting \in Setting : \A x \in Names : exposed[x] \in {None, setting}
  BY DEF UniformInv
<1>2. setting # None
  BY ExposureAssumption
<1>3. CASE B = None
  BY <1>3, ReadIs, AskedOf
<1>4. CASE B # None
  <2>1. B \in Block /\ B.endpoints = {x \in Endpoints : exposed[x] # None}
    BY <1>4, ReadIs
  <2>2. PICK x \in Names : exposed[x] # None
    BY <1>4, ReadIs
  <2>3. \A y \in Exposed : exposed[y] = setting
    BY <1>1 DEF Exposed
  <2>4. x \in Exposed
    BY <2>2 DEF Exposed
  <2>5. FirstOf("spaces") = {setting.spaces} /\ FirstOf("cidrs") = {setting.cidrs}
    <3>1. {exposed[y].spaces : y \in Exposed} = {setting.spaces}
      BY <2>3, <2>4
    <3>2. {exposed[y].cidrs : y \in Exposed} = {setting.cidrs}
      BY <2>3, <2>4
    <3> QED BY <3>1, <3>2 DEF FirstOf
  <2>6. B.spaces = setting.spaces /\ B.cidrs = setting.cidrs
    BY <1>4, <2>5, ReadIs
  <2>7. SettingOf(B) = setting
    BY <2>6 DEF SettingOf, Setting
  <2>8. e \in EndpointsOf(B) <=> exposed[e] # None
    <3>1. CASE e \in Endpoints
      BY <2>1, <3>1, BlockExposes
    <3>2. CASE e = All
      <4>1. B.endpoints = {} <=> \A y \in Endpoints : exposed[y] = None
        BY <2>1
      <4>2. exposed[All] # None => \A y \in Endpoints : exposed[y] = None
        BY DEF UniformInv
      <4>3. (\A y \in Endpoints : exposed[y] = None) => exposed[All] # None
        BY <2>2 DEF Names
      <4> QED BY <2>1, <3>2, <4>1, <4>2, <4>3, BlockExposes
    <3> QED BY <3>1, <3>2 DEF Names
  <2> QED BY <1>1, <1>4, <2>1, <2>7, <2>8, AskedOf
<1> QED BY <1>3, <1>4

-----------------------------------------------------------------------------
(* Every step keeps the invariant.                                         *)

LEMMA SpendCounts ==
  ASSUME TypeOK, NEW what \in {"changes", "faults"}, Spend(what)
  PROVE  budget' \in [changes : 0..MaxChanges, faults : 0..MaxFaults]
<1>1. MaxChanges \in Nat /\ MaxFaults \in Nat
  BY ExposureAssumption
<1>2. budget \in [changes : 0..MaxChanges, faults : 0..MaxFaults]
  BY DEF TypeOK
<1>3. CASE what = "changes"
  BY <1>1, <1>2, <1>3 DEF Spend
<1>4. CASE what = "faults"
  BY <1>1, <1>2, <1>4 DEF Spend
<1> QED BY <1>3, <1>4

LEMMA InitIInv == Init => IInv
<1> SUFFICES ASSUME Init PROVE IInv
  OBVIOUS
<1>1. TypeOK
  <2>1. \A e \in Names : AsAsked(wanted)[e] \in Setting \cup {None}
    BY AskedOf, BlockExposes DEF Init
  <2>2. AsAsked(wanted) = [e \in Names |-> AsAsked(wanted)[e]]
    BY DEF AsAsked, Nowhere
  <2>3. exposed \in [Names -> Setting \cup {None}]
    BY <2>1, <2>2 DEF Init
  <2>4. 0 \in Nat /\ MaxChanges \in 0..MaxChanges /\ MaxFaults \in 0..MaxFaults
    BY ExposureAssumption
  <2> QED BY <2>3, <2>4 DEF Init, TypeOK
<1>2. UniformInv
  <2>1. CASE wanted = None
    <3>1. \A e \in Names : exposed[e] = None
      BY <2>1, AskedOf DEF Init
    <3>2. [spaces |-> None, cidrs |-> None] \in Setting
      BY DEF Setting
    <3> QED BY <3>1, <3>2 DEF UniformInv, Names
  <2>2. CASE wanted # None
    <3>1. wanted \in Block
      BY <2>2 DEF Init
    <3>2. \A e \in Names : exposed[e] = IF e \in EndpointsOf(wanted) THEN SettingOf(wanted) ELSE None
      BY <2>2, <3>1, AskedOf DEF Init
    <3>3. exposed[All] # None => \A e \in Endpoints : exposed[e] = None
      BY <3>1, <3>2, BlockExposes, ExposureAssumption DEF Names
    <3> QED BY <3>1, <3>2, <3>3, BlockExposes DEF UniformInv
  <2> QED BY <2>1, <2>2
<1>3. ProgressInv /\ NamesInv
  BY DEF Init, ProgressInv, NamesInv
<1> QED BY <1>1, <1>2, <1>3 DEF IInv

LEMMA RefreshIInv ==
  ASSUME IInv, Refresh
  PROVE  IInv'
<1>1. /\ tfstate' \in ReadBlocks /\ plan' = wanted /\ pc' \in {"idle", "unexpose"}
      /\ UNCHANGED <<exposed, wanted, budget, drifted>>
  BY DEF Refresh
<1>2. TypeOK /\ UniformInv
  BY DEF IInv
<1>3. TypeOK'
  BY <1>1, <1>2, ReadIs DEF TypeOK
<1>4. UniformInv'
  BY <1>1, <1>2 DEF UniformInv
<1>5. ProgressInv'
  <2>1. ~drifted => \A e \in Names : exposed[e] = AsAsked(tfstate')[e]
    BY <1>1, <1>2, ReadUniform
  <2>2. ~drifted' => \A e \in Names : exposed'[e] = AsAsked(tfstate)'[e]
    BY <1>1, <2>1 DEF AsAsked, Nowhere
  <2> QED BY <1>1, <2>2 DEF ProgressInv
<1>6. NamesInv'
  BY <1>1, <1>2, ReadIs DEF NamesInv, Names
<1> QED BY <1>3, <1>4, <1>5, <1>6 DEF IInv
LEMMA UnexposeIInv ==
  ASSUME IInv, Unexpose
  PROVE  IInv'
<1>1. TypeOK /\ UniformInv /\ ProgressInv /\ NamesInv /\ pc = "unexpose" /\ pc' = "expose"
      /\ UNCHANGED <<wanted, tfstate, plan, budget, drifted>>
  BY DEF IInv, Unexpose
<1>2. tfstate \in Block \cup {None} /\ plan \in Block \cup {None}
  BY <1>1 DEF TypeOK
<1> DEFINE Gone(e) == e \in Deltas.unexpose \/ All \in Deltas.unexpose
<1>3. \A e \in Names : exposed'[e] = IF Gone(e) THEN None ELSE exposed[e]
  BY <1>1, UnexposeSets
<1> DEFINE Left == {x \in EndpointsOf(tfstate) :
                       SettingOf(plan) # SettingOf(tfstate) \/ x \notin EndpointsOf(plan)}
<1>4. \A e \in Names : /\ plan = None => Gone(e)
                       /\ plan # None /\ tfstate = None => ~Gone(e)
                       /\ plan # None /\ tfstate # None => (Gone(e) <=> e \in Left \/ All \in Left)
  <2>1. /\ plan = None => Deltas.unexpose = {All}
        /\ plan # None /\ tfstate = None => Deltas.unexpose = {}
        /\ plan # None /\ tfstate # None => Deltas.unexpose = Left
    BY <1>2, DeltasAre DEF Deltas
  <2> QED BY <2>1
<1> HIDE DEF Gone
<1>5. TypeOK'
  <2>1. exposed' \in [Names -> Setting \cup {None}]
    BY <1>1 DEF TypeOK, Unexpose, Unexposed, Nowhere
  <2> QED BY <1>1, <2>1 DEF TypeOK
<1>6. UniformInv'
  BY <1>1, <1>3 DEF UniformInv, Names
<1>7. ProgressInv'
  <2> SUFFICES ASSUME ~drifted, NEW e \in Names
               PROVE  exposed'[e] = IF AsAsked(tfstate)[e] = AsAsked(plan)[e] THEN AsAsked(plan)[e] ELSE None
    BY <1>1 DEF ProgressInv, AsAsked, Nowhere
  <2>1. exposed[e] = AsAsked(tfstate)[e]
    BY <1>1 DEF ProgressInv
  <2>2. CASE plan = None
    BY <1>2, <1>3, <1>4, <2>2, AskedOf
  <2>3. CASE plan # None /\ tfstate = None
    BY <1>2, <1>3, <1>4, <2>1, <2>3, AskedOf, BlockExposes
  <2>4. CASE plan # None /\ tfstate # None
    <3>1. tfstate \in Block /\ plan \in Block
      BY <1>2, <2>4
    <3>2. /\ AsAsked(tfstate)[e] = IF e \in EndpointsOf(tfstate) THEN SettingOf(tfstate) ELSE None
          /\ AsAsked(plan)[e] = IF e \in EndpointsOf(plan) THEN SettingOf(plan) ELSE None
      BY <2>4, <3>1, AskedOf
    <3>3. SettingOf(tfstate) # None /\ SettingOf(plan) # None
      BY <3>1, BlockExposes
    <3>4. CASE e \in EndpointsOf(tfstate)
      <4>1. All \in EndpointsOf(tfstate) => e = All
        BY <3>1, <3>4, BlockExposes
      <4>2. Gone(e) <=> SettingOf(plan) # SettingOf(tfstate) \/ e \notin EndpointsOf(plan)
        BY <1>4, <2>4, <3>4, <4>1
      <4> QED BY <1>3, <2>1, <3>2, <3>3, <3>4, <4>2
    <3>5. CASE e \notin EndpointsOf(tfstate)
      BY <1>3, <2>1, <3>2, <3>3, <3>5
    <3> QED BY <3>4, <3>5
  <2> QED BY <2>2, <2>3, <2>4
<1>8. NamesInv'
  <2> SUFFICES ASSUME NEW e \in Endpoints
               PROVE  exposed'[e] # None <=> /\ tfstate # None /\ e \in tfstate.endpoints
                                             /\ plan # None /\ e \in plan.endpoints
                                             /\ SettingOf(plan) = SettingOf(tfstate)
    BY <1>1 DEF NamesInv, SettingOf
  <2>1. e \in Names /\ e # All
    BY ExposureAssumption DEF Names
  <2>2. exposed[e] # None <=> tfstate # None /\ e \in tfstate.endpoints
    BY <1>1 DEF NamesInv
  <2>3. CASE plan = None
    BY <1>3, <1>4, <2>1, <2>3
  <2>4. CASE tfstate = None
    BY <1>3, <2>1, <2>2, <2>4
  <2>5. CASE plan # None /\ tfstate # None
    <3>1. tfstate \in Block /\ plan \in Block
      BY <1>2, <2>5
    <3>2. CASE e \in tfstate.endpoints
      <4>1. e \in EndpointsOf(tfstate) /\ All \notin EndpointsOf(tfstate) /\ (e \in EndpointsOf(plan) <=> e \in plan.endpoints)
        BY <3>1, <3>2, BlockExposes
      <4>2. Gone(e) <=> SettingOf(plan) # SettingOf(tfstate) \/ e \notin plan.endpoints
        BY <1>4, <2>1, <2>5, <4>1
      <4> QED BY <1>3, <2>1, <2>2, <2>5, <3>2, <4>2
    <3>3. CASE e \notin tfstate.endpoints
      BY <1>3, <2>1, <2>2, <3>3
    <3> QED BY <3>2, <3>3
  <2> QED BY <2>3, <2>4, <2>5
<1> QED BY <1>5, <1>6, <1>7, <1>8 DEF IInv

LEMMA ExposeIInv ==
  ASSUME IInv, Expose
  PROVE  IInv'
<1>1. TypeOK /\ UniformInv /\ ProgressInv /\ NamesInv /\ pc = "expose" /\ pc' = "rest"
      /\ UNCHANGED <<wanted, tfstate, plan, budget, drifted>>
  BY DEF IInv, Expose
<1>2. tfstate \in Block \cup {None} /\ plan \in Block \cup {None}
  BY <1>1 DEF TypeOK
<1> DEFINE new == Deltas.expose
           same == SettingOf(plan) = SettingOf(tfstate)
<1>3. \A e \in Names : exposed'[e] = IF e \in new THEN SettingOf(plan) ELSE exposed[e]
  BY <1>1, ExposeSets
<1>4. /\ plan = None => new = {}
      /\ plan # None /\ tfstate = None => new = EndpointsOf(plan)
      /\ plan # None /\ tfstate # None /\ ~same => new = EndpointsOf(plan)
      /\ plan # None /\ tfstate # None /\ same =>
            new = IF EndpointsOf(plan) \ EndpointsOf(tfstate) = {All} THEN {} ELSE EndpointsOf(plan) \ EndpointsOf(tfstate)
  BY <1>2, DeltasAre DEF Deltas
<1>5. new \subseteq Names /\ (new # {} => plan \in Block)
  BY <1>2, <1>4, BlockExposes
<1> HIDE DEF new
<1>6. TypeOK'
  <2>1. \A e \in Names : exposed'[e] \in Setting \cup {None}
    BY <1>1, <1>3, <1>5, BlockExposes DEF TypeOK
  <2>2. exposed' = [e \in Names |-> exposed'[e]]
    BY <1>1 DEF Expose, processExpose
  <2>3. exposed' \in [Names -> Setting \cup {None}]
    BY <2>1, <2>2
  <2> QED BY <1>1, <2>3 DEF TypeOK
\* At every endpoint: what the plan asks, or nothing where the plan asks for "" and
\* the state had others.
<1>7. ASSUME ~drifted, NEW e \in Names
      PROVE  \/ exposed'[e] = AsAsked(plan)[e]
             \/ /\ exposed'[e] = None /\ AsAsked(tfstate)[e] # AsAsked(plan)[e]
  <2>1. exposed[e] = IF AsAsked(tfstate)[e] = AsAsked(plan)[e] THEN AsAsked(plan)[e] ELSE None
    BY <1>1, <1>7 DEF ProgressInv
  <2>2. CASE e \in new
    <3>1. plan \in Block /\ plan # None /\ e \in EndpointsOf(plan)
      BY <1>2, <1>4, <1>5, <2>2, BlockExposes
    <3> QED BY <1>3, <2>2, <3>1, AskedOf
  <2>3. CASE e \notin new
    BY <1>3, <2>1, <2>3
  <2> QED BY <2>2, <2>3
<1>8. ProgressInv'
  BY <1>1, <1>7 DEF ProgressInv, AsAsked, Nowhere
<1>9. UniformInv'
  <2> SUFFICES ASSUME ~drifted
               PROVE  /\ \E setting \in Setting : \A e \in Names : exposed'[e] \in {None, setting}
                      /\ exposed'[All] # None => \A e \in Endpoints : exposed'[e] = None
    BY <1>1 DEF UniformInv
  <2>1. CASE plan = None
    <3>1. \A e \in Names : exposed'[e] = exposed[e]
      BY <1>3, <1>4, <2>1
    <3> QED BY <1>1, <3>1 DEF UniformInv, Names
  <2>2. CASE plan # None
    <3>1. plan \in Block
      BY <1>2, <2>2
    <3>2. \A e \in Names : exposed'[e] = None \/ (exposed'[e] = SettingOf(plan) /\ e \in EndpointsOf(plan))
      BY <1>2, <1>7, <2>2, AskedOf
    <3>3. All \in EndpointsOf(plan) => \A e \in Endpoints : e \notin EndpointsOf(plan)
      BY <3>1, BlockExposes
    <3> QED BY <3>1, <3>2, <3>3, BlockExposes DEF Names
  <2> QED BY <2>1, <2>2
<1>10. NamesInv'
  <2> SUFFICES ASSUME NEW e \in Endpoints
               PROVE  exposed'[e] # None <=> plan # None /\ e \in plan.endpoints
    BY <1>1 DEF NamesInv
  <2>1. e \in Names /\ e # All
    BY ExposureAssumption DEF Names
  <2>2. exposed[e] # None <=> /\ tfstate # None /\ e \in tfstate.endpoints
                              /\ plan # None /\ e \in plan.endpoints /\ same
    BY <1>1 DEF NamesInv
  <2>3. CASE plan = None
    BY <1>3, <1>4, <2>1, <2>2, <2>3
  <2>4. CASE plan # None
    <3>1. plan \in Block /\ (e \in EndpointsOf(plan) <=> e \in plan.endpoints) /\ SettingOf(plan) # None
      BY <1>2, <2>4, BlockExposes
    <3>2. e \in new => e \in EndpointsOf(plan)
      BY <1>2, <1>4, <2>4
    <3>3. e \in EndpointsOf(plan) => e \in new \/ exposed[e] # None
      <4>1. CASE tfstate = None \/ ~same
        BY <1>4, <2>4, <4>1
      <4>2. CASE tfstate # None /\ same
        <5>1. tfstate \in Block /\ (e \in EndpointsOf(tfstate) <=> e \in tfstate.endpoints)
          BY <1>2, <4>2, BlockExposes
        <5> QED BY <1>4, <2>1, <2>2, <2>4, <3>1, <4>2, <5>1
      <4> QED BY <4>1, <4>2
    <3> QED BY <1>3, <2>1, <2>2, <3>1, <3>2, <3>3, <2>4
  <2> QED BY <2>3, <2>4
<1> QED BY <1>6, <1>8, <1>9, <1>10 DEF IInv
\* Between two applies nothing is owed: what an operator or the user does there,
\* and an apply that ends, keep the invariant.
LEMMA IdleIInv ==
  ASSUME IInv,
         \/ Finish \/ Fail
         \/ \E block \in Block \cup {None} : Edit(block)
         \/ \E e \in Names, setting \in Setting \cup {None} : ChangeOutside(e, setting)
  PROVE  IInv'
<1>1. TypeOK /\ UniformInv
  BY DEF IInv
<1>2. pc' = "idle"
  BY DEF Finish, Fail, Edit, ChangeOutside
<1>3. ProgressInv' /\ NamesInv'
  BY <1>2 DEF ProgressInv, NamesInv
<1>4. TypeOK'
  <2>1. CASE Finish
    BY <1>1, <2>1 DEF Finish, TypeOK
  <2>2. CASE Fail
    BY <1>1, <2>2, SpendCounts DEF Fail, TypeOK
  <2>3. ASSUME NEW block \in Block \cup {None}, Edit(block) PROVE TypeOK'
    BY <1>1, <2>3, SpendCounts DEF Edit, TypeOK
  <2>4. ASSUME NEW e \in Names, NEW setting \in Setting \cup {None}, ChangeOutside(e, setting) PROVE TypeOK'
    <3>1. budget' \in [changes : 0..MaxChanges, faults : 0..MaxFaults]
      BY <1>1, <2>4, SpendCounts DEF ChangeOutside
    <3> QED BY <1>1, <2>4, <3>1 DEF ChangeOutside, TypeOK
  <2> QED BY <2>1, <2>2, <2>3, <2>4
<1>5. UniformInv'
  BY <1>1 DEF UniformInv, Finish, Fail, Edit, ChangeOutside
<1> QED BY <1>3, <1>4, <1>5 DEF IInv

LEMMA IInvStep == IInv /\ [Next]_vars => IInv'
<1> SUFFICES ASSUME IInv, [Next]_vars PROVE IInv'
  OBVIOUS
<1>1. CASE Next
  BY <1>1, RefreshIInv, UnexposeIInv, ExposeIInv, IdleIInv DEF Next, Apply
<1>2. CASE UNCHANGED vars
  BY <1>2 DEF vars, IInv, TypeOK, UniformInv, ProgressInv, NamesInv, AsAsked, Nowhere
<1> QED BY <1>1, <1>2

LEMMA IInvHolds == Spec => []IInv
BY InitIInv, IInvStep, PTL DEF Spec

-----------------------------------------------------------------------------
\* What is exposed, the blocks and the counters keep their types: a read gives a
\* block (ReadApplication, applications.go).
THEOREM Typing == Spec => []TypeOK
BY IInvHolds, PTL DEF IInv

\* Between the two calls of an update, as before and after them, an endpoint is
\* exposed to nothing but what the state or the plan says, whatever the blocks,
\* and from whatever half-made update the apply before has left.
THEOREM ExposesNothingUnasked == Spec => []NothingUnasked
<1>1. IInv => NothingUnasked
  <2> SUFFICES ASSUME IInv, pc # "idle", ~drifted, NEW e \in Names
               PROVE  exposed[e] \in {None, AsAsked(tfstate)[e], AsAsked(plan)[e]}
    BY DEF NothingUnasked
  <2> QED BY DEF IInv, TypeOK, ProgressInv
<1> QED BY <1>1, IInvHolds, PTL

\* computeExposeDeltas leaves alone what state and plan have in common: it is never
\* unexposed, not even to be exposed anew.
THEOREM LeavesNoGap == Spec => []NoGap
<1>1. IInv => NoGap
  <2> SUFFICES ASSUME IInv, pc # "idle", ~drifted, NEW e \in Names, AsAsked(tfstate)[e] = AsAsked(plan)[e]
               PROVE  exposed[e] = AsAsked(plan)[e]
    BY DEF NoGap
  <2> QED BY DEF IInv, TypeOK, ProgressInv
<1> QED BY <1>1, IInvHolds, PTL

\* An update that succeeds leaves exactly the named endpoints of the plan exposed,
\* though the state it started from folds what an operator exposed into one block.
THEOREM UpdateBringsNames == Spec => UpdateSetsNames
<1>1. IInv /\ [Next]_vars =>
        [Finish => \A e \in Endpoints : exposed[e] # None <=> plan # None /\ e \in plan.endpoints]_vars
  BY DEF IInv, NamesInv, Finish
<1> QED BY <1>1, IInvHolds, PTL DEF Spec, UpdateSetsNames
=============================================================================
