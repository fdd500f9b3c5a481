-------------------------- MODULE IntegrationProofs --------------------------
(***************************************************************************)
(* What juju_integration resources guarantee while they share a cached     *)
(* status that every reader may write to.  The invariant says what a       *)
(* status, however old, still proves about the controller: a relation that *)
(* a status in use does not list has been off the controller in this run.  *)
(***************************************************************************)
EXTENDS Integration, TLAPS

EndpointSlices == {<< >>} \cup [1..2 -> Sides]
Statuses == [endpoints : [Relations -> EndpointSlices], offerers : SUBSET RemoteApps]
Results  == {"none", "error", "created", "ok", "notFound", "deleted", "skipped"}

\* The types that TypeOK leaves out.
DataInv ==
  /\ heap \in [Objects -> Statuses]
  /\ id \in [Handlers -> (Apps \X Apps) \cup {None}]
  /\ outcome \in [Relations -> [result : Results, offers : SUBSET Apps]]

\* One fetch at a time, and it is that of the handler that others wait for.
FlightInv == \A h \in Handlers : pc[h] \in {"asking", "answered"} <=> inFlight = h

\* What each operation began with, for as long as it runs.
Reverse(i) == <<i[2], i[1]>>

OpInv ==
  \A r \in Relations :
    /\ pc[r] = "consumed" => op[r] = "create"
    /\ pc[r] # "idle" /\ op[r] = "create" => tfstate[r] = None /\ touched[r] = "created"
    /\ pc[r] # "idle" /\ op[r] = "import" => tfstate[r] = None /\ id[r] \in {IDOf(r), Reverse(IDOf(r))}
    /\ pc[r] # "idle" /\ op[r] \in {"read", "delete"} => tfstate[r] # None /\ id[r] = IDOf(r)
    /\ pc[r] # "idle" /\ op[r] = "delete" => touched[r] = "deleted"
    /\ phase # "apply" => touched[r] = "no"

\* A relation that a status in use does not list has been off the controller in
\* this run, and only this run's Create brings one back.
Held(o) == cached = o \/ \E h \in Handlers : ptr[h] = o

StaleInv ==
  \A r \in Relations :
    /\ relations[r] = "none" => r \in absent
    /\ r \in absent /\ touched[r] # "created" => relations[r] = "none"
    /\ \A o \in Objects : Held(o) /\ heap[o].endpoints[r] = << >> => r \in absent

IInv == TypeOK /\ DataInv /\ FlightInv /\ OpInv /\ StaleInv /\ IDsFindRelations
-----------------------------------------------------------------------------
(* Identities.                                                             *)

LEMMA IDType ==
  ASSUME NEW r \in Relations
  PROVE  IDOf(r) \in Apps \X Apps /\ Reverse(IDOf(r)) \in Apps \X Apps
BY IntegrationAssumption DEF IDOf, Reverse, Apps, Sides

\* Whatever their order, the applications of the two sides give the relation's ID.
LEMMA NewID ==
  ASSUME NEW r \in Relations, NEW x, NEW y
  PROVE  /\ newIDForIntegrationResource(<<Application(r, "requirer", x), Application(r, "provider", y)>>) = IDOf(r)
         /\ newIDForIntegrationResource(<<Application(r, "provider", y), Application(r, "requirer", x)>>) = IDOf(r)
<1> DEFINE apps == <<Application(r, "requirer", x), Application(r, "provider", y)>>
           spps == <<Application(r, "provider", y), Application(r, "requirer", x)>>
           Last(as, role) == {i \in 1..2 : as[i].role = role /\ \A j \in i+1..2 : as[j].role # role}
<1>1. Last(apps, "provider") = {2} /\ Last(apps, "requirer") = {1}
  BY DEF Application
<1>2. Last(spps, "provider") = {1} /\ Last(spps, "requirer") = {2}
  BY DEF Application
<1>3. \A i : (CHOOSE j \in {i} : TRUE) = i /\ {i} # {}
  OBVIOUS
<1>4. newIDForIntegrationResource(apps) = <<apps[2].name, apps[1].name>>
  BY <1>1, <1>3, Zenon DEF newIDForIntegrationResource
<1>5. newIDForIntegrationResource(spps) = <<spps[1].name, spps[2].name>>
  BY <1>2, <1>3, Zenon DEF newIDForIntegrationResource
<1> QED BY <1>4, <1>5 DEF Application, IDOf

LEMMA CreatedID ==
  ASSUME NEW r \in Relations, NEW offerers, NEW apps \in CreatedApplications(r, offerers)
  PROVE  newIDForIntegrationResource(apps) = IDOf(r)
BY NewID DEF CreatedApplications

\* Read finds the relation by its own ID and by no other's, nor by its reverse.
LEMMA KeyIsOwn ==
  ASSUME NEW r \in Relations, NEW status,
         NEW i \in {IDOf(r), Reverse(IDOf(r))}, WithKey(status, i) # {}
  PROVE  i = IDOf(r)
<1>1. PICK q \in Relations : IDOf(q) = i
  BY DEF WithKey
<1>2. CASE i = Reverse(IDOf(r))
  <2>1. AppOf[r]["requirer"] = AppOf[q]["provider"] /\ AppOf[r]["provider"] = AppOf[q]["requirer"]
    BY <1>1, <1>2 DEF IDOf, Reverse
  <2>2. r = q
    BY <2>1, IntegrationAssumption
  <2> QED BY <1>1, <2>2
<1> QED BY <1>2

LEMMA OwnKey ==
  ASSUME NEW r \in Relations, NEW status
  PROVE  WithKey(status, IDOf(r)) = {} => status.endpoints[r] = << >>
BY DEF WithKey

-----------------------------------------------------------------------------
(* Status objects.                                                         *)

\* After a step, a status in use is the controller's own or one that was in use,
\* and it lists no relation less.
Kept ==
  /\ heap' \in [Objects -> Statuses]
  /\ \A o \in Objects, r \in Relations :
       Held(o)' /\ heap'[o].endpoints[r] = << >> =>
         relations[r] = "none" \/ (Held(o) /\ heap[o].endpoints[r] = << >>)

LEMMA StatusTypes ==
  ASSUME TypeOK
  PROVE  EmptyStatus \in Statuses /\ Snapshot \in Statuses
<1>1. << >> \in EndpointSlices /\ <<"requirer", "provider">> \in EndpointSlices
  BY DEF EndpointSlices, Sides
<1>2. [r \in Relations |-> << >>] \in [Relations -> EndpointSlices]
  BY <1>1
<1>3. [r \in Relations |-> IF relations[r] = "none" THEN << >> ELSE <<"requirer", "provider">>]
        \in [Relations -> EndpointSlices]
  BY <1>1
<1> QED BY <1>2, <1>3 DEF TypeOK, Statuses, EmptyStatus, Snapshot

LEMMA CollectedKeeps ==
  ASSUME TypeOK, NEW objects \in [Objects -> Statuses], Collected(objects)
  PROVE  /\ heap' \in [Objects -> Statuses]
         /\ \A o \in Objects : Held(o)' => heap'[o] = objects[o]
BY StatusTypes DEF Collected, InUse, Held

\* The remote endpoint gives way to another one: there are two of them still.
LEMMA ShortenedType ==
  ASSUME NEW r, NEW eps \in EndpointSlices, NEW offerers
  PROVE  /\ Shortened(r, eps, offerers) \in EndpointSlices
         /\ Shortened(r, eps, offerers) = << >> <=> eps = << >>
<1>1. CASE eps = << >>
  <2>1. DOMAIN eps = {}
    BY <1>1
  <2>2. Shortened(r, eps, offerers) = << >>
    BY <2>1 DEF Shortened
  <2> QED BY <1>1, <2>2
<1>2. CASE eps \in [1..2 -> Sides]
  <2>1. DOMAIN eps = 1..2 /\ Len(eps) = 2 /\ eps[2] \in Sides
    BY <1>2
  <2>2. Shortened(r, eps, offerers) \in [1..2 -> Sides]
    BY <1>2, <2>1 DEF Shortened
  <2>3. \A e \in [1..2 -> Sides] : e # << >>
    <3>1. DOMAIN << >> = {} /\ 1 \in 1..2
      OBVIOUS
    <3> QED BY <3>1
  <2> QED BY <1>2, <2>2, <2>3 DEF EndpointSlices
<1> QED BY <1>1, <1>2 DEF EndpointSlices

LEMMA ParseKeeps ==
  ASSUME TypeOK, DataInv, NEW h \in Handlers, pc[h] = "use", NEW rs, Parse(h, rs)
  PROVE  /\ heap' \in [Objects -> Statuses]
         /\ \A o \in Objects, r \in Relations :
              Held(o)' => (heap'[o].endpoints[r] = << >> <=> heap[o].endpoints[r] = << >>)
<1> DEFINE was    == heap[ptr[h]]
           parsed == [r \in Relations |-> IF r \in rs THEN Shortened(r, was.endpoints[r], was.offerers)
                                          ELSE was.endpoints[r]]
           objects == [heap EXCEPT ![ptr[h]].endpoints = parsed]
<1>1. ptr[h] \in Objects
  BY DEF TypeOK
<1>2. was \in Statuses
  BY <1>1 DEF DataInv
<1>3. parsed \in [Relations -> EndpointSlices]
  BY <1>2, ShortenedType DEF Statuses
<1>4. \A r \in Relations : parsed[r] = << >> <=> was.endpoints[r] = << >>
  BY <1>2, ShortenedType DEF Statuses
<1>5. Collected(objects)
  BY DEF Parse, Status
<1> HIDE DEF parsed
<1>6. objects \in [Objects -> Statuses]
  BY <1>1, <1>2, <1>3 DEF DataInv, Statuses
<1>7. \A o \in Objects : objects[o].endpoints = IF o = ptr[h] THEN parsed ELSE heap[o].endpoints
  BY <1>1, <1>2 DEF DataInv, Statuses
<1> HIDE DEF objects
<1> QED BY <1>4, <1>5, <1>6, <1>7, CollectedKeeps

LEMMA NoneIsNoObject ==
  None \notin Objects /\ None \notin Handlers /\ Relations \subseteq Handlers /\ Listers \subseteq Handlers
BY IntegrationAssumption DEF Handlers

\* A handler that parses a status and lets it go.
LEMMA ParseLetsGo ==
  ASSUME TypeOK, DataInv, NEW h \in Handlers, pc[h] = "use", NEW rs, Parse(h, rs),
         cached' = cached, ptr' = [ptr EXCEPT ![h] = None]
  PROVE  Kept
<1>1. \A o \in Objects : Held(o)' => Held(o)
  BY NoneIsNoObject DEF Held, TypeOK
<1> QED BY <1>1, ParseKeeps DEF Kept

LEMMA HeapKept ==
  ASSUME IInv, Next
  PROVE  Kept
<1> USE DEF IInv
<1>1. ASSUME UNCHANGED cacheVars PROVE Kept
  BY <1>1 DEF cacheVars, Kept, Held, DataInv
<1>2. ASSUME NEW r \in Relations, UNCHANGED <<heap, cached>>, ptr' = [ptr EXCEPT ![r] = None] PROVE Kept
  BY <1>2, NoneIsNoObject DEF Kept, Held, DataInv, TypeOK
<1>3. ASSUME NEW r \in Relations,
             \/ BeginRead(r) \/ (\E i \in Apps \X Apps : BeginImport(r, i))
             \/ ConsumeRemoteOffer(r) \/ AddRelation(r) \/ DestroyRelation(r) \/ DestroyRelationFails(r)
             \/ RelationGone(r) \/ RemoveOutside(r)
      PROVE  Kept
  BY <1>1, <1>3 DEF BeginRead, BeginImport, ConsumeRemoteOffer, AddRelation, DestroyRelation,
       DestroyRelationFails, RelationGone, RemoveOutside
<1>4. ASSUME NEW r \in Relations, AddRelationFails(r) \/ GiveUp(r) PROVE Kept
  BY <1>2, <1>4 DEF AddRelationFails, GiveUp, Return, ReturnOffers
<1>5. ASSUME NEW r \in Relations, ReportCreated(r) PROVE Kept
  BY <1>5, ParseLetsGo, NoneIsNoObject DEF ReportCreated, ReturnOffers
<1>6. ASSUME NEW r \in Relations, ReportRead(r) PROVE Kept
  BY <1>6, ParseLetsGo, NoneIsNoObject DEF ReportRead, Return, ReturnOffers
<1>7. ASSUME NEW r \in Relations, ReportNotFound(r) PROVE Kept
  BY <1>7, ParseLetsGo, NoneIsNoObject DEF ReportNotFound, Return, ReturnOffers
<1>8. ASSUME NEW r \in Relations, PollAgain(r) PROVE Kept
  <2>1. CASE UNCHANGED heap
    BY <1>2, <1>8, <2>1 DEF PollAgain
  <2>2. CASE pc[r] = "use" /\ Parse(r, WithKey(Status(r), id[r]))
    BY <1>8, <2>2, ParseLetsGo, NoneIsNoObject DEF PollAgain
  <2> QED BY <1>8, <2>1, <2>2 DEF PollAgain
<1>9. ASSUME NEW l \in Listers, BeginList(l) PROVE Kept
  BY <1>1, <1>9 DEF BeginList
<1>10. ASSUME NEW l \in Listers, ReportList(l) PROVE Kept
  <2>1. pc[l] = "use" /\ cached' = cached /\ ptr' = [ptr EXCEPT ![l] = None]
    BY <1>10 DEF ReportList
  <2>2. \E rs : Parse(l, rs)
    BY <1>10 DEF ReportList
  <2> QED BY <2>1, <2>2, ParseLetsGo, NoneIsNoObject
<1>11. ASSUME NEW h \in Handlers, Hit(h) PROVE Kept
  BY <1>11 DEF Hit, Kept, Held, DataInv, TypeOK
<1>12. ASSUME NEW h \in Handlers, Join(h) \/ Fetch(h) \/ FetchFails(h) PROVE Kept
  BY <1>12 DEF Join, Fetch, FetchFails, cacheVars, Kept, Held, DataInv
<1>13. ASSUME NEW h \in Handlers, Answer(h) PROVE Kept
  <2>1. PICK o \in Objects : /\ ptr' = [ptr EXCEPT ![h] = o]
                             /\ heap' = [heap EXCEPT ![o] = Snapshot]
    BY <1>13 DEF Answer
  <2>2. heap' \in [Objects -> Statuses]
    BY <2>1, StatusTypes DEF DataInv
  <2>3. \A r \in Relations : Snapshot.endpoints[r] = << >> => relations[r] = "none"
    <3>1. << >> # <<"requirer", "provider">>
      OBVIOUS
    <3> QED BY <3>1 DEF Snapshot
  <2>4. heap'[o] = Snapshot /\ \A p \in Objects \ {o} : heap'[p] = heap[p] /\ (Held(p)' => Held(p))
    BY <1>13, <2>1 DEF DataInv, Held, TypeOK, Answer
  <2> QED BY <2>2, <2>3, <2>4 DEF Kept
<1>14. ASSUME NEW h \in Handlers, Store(h) PROVE Kept
  BY <1>14 DEF Store, Kept, Held, DataInv, TypeOK
<1>15. ASSUME NEW h \in Handlers, ReportFailure(h) PROVE Kept
  <2>1. CASE h \in Listers
    BY <1>1, <1>15, <2>1 DEF ReportFailure, cacheVars
  <2>2. CASE h \notin Listers
    BY <1>2, <1>15, <2>2 DEF ReportFailure, Return, ReturnOffers, Handlers
  <2> QED BY <2>1, <2>2
<1>16. ASSUME Expire PROVE Kept
  BY <1>16, CollectedKeeps, NoneIsNoObject DEF Expire, Kept, Held, DataInv
<1>17. ASSUME NEW p, NextPhase(p) PROVE Kept
  <2>1. CASE UNCHANGED cacheVars
    BY <1>1, <2>1
  <2>2. CASE cached' = None /\ UNCHANGED ptr /\ Collected(heap)
    BY <2>2, CollectedKeeps, NoneIsNoObject DEF Kept, Held, DataInv
  <2> QED BY <1>17, <2>1, <2>2 DEF NextPhase
<1> QED BY <1>3, <1>4, <1>5, <1>6, <1>7, <1>8, <1>9, <1>10, <1>11, <1>12, <1>13, <1>14, <1>15, <1>16, <1>17
        DEF Next, ModelStatus

-----------------------------------------------------------------------------
(* Every step keeps the invariant.                                         *)

LEMMA InitIInv == Init => IInv
<1> SUFFICES ASSUME Init PROVE IInv
  OBVIOUS
<1> USE NoneIsNoObject DEF Init
<1>1. saas \subseteq RemoteApps
  BY DEF OffersOf
<1>2. \A r \in Relations : relations[r] # "dying"
  OBVIOUS
<1>3. tfstate \in [Relations -> (Apps \X Apps) \cup {None}]
  BY IDType
<1>4. TypeOK
  BY <1>1, <1>3 DEF TypeOK
<1>5. DataInv
  BY <1>4, StatusTypes DEF DataInv, Nothing, Results
<1>6. FlightInv
  BY DEF FlightInv
<1>7. OpInv
  BY DEF OpInv, Handlers
<1>8. StaleInv
  BY DEF StaleInv, Held
<1>9. IDsFindRelations
  BY DEF IDsFindRelations
<1> QED BY <1>4, <1>5, <1>6, <1>7, <1>8, <1>9 DEF IInv

\* The handlers' places and the fetch under way.
Places ==
  /\ pc' \in [Handlers -> {"idle", "consumed", "get", "joined", "asking", "answered", "use", "failed"}]
  /\ ptr' \in [Handlers -> Objects \cup {None}]
  /\ \A h \in Handlers : pc'[h] \in {"answered", "use"} <=> ptr'[h] # None
  /\ inFlight' \in Handlers \cup {None}
  /\ FlightInv'

LEMMA PlacesKept ==
  ASSUME IInv, Next
  PROVE  Places
<1> USE NoneIsNoObject DEF Places, FlightInv, TypeOK, IInv, Goto, Begin, Return, ReturnOffers
<1>1. ASSUME NEW r \in Relations, BeginRead(r) PROVE Places
  BY <1>1 DEF BeginRead, cacheVars
<1>2. ASSUME NEW r \in Relations, NEW i, BeginImport(r, i) PROVE Places
  BY <1>2 DEF BeginImport, cacheVars
<1>3. ASSUME NEW r \in Relations, ConsumeRemoteOffer(r) PROVE Places
  BY <1>3 DEF ConsumeRemoteOffer, cacheVars
<1>4. ASSUME NEW r \in Relations, AddRelation(r) PROVE Places
  BY <1>4 DEF AddRelation, cacheVars
<1>5. ASSUME NEW r \in Relations, AddRelationFails(r) PROVE Places
  BY <1>5 DEF AddRelationFails
<1>6. ASSUME NEW r \in Relations, DestroyRelation(r) PROVE Places
  BY <1>6 DEF DestroyRelation, cacheVars
<1>7. ASSUME NEW r \in Relations, DestroyRelationFails(r) \/ RelationGone(r) \/ RemoveOutside(r) PROVE Places
  BY <1>7 DEF DestroyRelationFails, RelationGone, RemoveOutside, cacheVars
<1>8. ASSUME NEW r \in Relations, ReportCreated(r) PROVE Places
  BY <1>8 DEF ReportCreated
<1>9. ASSUME NEW r \in Relations, ReportRead(r) PROVE Places
  BY <1>9 DEF ReportRead
<1>10. ASSUME NEW r \in Relations, ReportNotFound(r) PROVE Places
  BY <1>10 DEF ReportNotFound
<1>11. ASSUME NEW r \in Relations, PollAgain(r) PROVE Places
  BY <1>11 DEF PollAgain
<1>12. ASSUME NEW r \in Relations, GiveUp(r) PROVE Places
  BY <1>12 DEF GiveUp
<1>13. ASSUME NEW l \in Listers, BeginList(l) PROVE Places
  BY <1>13 DEF BeginList, cacheVars
<1>14. ASSUME NEW l \in Listers, ReportList(l) PROVE Places
  BY <1>14 DEF ReportList
<1>15. ASSUME NEW h \in Handlers, Hit(h) PROVE Places
  BY <1>15 DEF Hit
<1>16. ASSUME NEW h \in Handlers, Join(h) PROVE Places
  BY <1>16 DEF Join, cacheVars
<1>17. ASSUME NEW h \in Handlers, Fetch(h) PROVE Places
  BY <1>17 DEF Fetch
<1>18. ASSUME NEW h \in Handlers, Answer(h) PROVE Places
  BY <1>18 DEF Answer
<1>19. ASSUME NEW h \in Handlers, Store(h) PROVE Places
  BY <1>19 DEF Store, Joined
<1>20. ASSUME NEW h \in Handlers, FetchFails(h) PROVE Places
  BY <1>20 DEF FetchFails, Joined
<1>21. ASSUME NEW h \in Handlers, ReportFailure(h) PROVE Places
  <2>1. CASE h \in Listers
    BY <1>21, <2>1 DEF ReportFailure
  <2>2. CASE h \notin Listers
    BY <1>21, <2>2 DEF ReportFailure, Handlers
  <2> QED BY <2>1, <2>2
<1>22. ASSUME Expire PROVE Places
  BY <1>22 DEF Expire
<1>23. ASSUME NEW p, NextPhase(p) PROVE Places
  <2>1. UNCHANGED <<pc, ptr, inFlight>>
    BY <1>23 DEF NextPhase, cacheVars
  <2> QED BY <2>1
<1> QED BY <1>1, <1>2, <1>3, <1>4, <1>5, <1>6, <1>7, <1>8, <1>9, <1>10, <1>11, <1>12, <1>13, <1>14, <1>15,
           <1>16, <1>17, <1>18, <1>19, <1>20, <1>21, <1>22, <1>23 DEF Next, ModelStatus

\* The controller, the state and what the operations work with.
Rest ==
  /\ relations' \in [Relations -> {"none", "alive", "dying"}]
  /\ saas' \subseteq RemoteApps
  /\ phase' \in {"query", "refresh", "apply"}
  /\ touched' \in [Relations -> {"no", "deleted", "created"}]
  /\ cached' \in Objects \cup {None}
  /\ op' \in [Handlers -> {"read", "import", "create", "delete", "list", None}]
  /\ absent' \subseteq Relations
  /\ id' \in [Handlers -> (Apps \X Apps) \cup {None}]
  /\ outcome' \in [Relations -> [result : Results, offers : SUBSET Apps]]
  /\ tfstate' \in [Relations -> (Apps \X Apps) \cup {None}]
  /\ IDsFindRelations'

LEMMA RestKept ==
  ASSUME IInv, Next
  PROVE  Rest
<1> USE NoneIsNoObject
    DEF Rest, TypeOK, IInv, DataInv, IDsFindRelations, Results, Goto, Begin, Return, ReturnOffers, controllerVars,
        callVars, runVars, cacheVars
<1>0. \A result \in Results : [result |-> result, offers |-> {}] \in [result : Results, offers : SUBSET Apps]
  OBVIOUS
<1>1. ASSUME NEW r \in Relations, BeginRead(r) PROVE Rest
  BY <1>1 DEF BeginRead
<1>2. ASSUME NEW r \in Relations, NEW i \in Apps \X Apps, BeginImport(r, i) PROVE Rest
  BY <1>2 DEF BeginImport
<1>3. ASSUME NEW r \in Relations, ConsumeRemoteOffer(r) PROVE Rest
  BY <1>3 DEF ConsumeRemoteOffer, OffersOf
<1>4. ASSUME NEW r \in Relations, AddRelation(r) PROVE Rest
  BY <1>4 DEF AddRelation
<1>5. ASSUME NEW r \in Relations, AddRelationFails(r) PROVE Rest
  BY <1>5 DEF AddRelationFails
<1>6. ASSUME NEW r \in Relations, DestroyRelation(r) PROVE Rest
  BY <1>6 DEF DestroyRelation
<1>7. ASSUME NEW r \in Relations, DestroyRelationFails(r) \/ RelationGone(r) \/ RemoveOutside(r) PROVE Rest
  <2>1. CASE DestroyRelationFails(r)
    BY <1>0, <2>1 DEF DestroyRelationFails
  <2>2. CASE RelationGone(r) \/ RemoveOutside(r)
    <3>1. UNCHANGED <<saas, runVars, tfstate, cacheVars, callVars>>
      BY <2>2 DEF RelationGone, RemoveOutside
    <3>2. relations' \in [Relations -> {"none", "alive", "dying"}] /\ absent' \subseteq Relations
      BY <2>2 DEF RelationGone, RemoveOutside
    <3> QED BY <3>1, <3>2
  <2> QED BY <1>7, <2>1, <2>2
<1>8. ASSUME NEW r \in Relations, ReportCreated(r) PROVE Rest
  <2>1. PICK apps \in CreatedApplications(r, Status(r).offerers) :
          /\ tfstate' = [tfstate EXCEPT ![r] = newIDForIntegrationResource(apps)]
          /\ ReturnOffers(r, "created", {apps[i].name : i \in {j \in 1..2 : apps[j].offer}})
    BY <1>8 DEF ReportCreated
  <2>2. newIDForIntegrationResource(apps) = IDOf(r)
    BY CreatedID
  <2>3. {apps[i].name : i \in {j \in 1..2 : apps[j].offer}} \in SUBSET Apps
    <3>1. apps[1].name \in Apps /\ apps[2].name \in Apps
      BY DEF CreatedApplications, Application, Apps, Sides
    <3> QED BY <3>1
  <2>4. UNCHANGED <<controllerVars, runVars, cached, inFlight, listing, absent>>
    BY <1>8 DEF ReportCreated
  <2>5. tfstate' = [tfstate EXCEPT ![r] = IDOf(r)]
    BY <2>1, <2>2
  <2>6. tfstate' \in [Relations -> (Apps \X Apps) \cup {None}] /\ IDsFindRelations'
    BY <2>5, IDType
  <2>7. outcome' \in [Relations -> [result : Results, offers : SUBSET Apps]]
    BY <2>1, <2>3
  <2> QED BY <2>1, <2>4, <2>6, <2>7
<1>9. ASSUME NEW r \in Relations, ReportRead(r) PROVE Rest
  <2>1. id[r] = IDOf(r)
    BY <1>9, KeyIsOwn DEF ReportRead, OpInv
  <2>2. tfstate' = [tfstate EXCEPT ![r] = IDOf(r)]
    BY <1>9, <2>1 DEF ReportRead
  <2>3. tfstate' \in [Relations -> (Apps \X Apps) \cup {None}] /\ IDsFindRelations'
    BY <2>2, IDType
  <2> QED BY <1>9, <2>3 DEF ReportRead
<1>10. ASSUME NEW r \in Relations, ReportNotFound(r) PROVE Rest
  BY <1>10 DEF ReportNotFound
<1>11. ASSUME NEW r \in Relations, PollAgain(r) PROVE Rest
  BY <1>11 DEF PollAgain
<1>12. ASSUME NEW r \in Relations, GiveUp(r) PROVE Rest
  <2>1. CASE SkipFailedDeletion
    <3>1. tfstate' = [tfstate EXCEPT ![r] = None] /\ Return(r, "skipped")
      BY <1>12, <2>1 DEF GiveUp
    <3>2. UNCHANGED <<controllerVars, runVars, cached, absent>>
      BY <1>12 DEF GiveUp
    <3> QED BY <1>0, <3>1, <3>2
  <2>2. CASE ~SkipFailedDeletion
    <3>1. UNCHANGED tfstate /\ Return(r, "error")
      BY <1>12, <2>2 DEF GiveUp
    <3>2. UNCHANGED <<controllerVars, runVars, cached, absent>>
      BY <1>12 DEF GiveUp
    <3> QED BY <1>0, <3>1, <3>2
  <2> QED BY <2>1, <2>2
<1>13. ASSUME NEW l \in Listers, BeginList(l) PROVE Rest
  BY <1>13 DEF BeginList
<1>14. ASSUME NEW l \in Listers, ReportList(l) PROVE Rest
  BY <1>14 DEF ReportList
<1>15. ASSUME NEW h \in Handlers, Hit(h) \/ Join(h) \/ Fetch(h) \/ Answer(h) \/ FetchFails(h) PROVE Rest
  BY <1>15 DEF Hit, Join, Fetch, Answer, FetchFails
<1>16. ASSUME NEW h \in Handlers, Store(h) PROVE Rest
  BY <1>16 DEF Store
<1>17. ASSUME NEW h \in Handlers, ReportFailure(h) PROVE Rest
  <2>1. CASE h \in Listers
    BY <1>17, <2>1 DEF ReportFailure
  <2>2. CASE h \in Relations
    <3>1. Return(h, "error") /\ UNCHANGED <<controllerVars, runVars, tfstate, cached, absent>>
      BY <1>17, <2>2, IntegrationAssumption DEF ReportFailure
    <3> QED BY <1>0, <2>2, <3>1
  <2> QED BY <2>1, <2>2 DEF Handlers
<1>18. ASSUME Expire PROVE Rest
  BY <1>18 DEF Expire
<1>19. ASSUME NEW p \in {"query", "refresh", "apply"}, NextPhase(p) PROVE Rest
  <2>1. cached' \in Objects \cup {None} /\ absent' \subseteq Relations
    BY <1>19 DEF NextPhase
  <2> QED BY <1>19, <2>1 DEF NextPhase, Nothing
<1> QED BY <1>1, <1>2, <1>3, <1>4, <1>5, <1>6, <1>7, <1>8, <1>9, <1>10, <1>11, <1>12, <1>13, <1>14, <1>15,
           <1>16, <1>17, <1>18, <1>19 DEF Next, ModelStatus

LEMMA OpInvKept ==
  ASSUME IInv, Next
  PROVE  OpInv'
<1> USE NoneIsNoObject
    DEF TypeOK, IInv, DataInv, OpInv, Goto, Begin, Return, ReturnOffers, controllerVars, callVars, runVars, cacheVars
<1>1. ASSUME NEW r \in Relations, BeginRead(r) PROVE OpInv'
  BY <1>1 DEF BeginRead, IDsFindRelations
<1>2. ASSUME NEW r \in Relations, NEW i, BeginImport(r, i) PROVE OpInv'
  BY <1>2 DEF BeginImport, Reverse
<1>3. ASSUME NEW r \in Relations, ConsumeRemoteOffer(r) PROVE OpInv'
  BY <1>3 DEF ConsumeRemoteOffer
<1>4. ASSUME NEW r \in Relations, AddRelation(r) PROVE OpInv'
  BY <1>4 DEF AddRelation
<1>5. ASSUME NEW r \in Relations, AddRelationFails(r) PROVE OpInv'
  BY <1>5 DEF AddRelationFails
<1>6. ASSUME NEW r \in Relations, DestroyRelation(r) PROVE OpInv'
  BY <1>6 DEF DestroyRelation, IDsFindRelations
<1>7. ASSUME NEW r \in Relations, DestroyRelationFails(r) \/ RelationGone(r) \/ RemoveOutside(r) PROVE OpInv'
  BY <1>7 DEF DestroyRelationFails, RelationGone, RemoveOutside
<1>8. ASSUME NEW r \in Relations, ReportCreated(r) PROVE OpInv'
  BY <1>8 DEF ReportCreated
<1>9. ASSUME NEW r \in Relations, ReportRead(r) PROVE OpInv'
  BY <1>9 DEF ReportRead
<1>10. ASSUME NEW r \in Relations, ReportNotFound(r) PROVE OpInv'
  BY <1>10 DEF ReportNotFound
<1>11. ASSUME NEW r \in Relations, PollAgain(r) PROVE OpInv'
  BY <1>11 DEF PollAgain
<1>12. ASSUME NEW r \in Relations, GiveUp(r) PROVE OpInv'
  BY <1>12 DEF GiveUp
<1>13. ASSUME NEW l \in Listers, BeginList(l) PROVE OpInv'
  BY <1>13, IntegrationAssumption DEF BeginList
<1>14. ASSUME NEW l \in Listers, ReportList(l) PROVE OpInv'
  BY <1>14, IntegrationAssumption DEF ReportList
<1>15. ASSUME NEW h \in Handlers, Hit(h) \/ Join(h) \/ Fetch(h) \/ Answer(h) PROVE OpInv'
  BY <1>15 DEF Hit, Join, Fetch, Answer
<1>16. ASSUME NEW h \in Handlers, Store(h) \/ FetchFails(h) PROVE OpInv'
  BY <1>16 DEF Store, FetchFails, Joined, FlightInv
<1>17. ASSUME NEW h \in Handlers, ReportFailure(h) PROVE OpInv'
  <2>1. CASE h \in Listers
    BY <1>17, <2>1, IntegrationAssumption DEF ReportFailure
  <2>2. CASE h \in Relations
    <3>1. Return(h, "error") /\ UNCHANGED <<controllerVars, runVars, tfstate, cached, absent>>
      BY <1>17, <2>2, IntegrationAssumption DEF ReportFailure
    <3> QED BY <2>2, <3>1
  <2> QED BY <2>1, <2>2 DEF Handlers
<1>18. ASSUME Expire PROVE OpInv'
  BY <1>18 DEF Expire
<1>19. ASSUME NEW p, NextPhase(p) PROVE OpInv'
  BY <1>19 DEF NextPhase
<1> QED BY <1>1, <1>2, <1>3, <1>4, <1>5, <1>6, <1>7, <1>8, <1>9, <1>10, <1>11, <1>12, <1>13, <1>14, <1>15,
           <1>16, <1>17, <1>18, <1>19 DEF Next, ModelStatus

LEMMA StaleKept ==
  ASSUME IInv, Next
  PROVE  StaleInv'
<1> DEFINE Explained == \A r \in Relations :
                          /\ relations'[r] = "none" => r \in absent'
                          /\ r \in absent' /\ touched'[r] # "created" => relations'[r] = "none"
           Old == (absent \subseteq absent') \/ \A o \in Objects : ~Held(o)'
<1>0. ASSUME Explained, Old PROVE StaleInv'
  <2>1. ASSUME NEW o \in Objects, NEW r \in Relations, Held(o)', heap'[o].endpoints[r] = << >> PROVE r \in absent'
    <3>1. r \in absent
      BY <2>1, HeapKept DEF Kept, IInv, StaleInv
    <3> QED BY <1>0, <2>1, <3>1
  <2> QED BY <1>0, <2>1 DEF StaleInv
<1>1. ASSUME UNCHANGED <<relations, touched, absent>> PROVE StaleInv'
  BY <1>0, <1>1 DEF IInv, StaleInv
<1>2. ASSUME NEW r \in Relations, ConsumeRemoteOffer(r) PROVE StaleInv'
  BY <1>0, <1>2 DEF ConsumeRemoteOffer, IInv, TypeOK, StaleInv
<1>3. ASSUME NEW r \in Relations, AddRelation(r) PROVE StaleInv'
  <2>1. touched[r] = "created"
    BY <1>3 DEF AddRelation, IInv, OpInv
  <2> QED BY <1>0, <1>3, <2>1 DEF AddRelation, IInv, TypeOK, StaleInv, runVars
<1>4. ASSUME NEW r \in Relations, DestroyRelation(r) PROVE StaleInv'
  BY <1>0, <1>4 DEF DestroyRelation, IInv, TypeOK, StaleInv
<1>5. ASSUME NEW r \in Relations, DestroyRelationFails(r) PROVE StaleInv'
  BY <1>0, <1>5 DEF DestroyRelationFails, IInv, TypeOK, StaleInv, controllerVars
<1>6. ASSUME NEW r \in Relations, RelationGone(r) PROVE StaleInv'
  BY <1>0, <1>6 DEF RelationGone, IInv, TypeOK, StaleInv, runVars
<1>7. ASSUME NEW r \in Relations, RemoveOutside(r) PROVE StaleInv'
  BY <1>0, <1>7 DEF RemoveOutside, IInv, TypeOK, StaleInv, runVars
<1>8. ASSUME NEW p, NextPhase(p) PROVE StaleInv'
  <2>1. relations' = relations /\ touched' = [r \in Relations |-> "no"]
    BY <1>8 DEF NextPhase, controllerVars
  <2>2. CASE phase = "refresh" /\ absent' = absent
    BY <1>0, <2>1, <2>2 DEF IInv, OpInv, StaleInv
  <2>3. CASE cached' = None /\ absent' = {r \in Relations : relations[r] = "none"} /\ UNCHANGED ptr
    <3>1. \A h \in Handlers : ptr[h] = None
      BY <1>8 DEF NextPhase, IInv, TypeOK
    <3>2. \A o \in Objects : ~Held(o)'
      BY <2>3, <3>1, NoneIsNoObject DEF Held
    <3> QED BY <1>0, <2>1, <2>3, <3>2
  <2> QED BY <1>8, <2>2, <2>3 DEF NextPhase
<1>9. ASSUME NEW r \in Relations,
             \/ BeginRead(r) \/ (\E i \in Apps \X Apps : BeginImport(r, i)) \/ AddRelationFails(r)
             \/ ReportCreated(r) \/ ReportRead(r) \/ ReportNotFound(r) \/ PollAgain(r) \/ GiveUp(r)
      PROVE  StaleInv'
  BY <1>1, <1>9 DEF BeginRead, BeginImport, AddRelationFails, ReportCreated, ReportRead, ReportNotFound, PollAgain,
       GiveUp, controllerVars, runVars
<1>10. ASSUME NEW l \in Listers, BeginList(l) \/ ReportList(l) PROVE StaleInv'
  BY <1>1, <1>10 DEF BeginList, ReportList, controllerVars, runVars
<1>11. ASSUME NEW h \in Handlers, ModelStatus(h) \/ ReportFailure(h) PROVE StaleInv'
  BY <1>1, <1>11 DEF ModelStatus, Hit, Join, Fetch, Answer, Store, FetchFails, ReportFailure, controllerVars, runVars
<1>12. ASSUME Expire PROVE StaleInv'
  BY <1>1, <1>12 DEF Expire, controllerVars, runVars
<1> QED BY <1>2, <1>3, <1>4, <1>5, <1>6, <1>7, <1>8, <1>9, <1>10, <1>11, <1>12 DEF Next

LEMMA NextIInv == IInv /\ [Next]_vars => IInv'
<1> SUFFICES ASSUME IInv, [Next]_vars PROVE IInv'
  OBVIOUS
<1>1. CASE Next
  <2>1. TypeOK'
    BY <1>1, HeapKept, PlacesKept, RestKept DEF Kept, Places, Rest, TypeOK
  <2>2. DataInv' /\ IDsFindRelations'
    BY <1>1, HeapKept, RestKept DEF Kept, Rest, DataInv
  <2>3. FlightInv'
    BY <1>1, PlacesKept DEF Places
  <2>4. OpInv' /\ StaleInv'
    BY <1>1, OpInvKept, StaleKept
  <2> QED BY <2>1, <2>2, <2>3, <2>4 DEF IInv
<1>2. CASE UNCHANGED vars
  <2> USE <1>2 DEF vars
  <2>1. TypeOK' /\ DataInv' /\ FlightInv'
    BY DEF IInv, TypeOK, DataInv, FlightInv
  <2>2. OpInv' /\ IDsFindRelations'
    BY DEF IInv, OpInv, IDsFindRelations
  <2>3. StaleInv'
    BY DEF IInv, StaleInv, Held
  <2> QED BY <2>1, <2>2, <2>3 DEF IInv
<1> QED BY <1>1, <1>2

LEMMA IInvHolds == Spec => []IInv
<1> QED BY InitIInv, NextIInv, PTL DEF Spec

-----------------------------------------------------------------------------
(* What follows.                                                           *)

\* Type correctness: each variable keeps to its values, and a handler has a
\* status exactly while it stores or reads one.
THEOREM Typing == Spec => []TypeOK
<1>1. IInv => TypeOK
  BY DEF IInv
<1> QED BY <1>1, IInvHolds, PTL

\* The ID in a state is always the one that ReadIntegration finds the resource's
\* own relation by, whoever wrote it: Create, whatever the order in which the
\* controller names the sides, or an import with the sides either way round.
THEOREM IDsFindTheirRelations == Spec => []IDsFindRelations
<1>1. IInv => IDsFindRelations
  BY DEF IInv
<1> QED BY <1>1, IInvHolds, PTL

\* A status that does not list the relation of a resource that was in the state
\* before this run, or is being deleted, shows that it was off the controller.
LEMMA NotFoundIsAbsent ==
  ASSUME IInv, NEW r \in Relations, ReportNotFound(r), op[r] \in {"read", "delete"}
  PROVE  r \in absent /\ (op[r] = "delete" => relations[r] = "none")
<1>1. id[r] = IDOf(r) /\ (op[r] = "delete" => touched[r] = "deleted")
  BY DEF ReportNotFound, IInv, OpInv
<1>2. heap[ptr[r]].endpoints[r] = << >>
  BY <1>1, OwnKey DEF ReportNotFound, Status
<1>3. ptr[r] \in Objects /\ Held(ptr[r])
  BY NoneIsNoObject DEF ReportNotFound, IInv, TypeOK, Held
<1> QED BY <1>1, <1>2, <1>3 DEF IInv, StaleInv

\* A resource leaves the state only when its relation was off the controller in
\* this run, or when the user asked to skip a deletion that fails.
THEOREM ForgetsOnlyTheAbsent == Spec => ForgottenWasAbsent
<1>1. ASSUME IInv, [Next]_vars, NEW r \in Relations,
             tfstate[r] # None, tfstate'[r] = None, outcome'[r].result # "skipped"
      PROVE  r \in absent
  <2> USE DEF IInv, TypeOK
  <2>1. ASSUME NEW q \in Relations, ReportNotFound(q) PROVE r \in absent
    <3>1. q = r
      BY <1>1, <2>1 DEF ReportNotFound
    <3>2. op[r] # "import"
      BY <1>1, <2>1, <3>1 DEF ReportNotFound, OpInv
    <3> QED BY <1>1, <2>1, <3>1, <3>2, NotFoundIsAbsent DEF ReportNotFound
  <2>2. ASSUME NEW q \in Relations, ReportCreated(q) PROVE FALSE
    <3>1. q = r
      BY <1>1, <2>2 DEF ReportCreated
    <3> QED BY <1>1, <2>2, <3>1 DEF ReportCreated, OpInv
  <2>3. ASSUME NEW q \in Relations, ReportRead(q) PROVE FALSE
    <3>1. q = r
      BY <1>1, <2>3 DEF ReportRead
    <3>2. op[r] = "read" /\ id[r] = IDOf(r) /\ tfstate[r] = IDOf(r)
      BY <1>1, <2>3, <3>1 DEF ReportRead, OpInv, IDsFindRelations
    <3> QED BY <1>1, <2>3, <3>1, <3>2 DEF ReportRead
  <2>4. ASSUME NEW q \in Relations, GiveUp(q) PROVE FALSE
    <3>1. q = r /\ SkipFailedDeletion
      BY <1>1, <2>4 DEF GiveUp
    <3>2. outcome'[r].result = "skipped"
      BY <1>1, <2>4, <3>1 DEF GiveUp, Return, ReturnOffers, DataInv
    <3> QED BY <1>1, <3>2
  <2>5. tfstate' # tfstate
    BY <1>1
  <2> QED BY <1>1, <2>1, <2>2, <2>3, <2>4, <2>5
          DEF Next, vars, BeginRead, BeginImport, ConsumeRemoteOffer, AddRelation, AddRelationFails, DestroyRelation,
              DestroyRelationFails, PollAgain, RelationGone, RemoveOutside, BeginList, ReportList, ModelStatus, Hit, Join,
              Fetch, Answer, Store, FetchFails, ReportFailure, Expire, NextPhase
<1>2. IInv /\ [Next]_vars =>
        [\A r \in Relations :
           tfstate[r] # None /\ tfstate'[r] = None /\ outcome'[r].result # "skipped" => r \in absent]_vars
  BY <1>1
<1> QED BY <1>2, IInvHolds, PTL DEF Spec, ForgottenWasAbsent

\* A Delete that reports success leaves no relation behind: the status its wait was
\* satisfied with is from a time when the relation was gone, and it is gone still.
THEOREM DeletedIsGoneForGood == Spec => DeletedIsGone
<1>1. ASSUME IInv, [Next]_vars, NEW r \in Relations,
             outcome[r].result # "deleted", outcome'[r].result = "deleted"
      PROVE  relations[r] = "none"
  <2> USE DEF IInv, DataInv
  <2>1. ASSUME NEW q \in Relations, ReportNotFound(q) PROVE relations[r] = "none"
    <3>1. q = r /\ op[r] = "delete"
      BY <1>1, <2>1 DEF ReportNotFound, Return, ReturnOffers
    <3> QED BY <1>1, <2>1, <3>1, NotFoundIsAbsent
  <2>2. ASSUME NEW h, NEW result \in Results \ {"deleted"}, NEW offers, ReturnOffers(h, result, offers) PROVE FALSE
    BY <1>1, <2>2 DEF ReturnOffers
  <2>3. ASSUME UNCHANGED outcome PROVE FALSE
    BY <1>1, <2>3
  <2>4. ASSUME NEW q \in Relations, DestroyRelationFails(q) PROVE FALSE
    BY <1>1, <2>4 DEF DestroyRelationFails
  <2>5. ASSUME NEW p, NextPhase(p) PROVE FALSE
    BY <1>1, <2>5 DEF NextPhase, Nothing
  <2>6. ASSUME NEW q \in Relations, AddRelationFails(q) \/ ReportRead(q) \/ GiveUp(q) \/ ReportCreated(q) PROVE FALSE
    <3>1. \E result \in Results \ {"deleted"}, offers \in {outcome'[q].offers} : ReturnOffers(q, result, offers)
      BY <1>1, <2>6 DEF AddRelationFails, ReportRead, GiveUp, ReportCreated, Return, ReturnOffers, Results
    <3> QED BY <2>2, <3>1
  <2>7. ASSUME NEW h \in Handlers, ReportFailure(h) PROVE FALSE
    <3>1. UNCHANGED outcome \/ ReturnOffers(h, "error", {})
      BY <2>7 DEF ReportFailure, Return
    <3> QED BY <2>2, <2>3, <3>1 DEF Results
  <2> QED BY <1>1, <2>1, <2>3, <2>4, <2>5, <2>6, <2>7
          DEF Next, vars, callVars, BeginRead, BeginImport, ConsumeRemoteOffer, AddRelation, DestroyRelation, PollAgain,
              RelationGone, RemoveOutside, BeginList, ReportList, ModelStatus, Hit, Join, Fetch, Answer, Store,
              FetchFails, Expire
<1>2. IInv /\ [Next]_vars =>
        [\A r \in Relations :
           outcome[r].result # "deleted" /\ outcome'[r].result = "deleted" => relations[r] = "none"]_vars
  BY <1>1
<1> QED BY <1>2, IInvHolds, PTL DEF Spec, DeletedIsGone

-----------------------------------------------------------------------------
(* Lists.                                                                  *)

\* What the endpoints of a relation can be in a status that others have parsed:
\* as the controller gave them, or with the requirer of a consumed offer
\* overwritten by the provider.
InOrder(r) ==
  {<< >>, <<"requirer", "provider">>}
  \cup (IF AppOf[r]["requirer"] \in RemoteApps THEN {<<"provider", "provider">>} ELSE {})

OrderInv == \A o \in Objects, r \in Relations : heap[o].endpoints[r] \in InOrder(r)

LEMMA ShortenedInOrder ==
  ASSUME NEW r \in Relations, NEW eps \in InOrder(r), NEW offerers \in SUBSET RemoteApps
  PROVE  Shortened(r, eps, offerers) \in InOrder(r)
<1>1. CASE eps = << >>
  <2>1. eps \in EndpointSlices
    BY <1>1 DEF EndpointSlices
  <2> QED BY <1>1, <2>1, ShortenedType DEF InOrder
<1>2. CASE eps = <<"requirer", "provider">>
  <2>1. DOMAIN eps = 1..2 /\ Len(eps) = 2 /\ eps[1] = "requirer" /\ eps[2] = "provider"
    BY <1>2
  <2>2. Shortened(r, eps, offerers) = [i \in 1..2 |-> IF i \in Remote(r, eps, offerers) THEN eps[2] ELSE eps[i]]
    BY <2>1 DEF Shortened
  <2>3. CASE 1 \in Remote(r, eps, offerers)
    <3>1. AppOf[r]["requirer"] \in RemoteApps
      BY <2>1, <2>3 DEF Remote
    <3>2. [i \in 1..2 |-> IF i \in Remote(r, eps, offerers) THEN eps[2] ELSE eps[i]] = <<"provider", "provider">>
      BY <2>1, <2>3
    <3> QED BY <2>2, <3>1, <3>2 DEF InOrder
  <2>4. CASE 1 \notin Remote(r, eps, offerers)
    <3>1. [i \in 1..2 |-> IF i \in Remote(r, eps, offerers) THEN eps[2] ELSE eps[i]] = <<"requirer", "provider">>
      BY <2>1, <2>4
    <3> QED BY <2>2, <3>1 DEF InOrder
  <2> QED BY <2>3, <2>4
<1>3. CASE eps = <<"provider", "provider">>
  <2>1. DOMAIN eps = 1..2 /\ Len(eps) = 2 /\ eps[1] = "provider" /\ eps[2] = "provider"
    BY <1>3
  <2>2. Shortened(r, eps, offerers) = [i \in 1..2 |-> IF i \in Remote(r, eps, offerers) THEN eps[2] ELSE eps[i]]
    BY <2>1 DEF Shortened
  <2>3. [i \in 1..2 |-> IF i \in Remote(r, eps, offerers) THEN eps[2] ELSE eps[i]] = <<"provider", "provider">>
    BY <2>1
  <2> QED BY <1>3, <2>2, <2>3
<1> QED BY <1>1, <1>2, <1>3 DEF InOrder

LEMMA ParseInOrder ==
  ASSUME TypeOK, DataInv, OrderInv, NEW h \in Handlers, pc[h] = "use", NEW rs, Parse(h, rs)
  PROVE  OrderInv'
<1> DEFINE was    == heap[ptr[h]]
           parsed == [r \in Relations |-> IF r \in rs THEN Shortened(r, was.endpoints[r], was.offerers)
                                          ELSE was.endpoints[r]]
           objects == [heap EXCEPT ![ptr[h]].endpoints = parsed]
<1>1. ptr[h] \in Objects
  BY DEF TypeOK
<1>2. was \in Statuses
  BY <1>1 DEF DataInv
<1>3. \A r \in Relations : parsed[r] \in InOrder(r)
  BY <1>1, <1>2, ShortenedInOrder DEF OrderInv, Statuses
<1>4. Collected(objects)
  BY DEF Parse, Status
<1> HIDE DEF parsed
<1>5. \A o \in Objects : objects[o].endpoints = IF o = ptr[h] THEN parsed ELSE heap[o].endpoints
  BY <1>1, <1>2 DEF DataInv, Statuses
<1>6. \A o \in Objects, r \in Relations : objects[o].endpoints[r] \in InOrder(r)
  BY <1>3, <1>5 DEF OrderInv
<1> HIDE DEF objects
<1> QED BY <1>4, <1>6 DEF Collected, OrderInv, EmptyStatus, InOrder

LEMMA OrderKept ==
  ASSUME IInv, OrderInv, Next
  PROVE  OrderInv'
<1> USE DEF IInv
<1>1. ASSUME UNCHANGED heap PROVE OrderInv'
  BY <1>1 DEF OrderInv
<1>2. ASSUME Collected(heap) PROVE OrderInv'
  BY <1>2 DEF OrderInv, Collected, EmptyStatus, InOrder
<1>3. ASSUME NEW h \in Handlers, Answer(h) PROVE OrderInv'
  <2>1. PICK o \in Objects : heap' = [heap EXCEPT ![o] = Snapshot]
    BY <1>3 DEF Answer
  <2>2. \A r \in Relations : Snapshot.endpoints[r] \in InOrder(r)
    BY DEF Snapshot, InOrder
  <2> QED BY <2>1, <2>2 DEF OrderInv, DataInv
<1>4. ASSUME NEW r \in Relations, ReportCreated(r) \/ ReportRead(r) \/ ReportNotFound(r) PROVE OrderInv'
  BY <1>4, ParseInOrder, NoneIsNoObject DEF ReportCreated, ReportRead, ReportNotFound
<1>5. ASSUME NEW r \in Relations, PollAgain(r) PROVE OrderInv'
  BY <1>1, <1>5, ParseInOrder, NoneIsNoObject DEF PollAgain
<1>6. ASSUME NEW l \in Listers, ReportList(l) PROVE OrderInv'
  <2>1. pc[l] = "use" /\ \E rs : Parse(l, rs)
    BY <1>6 DEF ReportList
  <2> QED BY <2>1, ParseInOrder, NoneIsNoObject
<1>7. ASSUME Expire \/ \E p \in {"query", "refresh", "apply"} : NextPhase(p) PROVE OrderInv'
  BY <1>1, <1>2, <1>7 DEF Expire, NextPhase, cacheVars
<1> QED BY <1>1, <1>3, <1>4, <1>5, <1>6, <1>7
        DEF Next, BeginRead, BeginImport, ConsumeRemoteOffer, AddRelation, AddRelationFails, DestroyRelation,
            DestroyRelationFails, GiveUp, RelationGone, RemoveOutside, BeginList, ModelStatus, Hit, Join, Fetch, Store,
            FetchFails, ReportFailure, cacheVars

\* A relation's two sides, in order, give its ID: the remote one is put first and
\* the ID has it in its role again.
LEMMA OrderedID ==
  ASSUME NEW r \in Relations, NEW offerers, NEW eps, eps = <<"requirer", "provider">>
  PROVE  newIDForIntegrationResource(Applications(r, eps, offerers)) = IDOf(r)
<1>1. eps[1] = "requirer" /\ eps[2] = "provider"
  OBVIOUS
<1>2. CASE 2 \in Remote(r, eps, offerers)
  BY <1>1, <1>2, NewID DEF Applications
<1>3. CASE 2 \notin Remote(r, eps, offerers)
  BY <1>1, <1>3, NewID DEF Applications
<1> QED BY <1>2, <1>3

\* An endpoint that was overwritten makes the provider both sides.
LEMMA OverwrittenID ==
  ASSUME NEW r \in Relations, NEW offerers, NEW eps, eps = <<"provider", "provider">>
  PROVE  newIDForIntegrationResource(Applications(r, eps, offerers)) = <<AppOf[r]["provider"], AppOf[r]["provider"]>>
<1> DEFINE apps == Applications(r, eps, offerers)
<1>1. apps[1].name = AppOf[r]["provider"] /\ apps[2].name = AppOf[r]["provider"]
      /\ apps[1].role = "provider" /\ apps[2].role = "provider"
  BY DEF Applications, Application
<1> HIDE DEF apps
<1>2. {i \in 1..2 : apps[i].role = "requirer" /\ \A j \in i+1..2 : apps[j].role # "requirer"} = {}
  BY <1>1
<1>3. {i \in 1..2 : apps[i].role = "provider" /\ \A j \in i+1..2 : apps[j].role # "provider"} = {2}
  BY <1>1
<1> QED BY <1>1, <1>2, <1>3 DEF newIDForIntegrationResource, apps

\* A relation's two sides, as a status has them, give the identity it is listed as.
LEMMA ListedID ==
  ASSUME IInv, OrderInv, NEW l \in Listers, ptr[l] \in Objects, NEW r \in Relations, Status(l).endpoints[r] # << >>
  PROVE  newIDForIntegrationResource(Applications(r, Status(l).endpoints[r], Status(l).offerers)) = ListedAs(l, r)
<1> DEFINE eps == Status(l).endpoints[r]
<1>1. CASE eps = <<"requirer", "provider">>
  <2>1. ~Overwritten(l, r)
    <3>1. eps[1] # "provider"
      BY <1>1
    <3> QED BY <3>1 DEF Overwritten
  <2> QED BY <1>1, <2>1, OrderedID DEF ListedAs
<1>2. CASE AppOf[r]["requirer"] \in RemoteApps /\ eps = <<"provider", "provider">>
  BY <1>2, OverwrittenID DEF ListedAs, Overwritten
<1>3. eps \in InOrder(r)
  BY DEF OrderInv, Status
<1> QED BY <1>1, <1>2, <1>3 DEF InOrder

\* Only ReportList ends a list that has a status to look at.
LEMMA OnlyReportLists ==
  ASSUME IInv, [Next]_vars, NEW l \in Listers, pc[l] = "use", pc'[l] = "idle"
  PROVE  ReportList(l)
<1> USE DEF IInv, TypeOK
<1>1. l \in Handlers /\ l \notin Relations
  BY IntegrationAssumption DEF Handlers
<1>2. ASSUME UNCHANGED pc PROVE FALSE
  BY <1>2
<1>3. ASSUME NEW r \in Relations,
             \/ BeginRead(r) \/ \E i \in Apps \X Apps : BeginImport(r, i)
             \/ ConsumeRemoteOffer(r) \/ AddRelation(r) \/ AddRelationFails(r)
             \/ DestroyRelation(r) \/ DestroyRelationFails(r)
             \/ ReportCreated(r) \/ ReportRead(r) \/ ReportNotFound(r) \/ PollAgain(r) \/ GiveUp(r)
             \/ RelationGone(r) \/ RemoveOutside(r)
      PROVE  FALSE
  <2>1. r \in Handlers /\ r # l
    BY <1>1 DEF Handlers
  <2>2. UNCHANGED pc \/ \E label : pc' = [pc EXCEPT ![r] = label]
    BY <1>3 DEF BeginRead, BeginImport, ConsumeRemoteOffer, AddRelation, AddRelationFails, DestroyRelation,
                DestroyRelationFails, ReportCreated, ReportRead, ReportNotFound, PollAgain, GiveUp, RelationGone,
                RemoveOutside, Begin, Goto, Return, ReturnOffers
  <2>3. ASSUME NEW label, pc' = [pc EXCEPT ![r] = label] PROVE FALSE
    BY <1>1, <2>1, <2>3
  <2> QED BY <1>2, <2>2, <2>3
<1>4. ASSUME NEW k \in Listers, BeginList(k) PROVE FALSE
  <2>1. pc' = [pc EXCEPT ![k] = "get"] /\ pc[k] = "idle"
    BY <1>4 DEF BeginList, Begin, Goto
  <2> QED BY <1>1, <2>1
<1>5. ASSUME NEW k \in Listers, ReportList(k) PROVE ReportList(l)
  <2>1. pc' = [pc EXCEPT ![k] = "idle"]
    BY <1>5 DEF ReportList, Goto
  <2>2. k = l
    BY <1>1, <2>1
  <2> QED BY <1>5, <2>2
<1>6. ASSUME NEW h \in Handlers, ModelStatus(h) PROVE FALSE
  BY <1>1, <1>6 DEF ModelStatus, Hit, Join, Fetch, Answer, Store, FetchFails, Goto, Joined, FlightInv
<1>7. ASSUME NEW h \in Handlers, ReportFailure(h) PROVE FALSE
  BY <1>1, <1>7 DEF ReportFailure, Goto, Return, ReturnOffers
<1>8. ASSUME Expire \/ \E p \in {"query", "refresh", "apply"} : NextPhase(p) PROVE FALSE
  BY <1>1, <1>8 DEF Expire, NextPhase
<1> QED BY <1>2, <1>3, <1>4, <1>5, <1>6, <1>7, <1>8 DEF Next, vars

\* A list leaves out no integration that was there all through the run and makes
\* none up, whoever has parsed the cached status before; the identities are right,
\* but for requirers of consumed offers that an earlier reader has overwritten.
THEOREM ListsAreComplete == Spec => ListsIntegrations
<1>1. Init => OrderInv
  BY DEF Init, OrderInv, InOrder, EmptyStatus
<1>2. IInv /\ OrderInv /\ [Next]_vars => OrderInv'
  <2>1. CASE Next
    BY <2>1, OrderKept
  <2>2. CASE UNCHANGED vars
    BY <2>2 DEF vars, OrderInv
  <2> QED BY <2>1, <2>2
<1>3. ASSUME IInv, OrderInv, [Next]_vars, NEW l \in Listers, pc[l] = "use", pc'[l] = "idle"
      PROVE  /\ \A r \in Relations \ absent : ListedAs(l, r) \in listing'
             /\ listing' \subseteq {ListedAs(l, r) : r \in Relations}
  <2>1. ReportList(l)
    BY <1>3, OnlyReportLists
  <2>2. ptr[l] \in Objects
    BY <1>3, NoneIsNoObject DEF IInv, TypeOK
  <2> DEFINE listed == {r \in Relations : Status(l).endpoints[r] # << >>}
  <2>3. listing' = {newIDForIntegrationResource(Applications(r, Status(l).endpoints[r], Status(l).offerers)) : r \in listed}
    BY <2>1 DEF ReportList
  <2>4. \A r \in listed :
          newIDForIntegrationResource(Applications(r, Status(l).endpoints[r], Status(l).offerers)) = ListedAs(l, r)
    BY <1>3, <2>2, ListedID
  <2>5. listing' = {ListedAs(l, r) : r \in listed}
    BY <2>3, <2>4
  <2>6. Relations \ absent \subseteq listed
    BY <1>3, <2>2 DEF IInv, StaleInv, Held, Status, Handlers
  <2> QED BY <2>5, <2>6
<1>4. IInv /\ OrderInv /\ [Next]_vars =>
        [\A l \in Listers :
           pc[l] = "use" /\ pc'[l] = "idle"
           => /\ \A r \in Relations \ absent : ListedAs(l, r) \in listing'
              /\ listing' \subseteq {ListedAs(l, r) : r \in Relations}]_vars
  BY <1>3
<1> QED BY <1>1, <1>2, <1>4, IInvHolds, PTL DEF Spec, ListsIntegrations

=============================================================================
