---------------------------- MODULE Integration ----------------------------
(***************************************************************************)
(* juju_integration resources, the integration list resource, and the      *)
(* model status cache they share.  A provider process belongs to one       *)
(* terraform run: a query, or a refresh followed by an apply.  A status in *)
(* the cache is one object that every reader is given a pointer to.  The   *)
(* controller, the cache library and Terraform are external.               *)
(***************************************************************************)
EXTENDS Naturals, Sequences, FiniteSets

CONSTANTS
  Relations,          \* the integrations, each managed by one resource
  Listers,            \* calls of the integration list resource
  AppOf,              \* the application on each side of each relation
  RemoteApps,         \* the applications that stand for a consumed offer (SAAS)
  Objects,            \* places for status objects
  SkipFailedDeletion, \* the provider's skip_failed_deletion
  None

Sides    == {"requirer", "provider"}
Handlers == Relations \cup Listers
Apps     == {AppOf[r][s] : r \in Relations, s \in Sides}
OffersOf(r) == {AppOf[r][s] : s \in Sides} \cap RemoteApps

\* The model has one name for an application and its endpoint; an endpoint has
\* one role, so that no relation is another one, or another one's reverse.
ASSUME IntegrationAssumption ==
  /\ Relations \cap Listers = {}
  /\ \A r \in Relations : DOMAIN AppOf[r] = Sides
  /\ \A r, q \in Relations : AppOf[r] = AppOf[q] => r = q
  /\ \A r, q \in Relations :
       AppOf[r]["requirer"] = AppOf[q]["provider"] /\ AppOf[r]["provider"] = AppOf[q]["requirer"] => r = q
  /\ \A r \in Relations : Cardinality(OffersOf(r)) <= 1
  /\ SkipFailedDeletion \in BOOLEAN
  /\ None \notin Handlers \cup Objects

VARIABLES
  relations,  \* the controller: "none", "alive" or "dying"
  saas,       \* the controller: consumed offers of the model
  phase,      \* what terraform does: "query", "refresh" or "apply"
  touched,    \* what this run's apply did to a resource: "no", "deleted", "created"
  tfstate,    \* the ID of each resource in the state, or None
  heap,       \* the status objects
  cached,     \* modelStatusCache: the object it holds, or None
  inFlight,   \* the handler whose fetch others wait for, or None
  pc,         \* where each handler is
  op,         \* the operation it runs
  id,         \* the ID it works with
  ptr,        \* the status object it was given
  outcome,    \* what its last operation reported
  listing,    \* the IDs the last list returned
  absent      \* history: relations that were off the controller in this run

controllerVars == <<relations, saas>>
cacheVars == <<heap, cached, inFlight, ptr>>
callVars  == <<op, id, outcome, listing>>
runVars   == <<phase, touched>>
vars == <<relations, saas, phase, touched, tfstate, heap, cached, inFlight, pc,
          op, id, ptr, outcome, listing, absent>>

-----------------------------------------------------------------------------
\* params.FullStatus: the endpoints of each relation (<< >> when it is not
\* listed), requirer first, and the names in RemoteApplicationOfferers.
EmptyStatus == [endpoints |-> [r \in Relations |-> << >>], offerers |-> {}]

Snapshot ==
  [endpoints |-> [r \in Relations |->
                    IF relations[r] = "none" THEN << >> ELSE <<"requirer", "provider">>],
   offerers  |-> saas]

\* juju.Application
Application(r, side, offered) == [name |-> AppOf[r][side], role |-> side, offer |-> offered]

Remote(r, eps, offerers) == {i \in DOMAIN eps : AppOf[r][eps[i]] \in offerers}

\* parseApplications, []params.EndpointStatus, of a relation's two endpoints: the
\* remote side comes first, and its place in the slice is overwritten by the last.
Applications(r, eps, offerers) ==
  LET At(i) == Application(r, eps[i], i \in Remote(r, eps, offerers))
  IN  IF 2 \in Remote(r, eps, offerers) THEN <<At(2), At(1)>> ELSE <<At(1), At(2)>>

\* Mutant: the remote endpoint is overwritten by the first one, not by the last.
ShortenedFromFront(r, eps, offerers) ==
  [i \in DOMAIN eps |-> IF i \in Remote(r, eps, offerers) THEN eps[1] ELSE eps[i]]

Shortened(r, eps, offerers) ==
  [i \in DOMAIN eps |-> IF i \in Remote(r, eps, offerers) THEN eps[Len(eps)] ELSE eps[i]]

\* parseApplications, map[string]params.CharmRelation: in map order, nothing shared.
CreatedApplications(r, offerers) ==
  LET App(s) == Application(r, s, AppOf[r][s] \in offerers)
  IN  {<<App("requirer"), App("provider")>>, <<App("provider"), App("requirer")>>}

\* Mutant: the applications are taken in the order they come in.
UnsortedID(apps) == <<apps[1].name, apps[2].name>>

\* newIDForIntegrationResource: provider first.  A role that is missing leaves
\* the first application in its place.
newIDForIntegrationResource(apps) ==
  LET Last(role) == {i \in 1..2 : apps[i].role = role /\ \A j \in i+1..2 : apps[j].role # role}
      Key(role)  == IF Last(role) = {} THEN 1 ELSE CHOOSE i \in Last(role) : TRUE
  IN  <<apps[Key("provider")].name, apps[Key("requirer")].name>>

IDOf(r) == <<AppOf[r]["provider"], AppOf[r]["requirer"]>>

\* Mutant: the key is built with the provider first.
WithProviderFirst(status, i) ==
  {r \in Relations : status.endpoints[r] # << >> /\ IDOf(r) = <<i[2], i[1]>>}

\* ReadIntegration: the relations whose key is "<requirer> <provider>".  The key
\* the code calls reversed is the same one, so it finds nothing more.
WithKey(status, i) ==
  {r \in Relations : status.endpoints[r] # << >> /\ IDOf(r) = i}

-----------------------------------------------------------------------------
Nothing == [result |-> "none", offers |-> {}]

Init ==
  /\ relations \in [Relations -> {"none", "alive"}]
  /\ saas = UNION {OffersOf(r) : r \in {q \in Relations : relations[q] = "alive"}}
  /\ phase \in {"query", "refresh", "apply"}
  /\ touched = [r \in Relations |-> "no"]
  /\ tfstate = [r \in Relations |-> IF relations[r] = "alive" THEN IDOf(r) ELSE None]
  /\ heap = [o \in Objects |-> EmptyStatus]
  /\ cached = None /\ inFlight = None
  /\ pc = [h \in Handlers |-> "idle"]
  /\ op = [h \in Handlers |-> None]
  /\ id = [h \in Handlers |-> None]
  /\ ptr = [h \in Handlers |-> None]
  /\ outcome = [r \in Relations |-> Nothing]
  /\ listing = {}
  /\ absent = {r \in Relations : relations[r] = "none"}

Goto(h, label) == pc' = [pc EXCEPT ![h] = label]

Begin(h, o, i, label) ==
  /\ pc[h] = "idle"
  /\ op' = [op EXCEPT ![h] = o]
  /\ id' = [id EXCEPT ![h] = i]
  /\ Goto(h, label)

\* A status object nobody points to is collected.
InUse(o) == cached' = o \/ \E h \in Handlers : ptr'[h] = o
Collected(objects) == heap' = [o \in Objects |-> IF InUse(o) THEN objects[o] ELSE EmptyStatus]

\* The handler of resource r returns what it has to say.
ReturnOffers(r, result, offers) ==
  /\ outcome' = [outcome EXCEPT ![r] = [result |-> result, offers |-> offers]]
  /\ op' = [op EXCEPT ![r] = None]
  /\ id' = [id EXCEPT ![r] = None]
  /\ ptr' = [ptr EXCEPT ![r] = None]
  /\ Goto(r, "idle")

Return(r, result) == ReturnOffers(r, result, {})

-----------------------------------------------------------------------------
\* Terraform refreshes each resource in its state, or imports one that is not.
BeginRead(r) ==
  /\ phase = "refresh" /\ tfstate[r] # None
  /\ Begin(r, "read", tfstate[r], "get")
  /\ UNCHANGED <<controllerVars, runVars, tfstate, cacheVars, outcome, listing, absent>>

\* The user may name the sides in either order.
BeginImport(r, i) ==
  /\ phase = "refresh" /\ tfstate[r] = None
  /\ i \in {IDOf(r), <<IDOf(r)[2], IDOf(r)[1]>>}
  /\ Begin(r, "import", i, "get")
  /\ UNCHANGED <<controllerVars, runVars, tfstate, cacheVars, outcome, listing, absent>>

BeginList(l) ==
  /\ phase = "query"
  /\ Begin(l, "list", None, "get")
  /\ UNCHANGED <<controllerVars, runVars, tfstate, cacheVars, outcome, listing, absent>>

\* Create: ConsumeRemoteOffer reuses a SAAS that is there already.
ConsumeRemoteOffer(r) ==
  /\ phase = "apply" /\ tfstate[r] = None /\ touched[r] # "created"
  /\ saas' = saas \cup OffersOf(r)
  /\ touched' = [touched EXCEPT ![r] = "created"]
  /\ Begin(r, "create", None, "consumed")
  /\ UNCHANGED <<relations, phase, tfstate, cacheVars, outcome, listing, absent>>

\* WaitForAppsAvailable and AddRelation: one of them fails, or the controller
\* has the relation.
AddRelation(r) ==
  /\ pc[r] = "consumed"
  /\ relations[r] = "none"
  /\ relations' = [relations EXCEPT ![r] = "alive"]
  /\ Goto(r, "get")
  /\ UNCHANGED <<saas, runVars, tfstate, cacheVars, callVars, absent>>

AddRelationFails(r) ==
  /\ pc[r] = "consumed"
  /\ Return(r, "error")
  /\ UNCHANGED <<controllerVars, runVars, tfstate, heap, cached, inFlight, listing, absent>>

\* Delete: DestroyRelation; Terraform deletes before it creates a replacement.
DestroyRelation(r) ==
  /\ phase = "apply" /\ tfstate[r] # None /\ touched[r] = "no"
  /\ relations[r] # "none"
  /\ relations' = [relations EXCEPT ![r] = "dying"]
  /\ touched' = [touched EXCEPT ![r] = "deleted"]
  /\ Begin(r, "delete", tfstate[r], "get")
  /\ UNCHANGED <<saas, phase, tfstate, cacheVars, outcome, listing, absent>>

\* The relation is not there, or the call fails.
DestroyRelationFails(r) ==
  /\ phase = "apply" /\ tfstate[r] # None /\ touched[r] = "no"
  /\ pc[r] = "idle"
  /\ touched' = [touched EXCEPT ![r] = "deleted"]
  /\ outcome' = [outcome EXCEPT ![r] = [result |-> "error", offers |-> {}]]
  /\ UNCHANGED <<controllerVars, phase, tfstate, cacheVars, pc, op, id, listing, absent>>

-----------------------------------------------------------------------------
\* ModelStatus: the cached object, a fetch another handler has begun, or a fetch.
Hit(h) ==
  /\ pc[h] = "get" /\ cached # None
  /\ ptr' = [ptr EXCEPT ![h] = cached]
  /\ Goto(h, "use")
  /\ UNCHANGED <<controllerVars, runVars, tfstate, heap, cached, inFlight, callVars, absent>>

Join(h) ==
  /\ pc[h] = "get" /\ cached = None /\ inFlight # None
  /\ Goto(h, "joined")
  /\ UNCHANGED <<controllerVars, runVars, tfstate, cacheVars, callVars, absent>>

Fetch(h) ==
  /\ pc[h] = "get" /\ cached = None /\ inFlight = None
  /\ inFlight' = h
  /\ Goto(h, "asking")
  /\ UNCHANGED <<controllerVars, runVars, tfstate, heap, cached, ptr, callVars, absent>>

\* The controller answers with what it has at that moment.
Answer(h) ==
  /\ pc[h] = "asking"
  /\ \E o \in Objects :
       /\ o # cached /\ \A g \in Handlers : ptr[g] # o
       /\ ptr' = [ptr EXCEPT ![h] = o]
       /\ heap' = [heap EXCEPT ![o] = Snapshot]
  /\ Goto(h, "answered")
  /\ UNCHANGED <<controllerVars, runVars, tfstate, cached, inFlight, callVars, absent>>

\* The fetch returns: every handler that joined it is given the same object.
Joined(g) == pc[g] = "joined" \/ g = inFlight

Store(h) ==
  /\ pc[h] = "answered"
  /\ cached' = ptr[h]
  /\ inFlight' = None
  /\ ptr' = [g \in Handlers |-> IF Joined(g) THEN ptr[h] ELSE ptr[g]]
  /\ pc' = [g \in Handlers |-> IF Joined(g) THEN "use" ELSE pc[g]]
  /\ UNCHANGED <<controllerVars, runVars, tfstate, heap, callVars, absent>>

\* An error is not cached; it is everyone's answer.
FetchFails(h) ==
  /\ pc[h] = "asking"
  /\ inFlight' = None
  /\ pc' = [g \in Handlers |-> IF Joined(g) THEN "failed" ELSE pc[g]]
  /\ UNCHANGED <<controllerVars, runVars, tfstate, heap, cached, ptr, callVars, absent>>

\* Five seconds have passed since before the fetch of the cached object.
Expire ==
  /\ cached # None
  /\ cached' = None
  /\ UNCHANGED <<controllerVars, runVars, tfstate, inFlight, pc, ptr, callVars, absent>>
  /\ Collected(heap)

-----------------------------------------------------------------------------
Status(h) == heap[ptr[h]]

\* parseApplications on the endpoints of the relations in rs.
Parse(h, rs) ==
  Collected([heap EXCEPT ![ptr[h]].endpoints =
    [r \in Relations |-> IF r \in rs THEN Shortened(r, @[r], Status(h).offerers) ELSE @[r]]])

\* CreateIntegration returns, and Create writes the state; the ID does not
\* depend on what the status says.
ReportCreated(r) ==
  /\ pc[r] = "use" /\ op[r] = "create"
  /\ \E apps \in CreatedApplications(r, Status(r).offerers) :
       /\ tfstate' = [tfstate EXCEPT ![r] = newIDForIntegrationResource(apps)]
       /\ ReturnOffers(r, "created", {apps[i].name : i \in {j \in 1..2 : apps[j].offer}})
  /\ UNCHANGED <<controllerVars, runVars, cached, inFlight, listing, absent>>
  /\ Parse(r, {})

\* Read and ImportState: found.
ReportRead(r) ==
  /\ pc[r] = "use" /\ op[r] \in {"read", "import"}
  /\ WithKey(Status(r), id[r]) # {}
  /\ tfstate' = [tfstate EXCEPT ![r] = id[r]]
  /\ Return(r, "ok")
  /\ UNCHANGED <<controllerVars, runVars, cached, inFlight, listing, absent>>
  /\ Parse(r, WithKey(Status(r), id[r]))

\* handleIntegrationNotFoundError: the resource leaves the state.
ReportNotFound(r) ==
  /\ pc[r] = "use" /\ op[r] \in {"read", "import", "delete"}
  /\ WithKey(Status(r), id[r]) = {}
  /\ tfstate' = [tfstate EXCEPT ![r] = None]
  /\ Return(r, IF op[r] = "delete" THEN "deleted" ELSE "notFound")
  /\ UNCHANGED <<controllerVars, runVars, cached, inFlight, listing, absent>>
  /\ Parse(r, {})

\* Delete's wait: still there, or no answer; it reads again.
PollAgain(r) ==
  /\ op[r] = "delete"
  /\ ptr' = [ptr EXCEPT ![r] = None]
  /\ UNCHANGED <<controllerVars, runVars, tfstate, cached, inFlight, callVars, absent>>
  /\ \/ pc[r] = "failed" /\ UNCHANGED heap
     \/ pc[r] = "use" /\ WithKey(Status(r), id[r]) # {} /\ Parse(r, WithKey(Status(r), id[r]))
  /\ Goto(r, "get")

\* Mutant: the resource leaves the state with the error.
GiveUpForgets(r) ==
  /\ pc[r] = "get" /\ op[r] = "delete"
  /\ tfstate' = [tfstate EXCEPT ![r] = None]
  /\ Return(r, IF SkipFailedDeletion THEN "skipped" ELSE "error")
  /\ UNCHANGED <<controllerVars, runVars, heap, cached, inFlight, listing, absent>>

\* The wait exceeds its duration.
GiveUp(r) ==
  /\ pc[r] = "get" /\ op[r] = "delete"
  /\ IF SkipFailedDeletion
     THEN tfstate' = [tfstate EXCEPT ![r] = None] /\ Return(r, "skipped")
     ELSE UNCHANGED tfstate /\ Return(r, "error")
  /\ UNCHANGED <<controllerVars, runVars, heap, cached, inFlight, listing, absent>>

\* Create and Read have no second try.  The relation Create added stays behind.
ReportFailure(h) ==
  /\ pc[h] = "failed" /\ op[h] # "delete"
  /\ IF h \in Listers
     THEN Goto(h, "idle") /\ op' = [op EXCEPT ![h] = None] /\ UNCHANGED <<id, ptr, outcome>>
     ELSE Return(h, "error")
  /\ UNCHANGED <<controllerVars, runVars, tfstate, heap, cached, inFlight, listing, absent>>

\* ListIntegrations and List: every relation of the status, parsed and named.
ReportList(l) ==
  /\ pc[l] = "use" /\ op[l] = "list"
  /\ LET listed == {r \in Relations : Status(l).endpoints[r] # << >>}
         Apps2(r) == Applications(r, Status(l).endpoints[r], Status(l).offerers)
     IN  /\ listing' = {newIDForIntegrationResource(Apps2(r)) : r \in listed}
         /\ ptr' = [ptr EXCEPT ![l] = None]
         /\ cached' = cached
         /\ Parse(l, listed)
  /\ op' = [op EXCEPT ![l] = None]
  /\ Goto(l, "idle")
  /\ UNCHANGED <<controllerVars, runVars, tfstate, inFlight, id, outcome, absent>>

-----------------------------------------------------------------------------
\* The controller removes a dying relation once its units have left.
RelationGone(r) ==
  /\ relations[r] = "dying"
  /\ relations' = [relations EXCEPT ![r] = "none"]
  /\ absent' = absent \cup {r}
  /\ UNCHANGED <<saas, runVars, tfstate, cacheVars, pc, callVars>>

\* An operator removes a relation behind Terraform's back.
RemoveOutside(r) ==
  /\ relations[r] = "alive"
  /\ relations' = [relations EXCEPT ![r] = "dying"]
  /\ UNCHANGED <<saas, runVars, tfstate, cacheVars, pc, callVars, absent>>

\* terraform ends, and another run, with a new provider process, begins; or the
\* refresh is over and the same process applies.
NextPhase(p) ==
  /\ \A h \in Handlers : pc[h] = "idle"
  /\ phase' = p
  /\ touched' = [r \in Relations |-> "no"]
  /\ \/ phase = "refresh" /\ p = "apply" /\ UNCHANGED <<cacheVars, absent>>
     \/ /\ cached' = None
        /\ absent' = {r \in Relations : relations[r] = "none"}
        /\ UNCHANGED <<inFlight, ptr>>
        /\ Collected(heap)
  /\ outcome' = [r \in Relations |-> Nothing]
  /\ listing' = {}
  /\ UNCHANGED <<controllerVars, tfstate, pc, op, id>>

ModelStatus(h) == Hit(h) \/ Join(h) \/ Fetch(h) \/ Answer(h) \/ Store(h) \/ FetchFails(h)

Next ==
  \/ \E r \in Relations :
       \/ BeginRead(r) \/ \E i \in Apps \X Apps : BeginImport(r, i)
       \/ ConsumeRemoteOffer(r) \/ AddRelation(r) \/ AddRelationFails(r)
       \/ DestroyRelation(r) \/ DestroyRelationFails(r)
       \/ ReportCreated(r) \/ ReportRead(r) \/ ReportNotFound(r) \/ PollAgain(r) \/ GiveUp(r)
       \/ RelationGone(r) \/ RemoveOutside(r)
  \/ \E l \in Listers : BeginList(l) \/ ReportList(l)
  \/ \E h \in Handlers : ModelStatus(h) \/ ReportFailure(h)
  \/ Expire
  \/ \E p \in {"query", "refresh", "apply"} : NextPhase(p)

Spec == Init /\ [][Next]_vars
-----------------------------------------------------------------------------
TypeOK ==
  /\ relations \in [Relations -> {"none", "alive", "dying"}]
  /\ saas \subseteq RemoteApps
  /\ phase \in {"query", "refresh", "apply"}
  /\ touched \in [Relations -> {"no", "deleted", "created"}]
  /\ tfstate \in [Relations -> (Apps \X Apps) \cup {None}]
  /\ DOMAIN heap = Objects
  /\ cached \in Objects \cup {None}
  /\ inFlight \in Handlers \cup {None}
  /\ pc \in [Handlers -> {"idle", "consumed", "get", "joined", "asking", "answered", "use", "failed"}]
  /\ op \in [Handlers -> {"read", "import", "create", "delete", "list", None}]
  /\ ptr \in [Handlers -> Objects \cup {None}]
  /\ \A h \in Handlers : pc[h] \in {"answered", "use"} <=> ptr[h] # None
  /\ absent \subseteq Relations

\* A resource leaves the state only when its relation was off the controller in
\* this run, however old the cached status is and whoever fetched it; the
\* deletions the user asked to skip excepted (resource_integration.go:428).
ForgottenWasAbsent ==
  [][\A r \in Relations :
       tfstate[r] # None /\ tfstate'[r] = None /\ outcome'[r].result # "skipped" => r \in absent]_vars

\* A Delete that reports success leaves no relation behind: the status its wait
\* was satisfied with is never one from before the relation was there.
DeletedIsGone ==
  [][\A r \in Relations : outcome[r].result # "deleted" /\ outcome'[r].result = "deleted" => relations[r] = "none"]_vars

\* The ID Create gives a resource is the one ReadIntegration finds its relation
\* by, in whatever order the controller names the sides, and no other ID is ever
\* kept: an import with the sides the wrong way round leaves no state.
IDsFindRelations == \A r \in Relations : tfstate[r] \in {None, IDOf(r)}

\* "ListIntegrations lists the integrations in a model" (integrations.go:234):
\* each identity it returns is that of an integration.
ListedAreIntegrations == listing \subseteq {IDOf(r) : r \in Relations}

\* parseApplications overwrites the endpoint it takes out (integrations.go:279):
\* where that is the requirer's, the status says "provider" twice to the next reader.
Overwritten(l, r) ==
  AppOf[r]["requirer"] \in RemoteApps /\ Status(l).endpoints[r] = <<"provider", "provider">>

\* The identity a list gives a relation.
ListedAs(l, r) == IF Overwritten(l, r) THEN <<AppOf[r]["provider"], AppOf[r]["provider"]>> ELSE IDOf(r)

\* A list leaves out no integration that was there all through the run and makes
\* none up, however old the status is and whoever has parsed it before; each has
\* its own identity in it, but for the requirers of consumed offers that an earlier
\* reader has overwritten.
ListsIntegrations ==
  [][\A l \in Listers :
       pc[l] = "use" /\ pc'[l] = "idle"
       => /\ \A r \in Relations \ absent : ListedAs(l, r) \in listing'
          /\ listing' \subseteq {ListedAs(l, r) : r \in Relations}]_vars

\* "integration is created - fetch the status in order to validate"
\* (integrations.go:130): what Create reports names the offer it consumed.
CreateReportsOffer ==
  [][\A r \in Relations : ReportCreated(r) => outcome'[r].offers = OffersOf(r)]_vars
=============================================================================
