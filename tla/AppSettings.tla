------------------------------ MODULE AppSettings ------------------------------
(***************************************************************************)
(* The settings of juju_application: its charm, one option of the charm's  *)
(* configuration, one charm resource and the bindings of its endpoints to  *)
(* spaces.  The client's calls, and the handlers as the calls they make or *)
(* the states that Read can return; {None} takes the resource from the     *)
(* state.  Application has the units and what fails in a creation,         *)
(* Exposure the exposure.                                                  *)
(***************************************************************************)
EXTENDS Calls

\* The second revision of the charm has an option and an endpoint, "new", that
\* the first has not.  The others are the endpoints without a binding of their own,
\* which are bound under the empty name; a binding that is to go is to no space.
others == "others"
unbound == "unbound"
EndpointsOf(revision) == IF revision = 2 THEN {"db", "new"} ELSE {"db"}
modelDefault == "alpha"

AppConfigs ==
  {w \in [name : {"a"}, revision : {1, 2}, config : {None, 1}, resource : {None, 1},
          bindings : {None} \cup {[x \in {e} |-> "s1"] : e \in {"db", others, "new"}}] :
     w.revision = 1 => w.config = None /\ (w.bindings = None \/ "new" \notin DOMAIN w.bindings)}

\* No resource of the configuration: the latest, 0.  The fields "default", "db" and
\* "new" are the spaces of the endpoints; without the endpoint there is None.
Apps ==
  {app \in [name : {"a"}, revision : {1, 2}, config : {None, 1}, resource : {0, 1},
            default : {"alpha", "s1"}, db : {"alpha", "s1"}, new : {None, "alpha", "s1"}] :
     /\ (app.new = None) = (app.revision = 1)
     /\ app.revision = 1 => app.config = None}

AppReplaced(s, w) == s.name # w.name

\* The space of an endpoint in a configuration.
BoundIn(bindings, endpoint, otherwise) ==
  IF bindings # None /\ endpoint \in DOMAIN bindings THEN bindings[endpoint] ELSE otherwise
FieldOf(endpoint) == IF endpoint = others THEN "default" ELSE endpoint
EndpointOf(field) == IF field = "default" THEN others ELSE field
EndpointBindings(app) ==
  [e \in EndpointsOf(app.revision) \cup {others} |-> app[FieldOf(e)]]

\* What a configuration asks of the application.
AppAsked(w) ==
  LET bound == IF w.bindings = None THEN {} ELSE {FieldOf(e) : e \in DOMAIN w.bindings}
  IN  [x \in {"name", "revision", "config"} \cup (IF w.resource = None THEN {} ELSE {"resource"}) \cup bound
         |-> IF x \in bound THEN w.bindings[EndpointOf(x)] ELSE w[x]]

-----------------------------------------------------------------------------
(* Create: everything is a part of the deployment.                         *)

CreateApplication(w) ==
  LET default == BoundIn(w.bindings, others, modelDefault) IN
  add(w.name, [name |-> w.name, revision |-> w.revision, config |-> w.config,
               resource |-> IF w.resource = None THEN 0 ELSE w.resource,
               default |-> default,
               db |-> BoundIn(w.bindings, "db", default),
               new |-> IF w.revision = 2 THEN BoundIn(w.bindings, "new", default) ELSE None])

AppCreate(w) == <<CreateApplication(w), see(w.name, [name |-> w.name]), returns(StateOf(w.name, w))>>

-----------------------------------------------------------------------------
(* Read: what is there replaces what the state has, nothing does not.      *)

ReadBindings(app) ==
  LET spaces  == EndpointBindings(app)
      special == {e \in DOMAIN spaces : spaces[e] # IF e = others THEN modelDefault ELSE spaces[others]}
  IN  IF special = {} THEN None ELSE [e \in special |-> spaces[e]]

\* An option that is at its default leaves what the state has.
newConfigFromApplicationAPI(api, state) == IF api = None THEN state ELSE api
configureResourceData(state, app) == IF state = None THEN None ELSE app.resource

AppRead(s, at) ==
  LET app == at[s.id] IN
  IF app = None THEN {None}
  ELSE {[s EXCEPT !.name = app.name, !.revision = app.revision,
                  !.config = newConfigFromApplicationAPI(app.config, @),
                  !.resource = configureResourceData(@, app),
                  !.bindings = IF ReadBindings(app) = None THEN @ ELSE ReadBindings(app)]}

-----------------------------------------------------------------------------
(* Update: the status, then the charm, the option and the bindings.        *)

\* The charm is set when it changes or there is something to say about resources;
\* a new endpoint is in the default space.
UpdateCharmAndResources(s, w, app) ==
  IF s.revision = w.revision /\ s.resource = None /\ w.resource = None THEN <<>>
  ELSE LET refreshed == [resource |-> IF w.resource = None THEN 0 ELSE w.resource,
                         revision |-> w.revision,
                         new      |-> IF w.revision = 2 THEN app.default ELSE None,
                         config   |-> IF w.revision = 2 THEN app.config ELSE None]
       IN  <<set(w.name, IF s.revision = w.revision THEN [resource |-> refreshed.resource] ELSE refreshed)>>

\* To set an option that the charm has not is an error, to unset it is not.
UpdateConfigOf(s, w) ==
  IF s.config = w.config THEN <<>>
  ELSE IF w.config = None THEN <<set(w.name, [config |-> None])>>
  ELSE <<check(w.name, [revision |-> 2]), set(w.name, [config |-> w.config])>>

\* What to bind, or unbound, for the bindings that only the state has.
computeEndpointBindingsDeltas(old, new) ==
  LET Named(bindings) == IF bindings = None THEN {} ELSE DOMAIN bindings
  IN  [e \in Named(old) \cup Named(new) |-> BoundIn(new, e, unbound)]

\* All the bindings to be; endpoints that were in the old default follow it.
computeUpdatedBindings(current, input) ==
  LET default == IF BoundIn(input, others, unbound) = unbound THEN modelDefault ELSE input[others] IN
  [e \in DOMAIN current |->
     IF e \in DOMAIN input THEN IF input[e] = unbound THEN default ELSE input[e]
     ELSE IF current[e] = current[others] THEN default ELSE current[e]]

\* The bindings are those of the status from before the charm was set; an endpoint
\* that the status has not is an error.  What the charm has not any more is ignored.
UpdateBindings(s, w, app) ==
  LET current == EndpointBindings(app)
      input   == computeEndpointBindingsDeltas(s.bindings, w.bindings)
      updated == computeUpdatedBindings(current, input)
      kept    == DOMAIN current \ ({"new"} \ EndpointsOf(w.revision))
  IN  IF s.bindings = w.bindings \/ input = <<>> THEN <<>>
      ELSE IF ~(DOMAIN input \subseteq DOMAIN current) THEN <<fails>>
      ELSE <<set(w.name, [f \in {FieldOf(e) : e \in kept} |-> updated[EndpointOf(f)]])>>

\* The update unbinds an endpoint that the application has not any more.
UnbindsNothing(s, w, app) ==
  s.bindings \notin {None, w.bindings} /\ ~(DOMAIN s.bindings \subseteq DOMAIN EndpointBindings(app))

UpdateApplication(s, w, app) ==
  IF app = None THEN <<fails>>
  ELSE UpdateCharmAndResources(s, w, app) \o UpdateConfigOf(s, w) \o UpdateBindings(s, w, app)

AppUpdate(s, w, at) ==
  LET update == UpdateApplication(s, w, at[s.name]) IN
  IF update # <<>> /\ update[Len(update)] = fails THEN update
  ELSE update \o <<see(w.name, [name |-> w.name]), returns(StateOf(s.id, w))>>

-----------------------------------------------------------------------------

\* Deletions that are skipped are in Application.
AppDelete(s) == <<doom(s.id), gone(s.id), returns(None)>>

AppImport(name) ==
  [id |-> name, name |-> None, revision |-> None, config |-> None, resource |-> None, bindings |-> None]
==============================================================================
