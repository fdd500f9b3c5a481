-------------------------------- MODULE Clouds --------------------------------
(***************************************************************************)
(* What the controller is told about substrates: juju_cloud,               *)
(* juju_kubernetes_cloud and juju_secret_backend.  For each, the calls of  *)
(* its client, and its handlers as the calls they make or the states that  *)
(* Read can return: {} is an error, {None} takes the resource from the     *)
(* state.                                                                  *)
(***************************************************************************)
EXTENDS Calls, SequencesExt

-----------------------------------------------------------------------------
(* juju_cloud.  Regions are numbered, in the order in which Juju lists     *)
(* them; the first one of the configuration is the default.                *)

CloudConfigs ==
  [name : {"a"}, storage : {None, 1, 2}, regions : {<<1>>, <<2, 1>>, <<1, 2>>}, cacerts : {1, 2}]

\* An endpoint that Juju would not forget is unset by replacing the cloud.
replaceIfUnset(old, new) == old # None /\ new = None
CloudReplaced(s, w) == s.name # w.name \/ replaceIfUnset(s.storage, w.storage)

AddCloud(w) == add(w.name, w)
UpdateCloud(w) == set(w.name, IF w.storage = None THEN Without(w, {"storage"}) ELSE w)
RemoveCloud(name) == remove(name)
listed(regions) == SetToSortSeq(ToSet(regions), LAMBDA a, b : a < b)
ReadCloud(name, at) == IF at[name] = None THEN None ELSE [at[name] EXCEPT !.regions = listed(@)]

\* The regions that the state has stay in its order; the others follow in Juju's.
orderedRegions(old, out) ==
  SelectSeq(old, LAMBDA r : r \in ToSet(out)) \o SelectSeq(out, LAMBDA r : r \notin ToSet(old))

CloudCreate(w) == <<AddCloud(w), returns(StateOf(w.name, w))>>

\* The order of a configuration, the state's, is found again in what is listed.
ASSUME RegionsAssumption ==
  \A w \in CloudConfigs : orderedRegions(w.regions, listed(w.regions)) = w.regions

\* Mutant: the regions in Juju's order.
CloudReadAsListed(s, at) ==
  IF ReadCloud(s.name, at) = None THEN {}
  ELSE {[s EXCEPT !.storage = ReadCloud(s.name, at).storage, !.regions = ReadCloud(s.name, at).regions]}

\* The certificates are left as they are in the state.
CloudRead(s, at) ==
  LET out == ReadCloud(s.name, at) IN
  IF out = None THEN {}
  ELSE {[s EXCEPT !.storage = out.storage, !.regions = orderedRegions(@, out.regions)]}
CloudUpdate(s, w) == <<UpdateCloud(w), returns(StateOf(s.id, w))>>
CloudDelete(s) == <<RemoveCloud(s.name), returns(None)>>

-----------------------------------------------------------------------------
(* juju_kubernetes_cloud.  The cloud and its credential are made of the    *)
(* same kubernetes configuration by two calls.                             *)

KubernetesCloudConfigs == [name : Names, config : {1, 2}, storage : {None, 1}]
KubernetesCloudOf(w) == [name |-> w.name, config |-> w.config, storage |-> w.storage, credential |-> w.config]

CreateKubernetesCloud(w) ==
  <<add(w.name, [KubernetesCloudOf(w) EXCEPT !.credential = None]), set(w.name, [credential |-> w.config])>>
ReadKubernetesCloud(name, at) == IF at[name] # None /\ at[name].credential # None THEN at[name] ELSE None
UpdateKubernetesCloud(w) == set(w.name, [config |-> w.config])

KubernetesCloudReplaced(s, w) == s.name # w.name
KubernetesCloudCreate(w) == CreateKubernetesCloud(w) \o <<returns(StateOf(w.name, w))>>

\* Of the cloud only the name and the credential's name are read.
KubernetesCloudRead(s, at) == IF ReadKubernetesCloud(s.name, at) = None THEN {} ELSE {s}
KubernetesCloudUpdate(s, w, jaas) ==
  IF jaas THEN <<fails>> ELSE <<UpdateKubernetesCloud(w), returns(StateOf(s.id, w))>>
KubernetesCloudDelete(s) == <<RemoveCloud(s.name), returns(None)>>

-----------------------------------------------------------------------------
(* juju_secret_backend.  Its configuration is write-only, and sent when    *)
(* its version changes.  A renewal interval is "short", as in "1h", or     *)
(* "long", as in the "1h0m0s" that a duration is printed as.               *)

SecretBackendConfigs == [name : Names, interval : {None, "short", "long"}, version : {1, 2}]
printed(interval) == IF interval = "short" THEN "long" ELSE interval
SecretBackendOf(w) == [name |-> w.name, interval |-> printed(w.interval), content |-> w.version]

CreateSecretBackend(w) == add(w.name, SecretBackendOf(w))
GetSecretBackend(name, at) == at[name]
UpdateSecretBackend(name, fields) == move(name, fields)
RemoveSecretBackend(name) == remove(name)

SecretBackendCreate(w) == <<CreateSecretBackend(w), returns(StateOf(w.name, w))>>
SecretBackendRead(s, at) ==
  LET backend == GetSecretBackend(s.name, at) IN
  IF backend = None THEN {None} ELSE {[s EXCEPT !.name = backend.name, !.interval = backend.interval]}

\* An interval that is unset is not sent; the ID is the name.
SecretBackendUpdate(s, w) ==
  LET fields == {"name"} \cup (IF w.interval # None THEN {"interval"} ELSE {})
                         \cup (IF w.version # s.version THEN {"content"} ELSE {})
  IN  <<UpdateSecretBackend(s.name, [x \in fields |-> SecretBackendOf(w)[x]]), returns(StateOf(w.name, w))>>
SecretBackendDelete(s) == <<RemoveSecretBackend(s.name), returns(None)>>
SecretBackendImport(name) == [id |-> name, name |-> name, interval |-> None, version |-> None]
=============================================================================
