# Verification of the Juju provider for Terraform

TLA+ models of `terraform-provider-juju`, checked with TLC and, in part, proved
with TLAPS. The provider turns Terraform's calls (create, read, update, delete,
import, list) into calls of the Juju API. It keeps almost nothing itself: two
caches, a mutex or two and the handlers' local variables. Its state is in two
places it does not control, Terraform's state file and the Juju controller, and
what can go wrong lies between them: a handler makes several calls and any of
them may fail, the controller finishes operations long after it has accepted
them, other handlers run at the same time, and operators change things behind
Terraform's back. The models follow the handlers step by step through that.

Line numbers below and in the modules are those of the files under `src/`.

## 1. Inventory

### How a call runs

Terraform starts the provider process once per run (`terraform query`, or a
refresh followed by an apply) and calls its handlers concurrently, ordered only
by the resource graph: a replacement is created after the deletion of what it
replaces, a resource after those it depends on, and no two handlers work on the
same resource. A handler (`internal/provider/resource_*.go`) reads plan and
state, calls a client (`internal/juju/*.go`), which calls the Juju API, waits
with `internal/wait` until the controller shows what is expected, and writes the
state. What it writes is kept by Terraform when it returns, also when it returns
an error; a resource whose create returned an error and a state is *tainted* and
replaced by the next apply. When the handler returns no state, or is killed,
Terraform knows of nothing.

### Components

| component | code | its own state | operations | what is hard, and what makes it correct |
|---|---|---|---|---|
| polling engine | `internal/wait/wait.go`, `internal/retry/retry.go` | attempt, delay, clock, last data and error | `WaitFor`, `WaitForError`, `RetryOnErrors` | durations, doubling delays and cancellation add up; the data returned must be data that was asserted, and a wait must end |
| model cache | `internal/juju/client.go`, `models.go` | `modelUUIDcache`, `modelUUIDmu`, `modelCacheOnce` | `ModelUUID`, `ModelType`, `ModelOwnerAndName`, `AddModel`, `RemoveModel`, the one fill | filled once, possibly never; handlers add and remove meanwhile; a model may be replaced by one of its name. No known model is lost, no removed one returns |
| model status cache | `client.go` (`ModelStatus`) | one status object per model for five seconds, shared by pointer | `ModelStatus` | stale answers, joined fetches, readers that write to the shared object |
| integrations | `resource_integration.go`, `list_integration.go`, `integrations.go` | none; the ID in Terraform's state | create, read, import, delete, list | decide by the status cache whether a relation is there; one ID from endpoints that come in several orders |
| actions | `resource_action.go`, `actions.go` | action ID and output in the state | create, read, delete | the action is enqueued before its ID is stored; waits of up to thirty minutes, leaders that move, results that are pruned |
| applications: exposure | `resource_application.go`, `applications.go` | the expose block in the state | part of read and update | one difference made by two calls, taken from what a read makes of the controller; no endpoint may be open to more than asked |
| applications: lifecycle, units and machines | `resource_application.go`, `applications.go`, `deploy_local.go` | units, machines in the state | create, read, import, update, delete | partial creation, units that are dying, waits that give up, removal that is skipped |
| applications: settings | the same, `config_utils.go`, `resources.go`, `charms.go` | charm revision, options, resources, bindings in the state | part of create, read and update | the order of eight calls in `UpdateApplication`, of which the bindings use a status from before the charm changed; what a read shows of half of them |
| models | `resource_model.go`, `models.go`, `annotations.go` | identity, config, constraints, annotations, secret backend, agent version, credential | create, read, update, delete, import | steps after the controller has the model, some of them warnings; fields that can only be changed later, or never |
| offers | `resource_offer.go`, `offers.go`, `utils.go` | the offer URL | create, read, delete, consume, remove remote application | an offer found by listing; deletion that retries while there are connections, or forces |
| machines | `resource_machine.go`, `machines.go` | machine ID; `createMu` | create, read, update, delete, import | the state is set before the machine runs; its name is only in the ID |
| access grants | `resource_access_*.go`, `jaas.go` | users, or JAAS tuples | grant, revoke | one change after another, any may fail; levels go down one at a time |
| secrets | `resource_secret.go`, `secrets.go` | URI, values, or the version of a write-only value | create, read, update, delete, import | a value that is not in the state; names that may be taken |
| SSH keys | `resource_ssh_key.go`, `sshKeys.go` | the key | add, read, delete | several resources write one list of a model; comments are ignored |
| storage pools | `resource_storage_pool.go`, `storage.go` | provider, attributes | create, read, update, delete, import | waits for what was written |
| spaces and subnets | `resource_space.go`, `resource_subnet.go`, `spaces.go`, `subnets.go` | names, the space of a subnet | create, read, move, delete, import | a subnet somebody else has moved meanwhile |
| controllers | `resource_controller.go`, `controllers.go` | addresses, credentials, config, version | bootstrap, read, update, upgrade, destroy, import | an external command; config that cannot be unset; versions that a binary must match |
| clouds, kubernetes clouds, secret backends | one file each | one record each | create, read, update, delete, import | answers in another order or form than the configuration; fields that are never updated |
| credentials | `resource_credential.go`, `credentials.go` | type, attributes, where they are kept | the same, in the client, on the controller, or both | two places and one ID |
| users, JAAS groups, roles, controllers | one file each | a name, and a password or a certificate | the same | read by one key, written by another |
| connections, provider configuration, validators, data sources, HA, `juju-tf-upgrader` | `client.go`, `provider.go`, ... | none that outlives a call | dial, merge, check, read, rewrite | I/O or pure functions |

`PROJECT.json` lists every one of them with what is modelled, and under
`hazards` the places where this code is hard to test.

### How they interact

* Every resource handler calls `ModelUUID`/`ModelType`/`ModelOwnerAndName` of
  the shared client, which may fill the model cache under its mutex; the model
  resource is the one that adds to it and removes from it.
* Integrations, the integration list and data sources read the model status
  through the five-second cache; applications and machines do not.
* Every handler that waits does it with the polling engine, mostly in two ways:
  `WaitFor` with an assertion that returns `RetryReadError`, and `WaitForError`
  with every error retried until "not found".
* An integration across models consumes an offer, which another resource makes
  and, on deletion, takes from under it.
* A machine and the application whose units are on it are related only through
  the controller; so are a space and its subnets, and an access resource and what
  it gives access to.
* Every resource is driven in the same way by Terraform (`Terraform.tla`), and
  every one shares its objects with whoever else uses the controller.

## 2. Modules

| module | models | extends / uses |
|---|---|---|
| `Wait` | one call of the polling engine with the loop of `juju/retry` | |
| `WaitPromise` | what a caller of it is promised, without clock, backoff or loop | instance in `Wait` |
| `ModelCache` | the model cache and the handlers that use it | |
| `Integration` | the status cache, integration resources and list calls over runs of terraform | |
| `IntegrationProofs` | proofs about `Integration` | `Integration`, TLAPS |
| `Action` | one action resource over applies | |
| `ClientProofs` | proofs about `Wait`, `ModelCache` and `Action` | these three, TLAPS |
| `Exposure` | the expose block of one application over applies | |
| `ExposureProofs` | proofs about `Exposure` | `Exposure`, TLAPS |
| `Application` | one application: creation, units, machines, removal, over applies | |
| `ApplicationProofs` | proofs about `Application` | `Application`, TLAPS |
| `Objects` | objects, configurations and states as records | |
| `Terraform` | what Terraform does around the handlers of one resource: refresh, plan, create, update, replace, delete, taint | `Objects` |
| `Calls` | the calls a handler can make, when the controller refuses them and what they leave | `Objects` |
| `Identities` | users, credentials, JAAS groups, roles and controllers | `Calls` |
| `Clouds` | clouds, kubernetes clouds, secret backends | `Calls` |
| `ModelParts` | offers, spaces, subnets, secrets, storage pools, SSH keys | `Calls` |
| `Hosts` | machines, models, controllers | `Calls` |
| `AppSettings` | charm revision, an option, a charm resource and the bindings of an application | `Calls` |
| `Resources` | one resource of any of these eighteen kinds over applies, call by call | `Terraform` and the five above |
| `ResourcesProofs` | proofs about `Resources`: which objects the handlers' calls are about, kind by kind | `Resources`, TLAPS |
| `HandlerProofs` | what the handlers' calls do to the fields of objects, kind by kind | `ResourcesProofs` |
| `SuccessProofs` | what an apply that succeeded leaves | `HandlerProofs` |
| `AccessGrants` | the nine access resources over applies | `Terraform` |
| `AccessGrantsProofs` | proofs about `AccessGrants` | `AccessGrants`, TLAPS |
| `MC*` | the instances TLC checks, one module per component | |

`Wait`, `ModelCache`, `Integration`, `Action`, `Exposure` and `Application` each
model one intricate protocol in full detail. `Resources` is for the many
resources whose handlers are short sequences of calls: what makes these hard is
the same for all of them, and is stated once.

`Wait` and `ModelCache` name their specifications apart (`WaitSpec`, `CacheSpec`,
and so on), so that one proof module can extend both and `Action` besides.

In every module the comments "Mutant: ..." mark variants of the definition that
follows them, each a plausible mistake in that code. They are in no
specification; `PROJECT.json` names the property each of them breaks.

### Wait

`now` counts seconds; `CallFunc` is one run of `CallArgs.Func` (`GetData`, then
the assertions), which may take any of `CallTimes`; `Succeed`, `Fail`,
`ExceedDuration` and `Sleep` are what the loop of `juju/retry` does with its
error, in its order; `Wake` and `Stop` are its `select` between timer and
context. `Kind` tells `WaitFor` from `WaitForError`, whose constants are the
arguments of the call: assertions, non-fatal errors, the expected error,
durations (0 takes the defaults of `retryConfWithDefaults`). The loop of
`juju/retry` is outside `src/`, and modelled from the `CallArgs` it is given.

`WaitPromise` has only what was seen last and what the caller was told. The
refinement mapping sorts the observations (data or error) into those that meet
the condition and those that may be retried, without using `Func`; that `Func`
and `IsFatalError` agree with it is what the refinement shows.

### ModelCache

One action for each stretch of a handler between two points where others may
run: the API call before the lock (`CreateModel`, `ReadModel`, `DestroyModel`),
the locked sections (`AddModel`, `RemoveModel`), and for the lookups, which hold
the mutex over an API call, `Lookup`, `ListModels`, `StoreModels` or `FillFails`,
and the answer. A model is "alive", then "dying", and listed until it is gone.
The history variables `known`, `prior`, `removed`, `early` and `destroyed` say
what this process did with each model.

### Integration

A status is an object in `heap`, and a reader has a pointer `ptr` to it, because
`parseApplications` overwrites an element of a slice inside the cached object
(`integrations.go:279`). `Hit`, `Join`, `Fetch`, `Answer`, `Store` and
`FetchFails` are the cache; `Expire` may come at any time, which is weaker than
five seconds. Create consumes the offer, adds the relation, then reads the
status; Delete destroys the relation, then reads until it is not found, or gives
up. `NextPhase` begins a new terraform run with a new process and an empty cache,
or goes from the refresh to the apply of one run, where the cache is kept.

### Action

`BeginApply` refreshes a resource that is in the state (`ReadKeeps`,
`ReadResult`, `ReadFails`, then `Plan`) and creates one that is not
(`ResolveLeaderUnit`, `EnqueueAction`, `CreateResult` or `CreateWaitFails`).
`response` is what Create has put in its response; it reaches the state when
Create returns, with an error or without, and not on `Crash`. The controller
runs, fails and prunes actions and moves the leader at any time.

### Exposure

`computeExposeDeltas` is the pure difference of `resource_application.go:1705`,
`ReadBlocks` the fold `ReadApplication` makes of the exposed endpoints in map
order, `processExpose` the request. One apply is `Refresh`, `Unexpose`, `Expose`,
`Finish`; `Fail` may end it anywhere, with the refreshed block as the state. An
operator may expose and unexpose single endpoints between applies. Unexposing
the endpoint `""` is taken to unexpose everything, as the comment at
`resource_application.go:1712` does; on a controller that keeps an entry `""` of
its own beside the named ones, removing the block would leave these exposed, for
ever.

### Application

Units are on the controller ("alive", "dying") and `snapshot` is the status
`UpdateApplication` began with; the difference in units or machines is taken
from it while units come and go. `Resize` and `Scale` are the number of units in
IAAS and CAAS models, `addUnits` and `removeUnits` the machines. `CallFails`
stands for every call of a handler that fails before it has an effect,
`DeployAnswerLost` for one that fails after. Waits give up when they do not see
what they wait for (`WaitFails`); when they would, only a fault ends them
otherwise. `Setups` are the settings that stay: number of units or machines,
type of model, local charm, `skip_failed_deletion`.

### Resources

A handler of `Identities`, `Clouds`, `ModelParts`, `Hosts` or `AppSettings` is an
operator that gives the sequence of calls the code makes when none fails
(`Create`, `Update`, `Delete`), or the set of states `Read` can return: `{None}`
takes the resource from the state, `{}` is an error. Its operators have the names
of the client's methods. `Resources` runs these sequences one call at a time:
`Step` makes a call, `Refused` is the controller (or a check of the handler) not
going along with it, `CallFails` any other error, `AnswerLost` a call that takes
effect but whose answer does not come, `Returned` and `Deleted` the end.
`saves` is a state set before the end (a machine, before it runs); `soft` a call
whose failure is a warning and leaves a part out of the state. Around them are
`OutsideChange` (somebody makes, removes or edits an object), `Vanish` (what was
told to go goes), `Import` and `EditConfig`. A handler that reads and then acts
(the update of an application from a status, the deletion of a space) takes what
it acts on when it begins; what is written may have changed since.

`Terraform.tla` holds what is the same for every resource: a Create that fails
without a state leaves none, one that has set it leaves a tainted resource, a
result that is not as planned is an error too (`Consistent`), a replacement is a
deletion and then a creation.

### AccessGrants

Access is a level for each user, 0 to 3. `Grant` never lowers it and `Revoke`
takes a level and those above it, as the controller does. The four kinds differ
in what `Read` sees (`juju_access_model` only the users of its ID with exactly its
level, an offer everybody but the provider's user), and in the order and the size
of the calls.

## 3. Runs

| run | instance | distinct states | result |
|---|---|---|---|
| `wait_action` | duration 12 s, delay 2, cap 5; calls of 0, 1 or 4 s; the context done at 3, at 7 or never; four errors, two of them retried | 906 | holds |
| `wait_delete` | the default fifteen minutes, every error retried; calls of 0 or 45 s | 4,319 | holds |
| `cache` | two handlers, three models of which two share a name | 89,988 | holds |
| `integration_resources` | two integrations sharing an application, one with an offer that provides and one with an offer that requires, two listers, three status objects | 422,869 | holds |
| `action_applies` | two units, three actions | 21,318 | holds |
| `expose_applies` | two endpoints and `""`, one space, one CIDR, two edits or outside changes, two faults | 85,671 | holds |
| `expose_empty` | the same, one edit | | `EmptyBlockExposesAll` violated |
| `app_applies` | four unit names, at most two units or machines wanted, four setups, two changes, two faults | 175,903 | holds |
| `resources` | the eighteen kinds, two names, two edits, imports or outside changes (one for `machine`, `model` and `controller`), one fault | 1,609,551 | holds |
| `resources_settle` | the same, one change, one fault | 287,196 | holds |
| `access_grants` | the four kinds, two users and the provider's own, each of whom may be configured, two changes, one fault | 727,583 | holds |
| `access_model` | the model kind, one change | | `UsersChangedApplied` violated |

Four more configurations, which are not runs, show disagreements that section 4
describes: `MCIntegration_list` (`ListedAreIntegrations`, which allows no list to give
an overwritten endpoint), `MCIntegration_offer` (`CreateReportsOffer`),
`MCAction_rerun` (`NotReexecuted`), `MCApplication_orphan` (`PartialIsRecorded`).

What the passing runs show:

* **wait**: no attempt begins after the duration, a wait gives up no earlier
  than one delay before its end, attempts are spread by the first delay, none
  but the first begins after the context is done, the data of a successful wait
  was asserted, and the engine refines `WaitPromise`.
* **cache**: whatever the handlers do to the cache while it is filled, known
  models stay in it; a model removed from a filled cache stays out; lookups find
  the models that were there, unless the one fill failed; a lookup by name finds
  the replacement, unless the fill found its predecessor dying; no handler is
  left waiting for the mutex.
* **integration**: an integration leaves the state only if it was off the
  controller at some time in this run, and Delete reports success only when the
  relation is gone, though both look through a cache; every ID that is stored
  finds its relation. A list leaves out no integration that was there all
  through the run and makes none up, whoever has parsed the status it reads
  before, and each is listed by its own ID but for one case: where an offer
  requires, the first reader of a status overwrites the requirer in it, and the
  next lists the provider twice (section 4). An offer that provides is the last
  of the endpoints, and overwriting it changes nothing. The exception is as narrow
  as the statement can have it: it is taken only where a status is in fact
  overwritten, and even then the identity that the list gives is stated.
* **action**: the output is that of the recorded action, which completed; every
  action that was enqueued is recorded unless its answer was lost; none is
  enqueued while a recorded one is unfinished; every apply ends.
* **exposure**: between the two calls nothing is exposed that neither the state
  nor the plan exposes, and what both expose alike stays; later applies make
  good what failed; after a successful update exactly the named endpoints of the
  plan are exposed, also when an operator had changed them.
* **application**: later applies lead to the configuration or to one of two
  named exceptions (section 4); an update destroys no unit of a machine that is
  kept; an application that left the state is orphaned for a known reason.
* **resources**: an object that a resource made, read or imported is in its state
  or going, but for those it lost in a way that `excused` records; no call
  changes an object of somebody else's; when Create or Update report success the
  controller has what was asked, also after an Update that failed half way; an
  apply that succeeded is followed by a plan with nothing to do; what handlers
  return is what was planned; and left alone, applies come to what is configured
  or to a named place where only somebody else can help.
* **access**: somebody who keeps access to an offer never loses it on the way;
  the provider's user keeps its own; what was given is taken back at the end,
  but for those the resource lost sight of; applies come to what is configured.

The properties of `Resources` name their exceptions as operators, each a list of
cases with what the code does there: `Unsaved` and `excused` (objects that are
lost), `Unapplied` (a perpetual difference), `PlannedOtherwise` (a result that is
not as planned), and `Blocked`, `Rejected` and `Retained`, together `Stuck`
(applies that fail for ever). Without one of them TLC gives a run of the code that
shows the case.

### Bounds, and why they are enough

Two handlers are enough for every race in the cache, since all sections but the
fill are atomic under one mutex and the fill is serial; three models give a
model, its replacement and a bystander; the proofs then hold for any number. Two
integrations share an application so that a wrong key can find the wrong
relation, and have their offers on either side; two listers are one that parses a
status and one that reads it afterwards; and three status objects are one cached,
one in use and one being fetched. Three actions are one that fails, one in its place, and one more.
Two endpoints are one that stays and one that goes; one space suffices because a
setting is compared with `=`, with "none" as the other value. Four unit names
leave room for two dying units beside two alive ones. Edits, outside changes and
faults are counted (`MaxChanges`, `MaxFaults`): where two of each are given, that
is what it takes for a fault in the repair of a fault.

In `Resources` a field has one value more than the code distinguishes: unset, set,
and, where a change is treated in a way of its own, set to something else. Two
names are one that is wanted and one that is taken by somebody else or left
behind; a handler can make one object at a time, so that four identifiers are
enough for the object, its replacement, one that was lost and one of somebody
else's. A kind with many fields has some of them vary one at a time
(`ModelConfigs`, `Models`, `AppConfigs`): its calls for them are independent but
for their order, which a pair of fields shows. Two changes are an edit and
somebody else's hand in it; with one fault they make a failing call, an edit and a
change outside in every order. The three kinds with the most fields and calls
(`machine`, `model`, `controller`) see one change in a behaviour instead of two
(`LargeKinds` in `MCResources`): their second change multiplies the states and not
the cases, and all properties of this run are theorems for any number of changes
and faults. Liveness (`resources_settle`) is checked with one of each.

In `AccessGrants` two users are one who keeps access and one who does not; the
third is the provider's own, who may be in the configuration too: only the user
"admin" is refused there (`resource_access_offer.go:524`).

No symmetry is used, since most runs check liveness.

`CHECK_DEADLOCK FALSE` is set for `Wait`, whose call returns, and for
`Application`, `Resources` and `AccessGrants`, where nothing is left to do once
the resource is deleted and the changes are spent.

### Fairness

* `Wait`: `WF_vars(Next)`; the loop is sequential code and its timers fire.
* `ModelCache`: `SF_vars(Step(h))` for each handler that has begun; Go's mutex
  does not starve a waiter. No handler is obliged to begin, and the controller is
  not obliged to finish a removal: `GiveUp` ends the wait.
* `Action`: `WF_vars(ApplyStep)`; waits end (`Wait`), nothing obliges the
  controller.
* `Exposure`: `WF_vars(Apply)`: terraform is run again and again, and edits and
  faults come to an end. That is the meaning of "later applies make it good".
* `Application`: the same, and the controller finishes the removals it began
  (`UnitGone`, `AppGone`).
* `Resources`: the same: `WF_vars(ApplyStep)`, and `WF_vars(Vanish)` for what was
  told to go. A wait for an object that is going can be ended by a fault only.
* `AccessGrants`: `WF_vars(ApplyStep)`.
* `Integration`: none; it has safety properties only.

## 4. Where the code and what it says disagree

Checked by a run that finds the violation:

* `expose_empty`: going from named endpoints to `expose {}` with the same spaces
  and CIDRs unexposes the endpoints and exposes nothing
  (`resource_application.go:1780`); the next refresh shows it and the apply after
  that repairs it.
* `access_model`: the update of `juju_access_model` takes the users of the state
  from the plan (`resource_access_model.go:267`): users that were added get no
  access, users that were removed keep theirs, and the state says otherwise.

Checked by one of the four other configurations:

* `MCApplication_orphan`: a wait that fails after the deployment leaves no state
  (`resource_application.go:893`); every later apply fails on an application that
  exists.
* `MCIntegration_offer`: Create validates with a status that may be older than the
  consumed offer (`integrations.go:131`).
* `MCIntegration_list`: parsing a shared status overwrites it
  (`integrations.go:279`), so that a second reader lists the integration of an
  application with itself, where an offer requires. `ListsIntegrations` says how
  far this goes, in a passing run.
* `MCAction_rerun`: an action whose result a later Read has stored is run again,
  since the resource is still tainted.

Met while modelling, and visible in the models as what they do or as a named
exception of a property:

*Caches, applications, integrations, actions*

* a fill of the model cache that fails is never tried again (`client.go:382`),
  and one that finds a model dying caches it for good (`client.go:440`): the two
  exceptions in `PriorModelsFound` and `ReplacementFound`;
* Read keeps the machines of the state when the answer has none
  (`resource_application.go:1131`), so that an application on machines that has
  lost its last unit is taken to be as configured: `Emptied` in `Settles`;
* any per-item error of `ApplicationsInfo` is taken for the application's absence
  (`applications.go:704`): `RefreshItemError` and the reason "itemError" in
  `OrphansExplained`;
* dying units are counted (`applications.go:1187`), so that an update may be
  satisfied with units that are leaving; later applies repair it (`Settles`);
* a local charm whose resources cannot be registered is recorded as partly
  created before anything was deployed (`deploy_local.go:156`): `RegisterFails`;
  the next refresh repairs it;
* a read folds the settings of all exposed endpoints into one block, of which
  each setting is the first that is not empty in map order
  (`applications.go:833`): spaces or CIDRs that an operator has changed at one
  endpoint may not be seen, and stay. `UpdateSetsNames` is therefore about the names
  only, and `NothingUnasked` and `NoGap` claim nothing after such a change;
* the key ReadIntegration calls reversed is the key itself
  (`integrations.go:190`), so that the advice to check the order of the endpoints
  is never given: `WithKey`;
* the leader is resolved before the action is looked up and the charm waited for
  (`resource_action.go:172`), so that the action may go to a unit that leads no
  more;
* an action without output leaves a null, which every Read takes for a missing
  result (`resource_action.go:263`): when the controller has pruned it, the
  refresh fails (`ReadFails`);
* the wait after a storage pool's update names no error to retry, so that its
  first look ends it (`resource_storage_pool.go:348`).
* a binding of an endpoint that went with the charm's revision stays in the state,
  because Read replaces the bindings only by others (`resource_application.go:1239`),
  and every later update that unbinds it fails: `UnbindsNothing`; an endpoint that
  came with the revision stays in the old default space when the default changes
  in the same update, and a second apply moves it: `Unapplied`;
* the update of storage directives reaches the controller only with one of the
  charm or of resources, since `UpdateCharmAndResources` returns early without
  these.

*Objects that are lost from sight* (`Unsaved`, `AnswerLost`)

* Creates that make something and then fail return no state: an offer that is not
  found in the list, a model whose constraints or annotations cannot be set, a
  space or a storage pool that does not show in time, a controller whose addresses
  cannot be read;
* a credential that is not wanted in a place any more stays there, and an Update
  that fails between the two places leaves one of them out of the state;
* with `skip_failed_deletion` a deletion that fails is a warning.

*Objects that are taken for others* (`Mistaken`)

* a JAAS group or role is kept by its UUID, but renamed and removed by the name
  that the state has (`resource_jaas_group.go:172`, `:199`, and the same lines of
  `resource_jaas_role.go`): when somebody has renamed it since the refresh and
  given its name to another one, the update renames, and the deletion removes,
  that other one. It takes two changes outside and an edit, one more than the run
  has; the proof of `OrphansExplained` has to account for it.

*Differences that stay* (`Unapplied`, `PlannedOtherwise`)

* a user's display name is sent by Create only (`UserUpdate`): a later one stays in
  the state until the next refresh, and an apply that changes nothing else ends in
  an error, since it returns the old state;
* a secret backend's rotation interval is printed in another way than it was
  written ("1h", "1h0m0s") and an unset one is never sent; renaming a backend
  changes an ID that the plan kept, as does renaming a machine and moving a
  credential;
* a model whose secret backend cannot be set gets a state that is not as planned:
  the model is tainted and replaced, where the warning says that it will be
  reconciled on the next apply (`resource_model.go:402`);
* a JAAS controller without a certificate of its own is tainted by every apply; one
  that was imported is replaced;
* keys of a controller's, a model's or an application's configuration and
  attributes of a storage pool that are removed by somebody else are not seen
  (`Lingering`).

*Applies that fail for ever* (`Stuck`)

* Read reports an error, instead of taking the resource from the state, for a user,
  a cloud, a group, a role, a secret, a storage pool, a machine or a controller that
  is not there, and for a subnet, whose missing is an error of another type
  (`subnets.go:27`) than the one looked for (`resource_subnet.go:245`);
* an agent version can be configured for a model that exists only: when the model
  is lost, or tainted, nothing is planned until it is taken out
  (`modifier_model_agent_version.go:31`);
* a change of a model's credential is made with a connection to the controller,
  which has no model (`models.go:474`), after configuration and constraints were
  set: it always ends in an error. That such a connection has none is Juju's API
  library's doing and outside `src/`;
* the update of a kubernetes cloud fails with JAAS, and elsewhere renews neither
  the credential nor the storage; a JAAS controller has no Update, though `force`
  alone can change; whether a machine is to be waited for can never change;
* the binary of a controller's series is needed to destroy it: one upgraded
  elsewhere cannot be destroyed, and a controller that is gone never leaves the
  state; importing one leaves the binary out;
* the import of an SSH key always fails in Read;
* JAAS access that everybody has lost cannot be destroyed, since an empty list of
  tuples is refused.

*Other*

* what a failed or lost Update has already sent is not in the state: when the
  configuration is edited back before the next apply, nothing is sent
  (`touched`, "failed" in `SuccessIsTrue`);
* an offer's access that names the provider's own user is never as configured,
  since Read leaves that user out (`resource_access_offer.go:223`): every plan
  grants it again;
* the deletion of a space moves the subnets of the first result only
  (`spaces.go:269`);
* `UpdateAccessSecret` looks at the first result only: grants that failed are
  reported as made, revokes as done (`GrantSecret`, `RevokeSecret`);
* the state of a model's access is set also after an error of the update;
* the creation of an offer takes over the offer of that name that is there; a
  credential likewise;
* a deletion that timed out can be followed by the update of the object that is
  going.

## 5. Proofs

Every theorem holds for every value of the constants that satisfies the named
assumption of its module: types of the arguments, sentinels (`None`, `All`) that
are none of the values, finite sets of units and machines, an integration that is
no other one with its sides exchanged, and in `Calls` one name, "a", that some
kinds are tried with. The theorems of `Resources` have
hypotheses besides, described below. A proof module has
an inductive invariant, a conjunction of named parts (`IInv`, or `WaitInv`,
`CacheInv`, `Grounded`); a lemma that `Init` gives it, one that every step keeps
it, with a step for each action, and theorems that follow from it. TLC has checked
each invariant on the instance of the module's run before it was proved, but for
`FittedInv` and `StableInv` of `SuccessProofs`, which quantify without a bound. The three
modules about `Resources` take the prover 10 to 20 minutes each.

| module | theorem | property |
|---|---|---|
| `ClientProofs` (`Wait`) | `WaitTypeCorrect`, `WaitIsBounded`, `WaitGivesUpLate`, `WaitSpreadsCalls`, `WaitHonoursCancel`, `WaitReturnsAssertedData`, `WaitKeepsPromise` | `WaitTypeOK`, `AttemptsWithinDuration`, `GivesUpLate`, `CallsSpread`, `CancelHonoured`, `ReturnedDataAsserted`, and the safety part of `WaitPromise` (a refinement) |
| `ClientProofs` (`ModelCache`) | `ModelCacheTypeCorrect`, `KnownModelsStay`, `RemovedModelsStayOut`, `PriorModelsAreFound`, `ReplacementIsFound` | `CacheTypeOK`, `KnownModelsCached`, `RemovedModelsUncached`, `PriorModelsFound`, `ReplacementFound` |
| `ClientProofs` (`Action`) | `ActionTypeCorrect`, `OutputIsAlwaysTheResult`, `EnqueuedIsAlwaysRecorded`, `ActionsDoNotOverlap` | `TypeOK`, `OutputIsTheResult`, `EnqueuedIsRecorded`, `NoOverlap` |
| `IntegrationProofs` | `Typing`, `IDsFindTheirRelations`, `ForgetsOnlyTheAbsent`, `DeletedIsGoneForGood`, `ListsAreComplete` | `TypeOK`, `IDsFindRelations`, `ForgottenWasAbsent`, `DeletedIsGone`, `ListsIntegrations` |
| `ExposureProofs` | `Typing`, `ExposesNothingUnasked`, `LeavesNoGap`, `UpdateBringsNames` | `TypeOK`, `NothingUnasked`, `NoGap`, `UpdateSetsNames` |
| `ApplicationProofs` | `Typing`, `OrphansAreExplained`, `KeepsMachines` | `TypeOK`, `OrphansExplained`, `KeptMachinesUntouched` |
| `AccessGrantsProofs` | `Typing`, `KeepsOwnAccess`, `DestroyLeavesNothing`, `NoInterruption` | `TypeOK`, `OwnAccessKept`, `DestroyedLeavesNothing`, `AccessNotInterrupted` |
| `ResourcesProofs` | `OrphansAreExplained`, `OthersAreUntouched`, `ResultsArePlanned` | `OrphansExplained`, `OthersUntouched`, `ResultsAreAsPlanned` |
| `HandlerProofs` | `HandlersCreate`, `HandlersUpdate`, `ReadsFind` | what Create, Update and Read of any kind give; the next two rest on it |
| `SuccessProofs` | `SuccessesAreTrue`, `AppliesSettle` | `SuccessIsTrue`, `AppliedIsStable` |

* **ClientProofs, of `Wait`.** Neither bound on the clock is inductive: that an attempt
  begins within the duration needs the timer to be set within it (`ClockInv`),
  that the calls are spread needs every delay to be at least the first
  (`DelayInv`: the first delay may exceed the cap until the first backoff). The
  refinement needs to know which observation the pending error came from
  (`ObservationInv`). `FirstFailureCorrect` says what the choice of the first
  failing assertion returns, `ObservationSorted` that `Func` and `IsFatalError`
  sort observations as the promise does; with them `WaitKeepsPromise` shows that
  each step is a step of `WaitPromise` or a stutter.
* **ClientProofs, of `ModelCache`.** Known models are never lost because a handler that
  removes a model has exclusive hold of it (`ClaimInv`); removed ones stay out
  because only the one fill adds what it does not claim (`FillInv`: before the
  fill every removed model is `early`; `MutexInv`: a reader works on a filled
  cache). `ReplacementIsFound` needs in addition that at most one model of a name
  is not destroyed (`NameInv`), which the controller and Terraform's order give.
* **ClientProofs, of `Action`.** `ControlInv` ties the program counter to what is in the state
  and in the response; `KnownInv` says that an action is lost, recorded or in the
  response, and that past a refresh the recorded one has finished, from which no
  two overlap.
* **IntegrationProofs.** The question is what a cached status can still be
  relied on for. `StaleInv`: a relation that some status in use, or in the cache,
  does not list has been off the controller in this run, and is still off it
  unless this run's Create has made it since; `OpInv` keeps a Create and the
  Delete of one resource apart. A status that does list a relation says nothing,
  so none of these theorems uses one; that is why Create may validate with a stale
  one (`MCIntegration_offer`). `ListsAreComplete` uses the same invariant for what
  a list must contain. For what it may contain, `OrderInv` says which endpoints a
  relation can have in a status, however often it was parsed: none, requirer and
  provider, or, where an offer requires, the provider twice. Parsing maps these to
  one another (`ShortenedInOrder`), and `ListedAs` says which identity each gives
  (`ListedID`). There is no hypothesis on the side that offers.
* **ExposureProofs.** `NothingUnasked` and `NoGap` are about the time between two
  calls, and not inductive: `ProgressInv` says, endpoint by endpoint, what is
  exposed before, between and after them. It can say so only because what a
  read folds into one block was exposed with one setting (`UniformInv`), which an
  operator may change: then the two properties make no claim, but the named
  endpoints are still followed (`NamesInv`), which gives `UpdateSetsNames`. The
  lemmas on `computeExposeDeltas` say what it unexposes and exposes for two
  blocks, or one and none.
* **ApplicationProofs.** An application that the state does not name is one that
  is being created (`OrphanInv`). No machine that is kept loses a unit because a
  unit that the status shows on a machine is there still, or is gone and its name
  not given again (`SnapshotInv`); that is what makes it sound to choose units by
  an old status.
* **AccessGrantsProofs.** `OwnInv`: after the refresh no state of an offer names
  the provider's own user, since the read leaves it out, so that no handler revokes
  from it; a configuration may name it, but a grant gives nothing to an owner.
  `OursInv`: all that was given is in the state, in the list of the running handler, or lost sight of.
  `AccessNotInterrupted` follows from how far a revoke goes for a level to be left
  (lemmas on `revokeAccessIfNeeded`) and from who is still in the list
  (`ControlInv`).
* **ResourcesProofs.** The invariant is about the calls that a handler has
  still to make (`calls`). `WorkInv`: each object that the resource holds is in the
  state, going, lost for a listed reason, or in the state that the handler is about
  to return; and for kinds whose failures nothing excuses, a call that makes
  something new is directly followed by the state being set. `DeleteInv`: one of
  the calls to come disposes of each object in the state, or an error comes
  first. The proof has two halves. That calls of the form `WorkCalls` and
  `DeleteCalls`, run one at a time with any of them refused, failing, or losing
  its answer, keep the invariant, is proved once (`StepKeeps` and its siblings).
  That what `Create`, `Update` and `Delete` return has that form, and what
  `Read` and import return is a state that names its object, is proved for each of
  the eighteen kinds (`UserKeeps`, ..., `ApplicationKeeps`): this is where the
  code of the handlers comes in, with all their branches. It holds for every set of
  names, any number of edits, faults, imports and changes outside. The hypothesis
  `NoneIsNoState` says that `None` is no record with a field "id"; it is not an
  assumption of the module because TLC cannot take the domain of a model value.

  `OthersAreUntouched` needs to know whose the object is that a call to come will
  change. `SafeInv`: as long as nobody has come between, it is the resource's, or
  nobody's, or a call still ahead of that one will settle it, since the controller
  refuses to add what is there, and a subnet is looked at before it is moved. When
  a handler begins, what its state names has just been refreshed or made
  (`CreatesOwn`, `UpdatesOwn`, `DeletesOwn`: handlers touch nothing else). Groups
  and roles are changed and removed by name, which says nothing of the object:
  `NamedInv` adds that a name is one object's and that the state's name is its
  object's, until somebody renames it.

  `ResultsArePlanned` follows from `PlanInv`: whatever a call to come returns, saves,
  or hands back when it fails, agrees with the plan in every argument that is not
  computed, or differs in one of the ways that `PlannedOtherwise` names. Three facts
  must be carried along for it. A machine's Read takes the name from the ID, so the
  two must agree (`Shaped`, which Read and import must establish). An update of an
  SSH key returns the state as it was, and one of a machine its old constraints,
  which is as planned only because what differs there is replaced: an update starts
  with `~Replaced`. Create of a model returns its state in three degrees of
  completeness, one for each call that may fail softly. `NoneIsNoConfig` says that
  `None` is no record with a field "name".
* **HandlerProofs and SuccessProofs.** That what is reported done is so cannot
  be followed from what a call leaves: it is true of the object only after the
  last call, and of a field that an Update does not send it was true before. The
  invariant `Grounded` therefore says of every field asked for that it is in the
  object already and no call to come spoils it, or that it will come of one of
  them (`GetsInv`, with `Comes` and `Sure` for sequences of calls; a call that
  may fail without failing the handler has to be the last that matters,
  `SoftLast`). That a Create begins so follows from its configuration
  (`HandlersCreate`). That an Update does (`HandlersUpdate`) depends on what the
  state tells of the object:

  - for the fields that Read sees, on the refresh just before (`SeenInv`,
    established by `ReadsFind`);
  - for those that it does not see, or not always (a password, the content of a
    secret or of a backend, settings of models, controllers and applications,
    the bindings of endpoints), on everything since the object was made:
    `HoldingInv` says that the object is as the state and the configuration have
    it, where these agree; `TruthInv` that it is as the state has it, unless an
    Update failed or the configuration was edited since; `ComingInv` that what
    agrees still comes of the calls to be made; `HeedingInv` that no call of an
    Update changes what agrees; `LeavingInv` and `RenewingInv` that those of a
    Delete set nothing, and that the states returned have the configured values.
    Together they are `HiddenInv`. A change by others that no refresh can show
    ends the claim ("unseen" in `touched`);
  - for an application, on which endpoints it has, which a charm of another
    revision changes in the middle of an Update (`AppInv`).

  `SoundInv` is the type invariant these need: objects, states and calls have
  all the fields of their kind and no other. `SuccessesAreTrue` is then read off
  when the last call returns, and kept by refreshes.

  `AppliesSettle` adds what is in an object beyond what is asked, but not beyond
  what Read goes by: the agent version and the credential that a model gets when
  none is configured, the spaces that endpoints without a binding are in, the
  form of the ID. `FittedInv` says that these too come of the calls to be made
  as the state to be returned has them, for each state that any of the calls may
  end with; `PerceivedInv` that the refresh before an Update has found them;
  `StableInv` that the state is what reading the objects gives back and what
  would be planned.

  The hypotheses say that `None` is no record with a field "id" or "name"
  (`NoneIsNoState`, `NoneIsNoConfig`), none of the values of fields
  (`NoneIsNoValue`) and no function on endpoints (`NoneIsNoBindings`); they are
  hypotheses because TLC cannot take the domain of a model value. That a cloud's
  regions come back in the order of the configuration is `RegionsAssumption` of
  `Clouds`: a closed statement about `SelectSeq` and `SetToSortSeq`, for which
  the provers have no theory and which TLC evaluates on every run.

What the proofs have found in the models. `Mistaken` (section 4): the invariant was
not inductive for groups and roles, and three changes show why. `touched` did not
record a change made before an edit (a run of each kind alone with three changes
found it, for `SuccessIsTrue`). `ListedAreIntegrations` does not hold when an offer
requires, and `ListsIntegrations` says what does. Three
assumptions on constants were missing that TLC's model values satisfy by
themselves (None is no state, no machine, no function of levels). For the last two theorems
no property had to change; definitions that used operators the provers have no
theory of (`@@`) were written as functions.

Only model-checked:

* liveness: `KeepsPromise` beyond its safety part, `HandlersFinish`, `AppliesEnd`,
  `SettlesAsAsked`, and `Settles` of `Application`, `Resources` and `AccessGrants`.
  They need `ENABLED` and fairness, which TLAPS does not reason about.

`Resources` has no type invariant among its properties: that the keys in a state are
among `Keys` holds only while the four identifiers last, which is a bound of the
model. What the proofs need of it is in `ControlInv` and `SoundInv`, for states that
are in use; an object with no identifier of these four is put nowhere.

## 6. Plan

Done: `Wait` with its promise; `ModelCache`; `Integration`; `Action`; `Exposure`;
`Application`; the eighteen kinds of `Resources`; `AccessGrants`; proofs of every
safety property that a passing run checks.

What could follow: reads of the eighteen kinds that are not atomic; two resources that
share an object; the connection pool of the shared client.

## 7. Not modelled

The Juju controller, Juju's API library and Terraform are modelled only as far as
the code uses them. Further:

* *Reads are atomic*: a `Read` that makes several calls is one step, but for
  `Integration` and `Action`, where the time between them matters.
* *One resource at a time*: `Resources`, `AccessGrants`, `Exposure` and
  `Application` apply one resource; others that touch the same objects are among
  the changes made outside.
* `Integration` leaves out `via`, endpoint names and the offering controller,
  which are carried along and not looked at. Parsing a status is one step: of
  two goroutines that parse one at the same time, each finds every endpoint as it
  was or as the other has overwritten it, which is what it finds in one of the two
  orders. That this is a data race, in which an endpoint could be copied half old
  and half new, is not modelled.
* `Application` leaves out switching between a number of units and machines.
  `AppSettings` has one option, one charm resource and two endpoints; constraints
  and trust (one call each, nothing that depends on them), storage directives,
  local charms, and how a channel and a base lead to a revision are not modelled.
* An upgrade of a controller is only started when Update returns
  (`resource_controller.go:1104`), and calls fail with "upgrade in progress" for
  a while after. `version` is the one of the controller's model configuration, which
  is what Read reads (`controllers.go:430`); it is taken to be the one asked for as
  soon as the upgrade is started. `SuccessIsTrue` and `AppliedIsStable` speak of
  this version, not of agents that have been upgraded.
* `juju_controller`: the cloud and the credential a refresh fills in, and the
  action `enable-ha`, which makes one call and keeps nothing.
* Connections (dialling, login, the proxies and offering controllers of the
  client), the merge of the provider's configuration, the data sources and the
  other list resources, which change nothing, the validators and custom types,
  which are predicates over strings, and `juju-tf-upgrader`, which rewrites
  configuration files.
* Wording of diagnostics, logging and schemas are left out throughout.
