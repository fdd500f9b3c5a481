----------------------------- MODULE ModelCache -----------------------------
(***************************************************************************)
(* The model cache of juju.sharedClient: a map from model UUID to name,    *)
(* owner and type, shared by every resource handler of one provider        *)
(* process, guarded by modelUUIDmu, filled from the controller at most     *)
(* once (modelCacheOnce) and kept up to date by AddModel and RemoveModel.  *)
(* The controller, seen through modelmanager, is external.                 *)
(***************************************************************************)

CONSTANTS
  Handlers,       \* handlers of the provider that run concurrently
  UUIDs,          \* the models there ever are
  Names,          \* a name stands for the pair of model name and owner
  NameOf,         \* the name of each model; a replaced model keeps its name
  Nobody,         \* the holder of a free mutex
  NoModel         \* the model an idle handler works on

ASSUME ModelCacheAssumption ==
  /\ UUIDs # {}
  /\ NameOf \in [UUIDs -> Names]
  /\ Nobody \notin Handlers
  /\ NoModel \notin UUIDs

VARIABLES
  controller,  \* the controller's models: "never", "alive", "dying" or "gone"
  cache,       \* modelUUIDcache: the UUIDs that have an entry
  once,        \* modelCacheOnce has run
  mutex,       \* modelUUIDmu
  doing,       \* what each handler is doing
  arg,         \* the model a handler works on
  listed,      \* the answer of ListModelSummaries, while the cache is filled
  answer,      \* what the last lookup answered: a set of one model, {} NotFound
  known,       \* history: models whose last call here made them known
  prior,       \* history: models alive since the process began, left alone by it
  removed,     \* history: models RemoveModel has taken out
  early,       \* history: those it took out before the cache was filled
  destroyed,   \* history: models whose Delete returned with no error
  fillFailed   \* history: the fill has failed

cacheHistory == <<known, prior, removed, early, destroyed, fillFailed>>
cacheVars == <<controller, cache, once, mutex, doing, arg, listed, answer, cacheHistory>>

Present(u) == controller[u] \in {"alive", "dying"}
Idle(h) == doing[h] = "idle"
Goto(h, label) == doing' = [doing EXCEPT ![h] = label]
Begin(h, u, label) == Idle(h) /\ Goto(h, label) /\ arg' = [arg EXCEPT ![h] = u]
Finish(h) == Goto(h, "idle") /\ arg' = [arg EXCEPT ![h] = NoModel]

\* Terraform's graph orders the operations on one resource: no two handlers
\* work on the same model, lookups excepted.
Claimed(u) == \E h \in Handlers : arg[h] = u /\ doing[h] \in {"adding", "removing", "waiting"}

CacheInit ==
  /\ controller \in [UUIDs -> {"never", "alive"}]
  /\ \A u, v \in UUIDs : Present(u) /\ Present(v) /\ NameOf[u] = NameOf[v] => u = v
  /\ once = FALSE
  /\ cache = {}
  /\ mutex = Nobody
  /\ doing = [h \in Handlers |-> "idle"]
  /\ arg = [h \in Handlers |-> NoModel]
  /\ listed = {}
  /\ answer = {}
  /\ known = {}
  /\ prior = {u \in UUIDs : controller[u] = "alive"}
  /\ removed = {}
  /\ early = {}
  /\ destroyed = {}
  /\ fillFailed = FALSE

-----------------------------------------------------------------------------
\* CreateModel, up to the answer of the controller, which refuses a second
\* model of one name while the first is still there.  Terraform creates a
\* replacement once the Delete of the model it replaces has succeeded.
CreateModel(h, u) ==
  /\ controller[u] = "never"
  /\ \A v \in UUIDs :
       NameOf[v] = NameOf[u] => controller[v] = "never" \/ v \in destroyed
  /\ controller' = [controller EXCEPT ![u] = "alive"]
  /\ Begin(h, u, "adding")
  /\ UNCHANGED <<cache, once, mutex, listed, answer, cacheHistory>>

\* GetModel: the controller answers with the model's info before AddModel locks.
\* Terraform reads no model it has destroyed in the same run.
ReadModel(h, u) ==
  /\ Present(u)
  /\ ~Claimed(u) /\ u \notin removed
  /\ Begin(h, u, "adding")
  /\ UNCHANGED <<controller, cache, once, mutex, listed, answer, cacheHistory>>

\* Mutant: the entry is added to a filled cache only.
AddModelIfFilled(h) ==
  /\ doing[h] = "adding"
  /\ mutex = Nobody
  /\ cache' = IF once THEN cache \cup {arg[h]} ELSE cache
  /\ known' = known \cup {arg[h]}
  /\ Finish(h)
  /\ UNCHANGED <<controller, once, mutex, listed, answer, prior, removed, early, destroyed, fillFailed>>

\* AddModel: an entry is never overwritten, and the cache is not filled first.
AddModel(h) ==
  /\ doing[h] = "adding"
  /\ mutex = Nobody
  /\ cache' = cache \cup {arg[h]}
  /\ known' = known \cup {arg[h]}
  /\ Finish(h)
  /\ UNCHANGED <<controller, once, mutex, listed, answer, prior, removed, early, destroyed, fillFailed>>

\* DestroyModel, up to the answer of the controller.
DestroyModel(h, u) ==
  /\ controller[u] = "alive"
  /\ ~Claimed(u)
  /\ controller' = [controller EXCEPT ![u] = "dying"]
  /\ known' = known \ {u}
  /\ prior' = prior \ {u}
  /\ Begin(h, u, "removing")
  /\ UNCHANGED <<cache, once, mutex, listed, answer, removed, early, destroyed, fillFailed>>

\* Mutant: the entry is kept.
RemoveModelKeeps(h) ==
  /\ doing[h] = "removing"
  /\ mutex = Nobody
  /\ removed' = removed \cup {arg[h]}
  /\ early' = IF once THEN early ELSE early \cup {arg[h]}
  /\ Goto(h, "waiting")
  /\ UNCHANGED <<controller, cache, once, mutex, arg, listed, answer, known, prior, destroyed, fillFailed>>

RemoveModel(h) ==
  /\ doing[h] = "removing"
  /\ mutex = Nobody
  /\ cache' = cache \ {arg[h]}
  /\ removed' = removed \cup {arg[h]}
  /\ early' = IF once THEN early ELSE early \cup {arg[h]}
  /\ Goto(h, "waiting")
  /\ UNCHANGED <<controller, once, mutex, arg, listed, answer, known, prior, destroyed, fillFailed>>

\* modelResource.Delete waits until the controller no longer has the model.
FinishDestroy(h) ==
  /\ doing[h] = "waiting"
  /\ ~Present(arg[h])
  /\ destroyed' = destroyed \cup {arg[h]}
  /\ Finish(h)
  /\ UNCHANGED <<controller, cache, once, mutex, listed, answer, known, prior, removed, early, fillFailed>>

\* The wait exceeds its duration: Delete returns an error.
GiveUp(h) ==
  /\ doing[h] = "waiting"
  /\ Present(arg[h])
  /\ Finish(h)
  /\ UNCHANGED <<controller, cache, once, mutex, listed, answer, cacheHistory>>

-----------------------------------------------------------------------------
\* Mutant: an empty cache, not modelCacheOnce, tells that it was never filled.
LookupFillsEmpty(h, u) ==
  /\ mutex = Nobody
  /\ mutex' = h
  /\ Begin(h, u, IF cache # {} THEN "reading" ELSE "filling")
  /\ UNCHANGED <<controller, cache, once, listed, answer, cacheHistory>>

\* Mutant: every lookup fills the cache again.
LookupRefills(h, u) ==
  /\ mutex = Nobody
  /\ mutex' = h
  /\ Begin(h, u, "filling")
  /\ UNCHANGED <<controller, cache, once, listed, answer, cacheHistory>>

\* ModelUUID, ModelType and ModelOwnerAndName hold the mutex from here to their
\* return, the fill of the cache included.
Lookup(h, u) ==
  /\ mutex = Nobody
  /\ mutex' = h
  /\ Begin(h, u, IF once THEN "reading" ELSE "filling")
  /\ UNCHANGED <<controller, cache, once, listed, answer, cacheHistory>>

\* Mutant: the entries are keyed by name.
ListModelNames(h) ==
  /\ doing[h] = "filling"
  /\ listed' = {NameOf[u] : u \in {v \in UUIDs : Present(v)}}
  /\ Goto(h, "storing")
  /\ UNCHANGED <<controller, cache, once, mutex, arg, answer, cacheHistory>>

\* fillModelCache: ListModelSummaries answers; dying models are in the list.
ListModels(h) ==
  /\ doing[h] = "filling"
  /\ listed' = {u \in UUIDs : Present(u)}
  /\ Goto(h, "storing")
  /\ UNCHANGED <<controller, cache, once, mutex, arg, answer, cacheHistory>>

StoreModels(h) ==
  /\ doing[h] = "storing"
  /\ cache' = cache \cup listed
  /\ once' = TRUE
  /\ listed' = {}
  /\ Goto(h, "reading")
  /\ UNCHANGED <<controller, mutex, arg, answer, cacheHistory>>

\* Mutant: the failing path returns with the mutex held.
FillFailsLocked(h) ==
  /\ doing[h] = "filling"
  /\ once' = TRUE /\ fillFailed' = TRUE
  /\ Finish(h)
  /\ UNCHANGED <<controller, cache, mutex, listed, answer, known, prior, removed, early, destroyed>>

\* initializeModelCache logs the error and goes on; once has run.
FillFails(h) ==
  /\ doing[h] = "filling"
  /\ once' = TRUE /\ fillFailed' = TRUE
  /\ Goto(h, "reading")
  /\ UNCHANGED <<controller, cache, mutex, arg, listed, answer, known, prior, removed, early, destroyed>>

Answer(h, found) ==
  /\ doing[h] = "reading"
  /\ answer' = found
  /\ mutex' = Nobody
  /\ Finish(h)
  /\ UNCHANGED <<controller, cache, once, listed, cacheHistory>>

\* ModelType and ModelOwnerAndName: by UUID.
AnswerByUUID(h) == Answer(h, {arg[h]} \cap cache)

\* ModelUUID: the first entry with the name and owner, in map order.
NamedAs(h) == {u \in cache : NameOf[u] = NameOf[arg[h]]}

AnswerByName(h) ==
  /\ doing[h] = "reading"
  /\ \/ NamedAs(h) = {} /\ Answer(h, {})
     \/ \E u \in NamedAs(h) : Answer(h, {u})

\* The controller finishes the removal of a model.
ModelGone(u) ==
  /\ controller[u] = "dying"
  /\ controller' = [controller EXCEPT ![u] = "gone"]
  /\ UNCHANGED <<cache, once, mutex, doing, arg, listed, answer, cacheHistory>>

Step(h) ==
  \/ AddModel(h) \/ RemoveModel(h) \/ FinishDestroy(h) \/ GiveUp(h)
  \/ ListModels(h) \/ StoreModels(h) \/ FillFails(h)
  \/ AnswerByUUID(h) \/ AnswerByName(h)

CacheNext ==
  \/ \E h \in Handlers, u \in UUIDs :
       CreateModel(h, u) \/ ReadModel(h, u) \/ DestroyModel(h, u) \/ Lookup(h, u)
  \/ \E h \in Handlers : Step(h)
  \/ \E u \in UUIDs : ModelGone(u)

\* A handler that has begun goes on; no handler is obliged to begin.  The
\* mutex of Go is starvation free.
CacheSpec == CacheInit /\ [][CacheNext]_cacheVars /\ \A h \in Handlers : SF_cacheVars(Step(h))
-----------------------------------------------------------------------------
CacheTypeOK ==
  /\ controller \in [UUIDs -> {"never", "alive", "dying", "gone"}]
  /\ cache \subseteq UUIDs
  /\ once \in BOOLEAN
  /\ mutex \in Handlers \cup {Nobody}
  /\ doing \in [Handlers -> {"idle", "adding", "removing", "waiting",
                             "filling", "storing", "reading"}]
  /\ arg \in [Handlers -> UUIDs \cup {NoModel}]
  /\ listed \subseteq UUIDs
  /\ answer \subseteq UUIDs
  /\ known \subseteq UUIDs
  /\ prior \subseteq UUIDs
  /\ early \subseteq removed /\ removed \subseteq UUIDs
  /\ destroyed \subseteq UUIDs
  /\ fillFailed \in BOOLEAN

\* A model this process created or read, and did not ask to destroy, is never
\* lost from the cache, whatever handlers fill it, add to it and remove from it
\* at the same time, and whether or not the fill failed.
KnownModelsCached == known \subseteq cache

\* A model RemoveModel took out of a filled cache stays out, though the
\* controller still has it: no reader, and no fill, puts it back.  (Before the
\* fill it may: the fill lists dying models.)
RemovedModelsUncached == removed \cap cache \subseteq early

\* A model that was there when the process began and that it leaves alone is
\* found by every lookup, whoever added to the cache first ("to ensure that the
\* cache is populated with model data", client.go:380), unless the fill failed.
PriorModelsFound ==
  [][\A h \in Handlers :
       /\ doing[h] = "reading" /\ doing'[h] = "idle"
       /\ arg[h] \in prior /\ ~fillFailed
       => answer' # {}]_cacheVars

\* ModelUUID "returns the model uuid for the requested model name and owner"
\* (client.go:403): after a model was destroyed and created again under its
\* name, the lookup answers with the new one, unless the fill found the old one
\* dying.
ReplacementFound ==
  [][\A h \in Handlers, u \in known :
       /\ AnswerByName(h)
       /\ controller[u] = "alive" /\ NameOf[u] = NameOf[arg[h]]
       /\ \A v \in early : NameOf[v] # NameOf[u]
       => answer' = {u}]_cacheVars

\* No handler is left waiting for the mutex, or holding it: every operation
\* that has begun ends, the failing ones included.
HandlersFinish == \A h \in Handlers : ~Idle(h) ~> Idle(h)
=============================================================================
