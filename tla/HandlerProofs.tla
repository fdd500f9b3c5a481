---------------------------- MODULE HandlerProofs ----------------------------
(***************************************************************************)
(* What the handlers of every kind do to the fields of objects: that their *)
(* calls, made to the end and left alone, give every field asked for by    *)
(* the configuration its value (Gets), and every field that Read does not  *)
(* see one that the configuration allows (Keeps); and what Read finds.     *)
(* What is said of sequences of calls is proved once, then of the calls of *)
(* Create and of Update kind by kind.                                      *)
(***************************************************************************)
EXTENDS ResourcesProofs

-----------------------------------------------------------------------------
(* Objects, states and calls.                                              *)

\* The fields of an object, and of a state.
FieldsOf ==
  CASE kind = "user"             -> {"name", "display", "password"}
    [] kind = "credential"       -> {"name", "auth"}
    [] kind \in {"group", "role"} -> {"name"}
    [] kind = "jaas_controller"  -> {"name", "ca"}
    [] kind = "cloud"            -> {"name", "storage", "regions", "cacerts"}
    [] kind = "kubernetes_cloud" -> {"name", "config", "storage", "credential"}
    [] kind = "secret_backend"   -> {"name", "interval", "content"}
    [] kind = "offer"            -> {"name", "endpoints", "connected"}
    [] kind = "space"            -> {"name", "subnets"}
    [] kind = "subnet"           -> {"name", "space"}
    [] kind = "secret"           -> {"name", "info", "content"}
    [] kind = "storage_pool"     -> {"name", "provider", "attrs"}
    [] kind = "ssh_key"          -> {"name", "comment"}
    [] kind = "machine"          -> {"name", "constraints", "annotations"}
    [] kind = "model"            -> {"name", "config", "constraints", "annotations", "backend", "agent", "credential"}
    [] kind = "controller"       -> {"name", "config", "modelconfig", "version"}
    [] kind = "application"      -> {"name", "revision", "config", "resource", "default", "db", "new"}

StateFields ==
  {"id"} \cup
  CASE kind = "user"             -> {"name", "display", "password"}
    [] kind = "credential"       -> {"name", "auth", "client", "controller"}
    [] kind \in {"group", "role"} -> {"name"}
    [] kind = "jaas_controller"  -> {"name", "ca", "password", "force"}
    [] kind = "cloud"            -> {"name", "storage", "regions", "cacerts"}
    [] kind = "kubernetes_cloud" -> {"name", "config", "storage"}
    [] kind = "secret_backend"   -> {"name", "interval", "version"}
    [] kind = "offer"            -> {"name", "endpoints", "force"}
    [] kind = "space"            -> {"name"}
    [] kind = "subnet"           -> {"name", "space"}
    [] kind = "secret"           -> {"name", "info", "value", "version"}
    [] kind = "storage_pool"     -> {"name", "provider", "attrs"}
    [] kind = "ssh_key"          -> {"name", "comment"}
    [] kind = "machine"          -> {"name", "constraints", "annotations", "hostname"}
    [] kind = "model"            -> {"name", "config", "constraints", "annotations", "backend", "agent", "credential"}
    [] kind = "controller"       -> {"name", "config", "modelconfig", "version", "binary", "uuid"}
    [] kind = "application"      -> {"name", "revision", "config", "resource", "bindings"}

\* An object has all of its fields; a model and a controller are tried with one
\* name, a model has a secret backend, the content of a secret is of some sort.
OneName == {"model", "controller"}
IsContent(v) == v = <<v[1], v[2]>>
Whole(obj) ==
  /\ DOMAIN obj = FieldsOf
  /\ kind \in OneName => obj.name = "a"
  /\ kind = "model" => obj.backend # None
  /\ kind = "secret" => IsContent(obj.content)
WholeAt(at) == \A k \in Keys : at[k] # None => Whole(at[k])
Making == {"add", "add_named", "put"}
KeepsWhole(c) ==
  /\ c.op \in Making => Whole(c.val)
  /\ c.op \in {"set", "move"} => /\ kind \in OneName => "name" \notin DOMAIN c.val
                                 /\ kind = "model" /\ "backend" \in DOMAIN c.val => c.val.backend # None
                                 /\ kind = "secret" /\ "content" \in DOMAIN c.val => IsContent(c.val.content)
  /\ c.op = "move" => c.key \in Keys
  /\ c.op = "rename_named" => kind \in NamedKinds
  /\ c.op \in Removing => pc = "delete"

\* A state is a record of all of its fields, and about objects of the instance.
Proper(s) == s = [x \in StateFields |-> s[x]] /\ KeysOf(s) \subseteq Keys
ProperCall(c) ==
  /\ c.op \in {"returns", "saves"} => Proper(c.val)
  /\ c.soft # <<>> => Proper(c.soft[1])

\* What Read cannot tell, or not always, of the objects of these kinds: the fields,
\* and where the state has them.
Hiding == {"user", "secret_backend", "secret", "model", "controller", "application"}
HiddenFields ==
  CASE kind = "user"            -> {"password"}
    [] kind = "secret_backend"  -> {"content"}
    [] kind = "secret"          -> {"content"}
    [] kind = "model"           -> {"config", "annotations", "constraints", "backend"}
    [] kind = "controller"      -> {"config", "modelconfig"}
    [] kind = "application"     -> {"config", "default", "db", "new"}
    [] OTHER                    -> {}
In(x) ==
  CASE kind \in {"secret_backend", "secret"} -> "version"
    [] kind = "application" /\ x # "config" -> "bindings"
    [] OTHER -> x

\* The value y of field x is one that v, in the state or the configuration, allows:
\* for some it is that there is one, or none.
Allows(x, v, y) ==
  CASE kind \in {"user", "secret_backend"} -> y = v
    [] kind = "secret" -> v # None => y = <<"wo", v>>
    [] kind = "model" /\ x = "constraints" -> v = None => y = None
    [] kind = "model" /\ x = "backend" -> v = None => y = "auto"
    [] (kind = "model" /\ x = "annotations") \/ (kind \in {"controller", "application"} /\ x = "config")
         -> v # None => y # None
    [] (kind = "model" /\ x = "config") \/ (kind = "controller" /\ x = "modelconfig") -> (v = None) <=> (y = None)
    [] OTHER -> v # None /\ EndpointOf(x) \in DOMAIN v => y = v[EndpointOf(x)]
Truthful(s, obj) == \A x \in HiddenFields : Allows(x, s[In(x)], obj[x])
Holds(s, w, obj) == \A x \in HiddenFields : s[In(x)] = w[In(x)] => Allows(x, w[In(x)], obj[x])

\* The call c sets field x of the object under k to v, or one that v allows; it does
\* not set it otherwise.
Ok(x, y, v, how) == IF how = "exactly" THEN y = v ELSE Allows(x, v, y)
Is(at, k, x, v, how) == at[k] # None => Ok(x, at[k][x], v, how)
Renaming == {"move", "rename_named"}
Setting == Making \cup {"set"}
Gives(c, k, x, v, how) == c.op \in Setting /\ c.key = k /\ x \in DOMAIN c.val /\ Ok(x, c.val[x], v, how)
Spares(c, k, x, v, how) ==
  /\ c.op \notin Renaming
  /\ c.op \in Setting /\ c.key = k /\ x \in DOMAIN c.val => Ok(x, c.val[x], v, how)
Still(cs, k, x, v, how) == \A i \in DOMAIN cs : Spares(cs[i], k, x, v, how)
Sure(cs, k, x, v, how) ==
  \E i \in DOMAIN cs : Gives(cs[i], k, x, v, how) /\ \A j \in DOMAIN cs : j >= i => Spares(cs[j], k, x, v, how)

\* Once the calls are made, field x of the object under k is v, or allowed by it.
Comes(cs, at, k, x, v, how) ==
  \/ Sure(cs, k, x, v, how)
  \/ Is(at, k, x, v, how) /\ Still(cs, k, x, v, how)
  \/ /\ cs[1].op = "move" /\ cs[1].val.name = k
     /\ IF x \in DOMAIN cs[1].val THEN Ok(x, cs[1].val[x], v, how) ELSE Is(at, cs[1].key, x, v, how)
     /\ Still(Tail(cs), k, x, v, how)
  \/ /\ cs[1].op = "rename_named" /\ x = "name" /\ how = "exactly" /\ cs[1].val = v /\ Target(cs[1], at) = k
     /\ Still(Tail(cs), k, x, v, how)

\* Once they are made, there is an object under k.
Unmoved(cs) == \A i \in DOMAIN cs : cs[i].op # "move"
There(cs, at, k) ==
  \/ Unmoved(cs) /\ (at[k] # None \/ \E i \in DOMAIN cs : cs[i].op \in Setting /\ cs[i].key = k)
  \/ cs[1].op = "move" /\ cs[1].val.name = k /\ Unmoved(Tail(cs))

\* The handler may succeed: it does not end with an error, nor with a state that is
\* not as planned anyway.
Off(v) == kind = "model" /\ pc = "create" /\ v.backend # wanted.backend
Good(c) == c.op # "fails" /\ (c.op = "returns" => ~Off(c.val))
AtWork(cs) == \A c \in ToSet(cs) : Good(c)

Gets(cs, at, w) ==
  \A k \in Ends(cs) : There(cs, at, k) /\ \A x \in DOMAIN Asked(w) : Comes(cs, at, k, x, Asked(w)[x], "exactly")
Keeps(cs, at, w) ==
  \A k \in Ends(cs) : \A x \in HiddenFields : Comes(cs, at, k, x, w[In(x)], "allowed")

\* Of what follows a call that may fail nothing matters.
Plain(c) == c.op \notin Setting \cup Renaming /\ Good(c)
SoftLast(cs) ==
  \A i \in DOMAIN cs : cs[i].soft # <<>> =>
    Off(cs[i].soft[1]) \/ \A j \in DOMAIN cs : j >= i => Plain(cs[j])

\* What Read has found of an object, before an Update.
Visible(s, obj) ==
  CASE kind \in {"group", "role"} -> s.name = obj.name
    [] kind = "cloud" -> s.storage = obj.storage
    [] kind = "offer" -> s.endpoints = obj.endpoints
    [] kind = "storage_pool" -> s.provider = obj.provider
    [] kind = "machine" -> s.constraints = obj.constraints /\ s.annotations = obj.annotations
    [] kind = "secret" -> /\ s.name # None => obj.name = s.name
                          /\ s.info # None => obj.info = s.info
                          /\ s.value \notin {None, 0} => obj.content = <<"plain", s.value>>
    [] kind = "model" -> /\ s.config = None \/ obj.config = None \/ s.config = obj.config
                         /\ obj.annotations # None => s.annotations = obj.annotations
                         /\ s.constraints # None => s.constraints = (IF obj.constraints = None THEN 0 ELSE obj.constraints)
                         /\ s.backend # None => s.backend = obj.backend
                         /\ s.agent = obj.agent /\ s.credential = obj.credential
    [] kind = "controller" -> /\ s.version = obj.version
                              /\ s.config = None \/ obj.config = None \/ s.config = obj.config
                              /\ s.modelconfig = None \/ obj.modelconfig = None \/ s.modelconfig = obj.modelconfig
    [] kind = "application" -> /\ s.revision = obj.revision
                               /\ obj.config # None => s.config = obj.config
    [] OTHER -> TRUE

\* The calls of an Update leave what is as the configuration has it so.
Heeds(c, s, w) ==
  c.op \in Setting \cup {"move"} =>
    \A x \in HiddenFields \cap DOMAIN c.val : s[In(x)] = w[In(x)] => Allows(x, w[In(x)], c.val[x])
Sighted == kind \in Hiding /\ "unseen" \notin touched

\* An application has the endpoint "new" when it has the second revision.
AppWhole(obj) == obj.default # None /\ ((obj.new = None) <=> (obj.revision # 2))
AppCall(c) ==
  /\ c.op \notin Renaming
  /\ c.op \in Making => AppWhole(c.val)
  /\ c.op = "set" =>
       /\ "default" \in DOMAIN c.val => c.val.default # None
       /\ "revision" \in DOMAIN c.val => "new" \in DOMAIN c.val /\ ((c.val.new = None) <=> (c.val.revision # 2))
       /\ "new" \in DOMAIN c.val /\ "revision" \notin DOMAIN c.val => c.val.new # None
Binds(c) == c.op = "set" /\ "new" \in DOMAIN c.val /\ "revision" \notin DOMAIN c.val
HasNew(cs, obj) ==
  (\E c \in ToSet(cs) : Binds(c)) =>
    obj.new # None /\ \A c \in ToSet(cs) : c.op = "set" /\ "new" \in DOMAIN c.val => c.val.new # None

-----------------------------------------------------------------------------
(* What calls do to the fields of objects.                                 *)

LEMMA HaveNames ==
  ASSUME kind \in AllKinds
  PROVE  "name" \in FieldsOf
BY DEF FieldsOf, AllKinds

LEMMA MergedField ==
  ASSUME NEW r, NEW f
  PROVE  /\ DOMAIN Merged(r, f) = DOMAIN r
         /\ \A x \in DOMAIN r : Merged(r, f)[x] = (IF x \in DOMAIN f THEN f[x] ELSE r[x])
BY DEF Merged

LEMMA AfterSetting ==
  ASSUME NEW c, c.op \in Setting, NEW at, DOMAIN at = Keys, ~Refuses(c, at), NEW k \in Keys
  PROVE  /\ c.op \in Making => After(c, at)[k] = IF k = c.key THEN c.val ELSE at[k]
         /\ c.op = "set" => /\ After(c, at)[k] = IF k = c.key THEN Merged(at[k], c.val) ELSE at[k]
                            /\ at[c.key] # None
<1>1. Target(c, at) = c.key
  BY DEF Target, Setting, Making
<1>2. CASE c.op \in Making
  BY <1>1, <1>2 DEF After, Making
<1>3. CASE c.op = "set"
  BY <1>1, <1>3 DEF After, Refuses, Making
<1> QED BY <1>2, <1>3 DEF Setting

LEMMA AfterMoving ==
  ASSUME NEW c, c.op = "move", c.key \in Keys, NEW at, DOMAIN at = Keys, ~Refuses(c, at), NEW k \in Keys
  PROVE  /\ at[c.key] # None
         /\ After(c, at)[k] = IF k = c.val.name THEN Merged(at[c.key], c.val)
                              ELSE IF k = c.key THEN None ELSE at[k]
<1>1. Target(c, at) = c.key
  BY DEF Target
<1>2. at[c.key] # None
  BY <1>1 DEF Refuses
<1> DEFINE m == Merged(at[c.key], c.val)
<1>3. After(c, at) = [at EXCEPT ![c.key] = None, ![c.val.name] = m]
  BY <1>1 DEF After
<1> HIDE DEF m
<1>4. After(c, at)[k] = IF k = c.val.name THEN m ELSE IF k = c.key THEN None ELSE at[k]
  BY <1>3
<1> QED BY <1>2, <1>4 DEF m

LEMMA AfterRenaming ==
  ASSUME NEW c, c.op = "rename_named", NEW at, DOMAIN at = Keys, ~Refuses(c, at), NEW k \in Keys
  PROVE  LET t == Target(c, at) IN
         /\ t \in Keys /\ at[t] # None
         /\ After(c, at)[k] = IF k = t THEN [at[t] EXCEPT !.name = c.val] ELSE at[k]
<1> DEFINE t == Target(c, at)
           holders == HoldersOf(c.key, at)
<1>1. t # None
  BY DEF Refuses
<1>2. t = IF holders = {} THEN None ELSE CHOOSE j \in holders : TRUE
  BY DEF Target
<1> HIDE DEF holders
<1>3. t \in holders
  BY <1>1, <1>2
<1>4. t \in Keys /\ at[t] # None
  BY <1>3 DEF holders, HoldersOf
<1>5. After(c, at) = [at EXCEPT ![t] = [at[t] EXCEPT !.name = c.val]]
  BY DEF After
<1> HIDE DEF t
<1> QED BY <1>4, <1>5 DEF t

LEMMA AfterQuiet ==
  ASSUME NEW c, c.op \notin Setting \cup Renaming \cup Removing, NEW at, DOMAIN at = Keys
  PROVE  After(c, at) = at
BY AfterCall DEF Setting, Making, Renaming, Removing, Changing

\* Objects stay whole.
LEMMA MergedWhole ==
  ASSUME NEW r, NEW f, Whole(r),
         kind \in OneName => "name" \notin DOMAIN f,
         kind = "model" /\ "backend" \in DOMAIN f => f.backend # None,
         kind = "secret" /\ "content" \in DOMAIN f => IsContent(f.content)
  PROVE  Whole(Merged(r, f))
<1> DEFINE m == Merged(r, f)
<1>1. /\ DOMAIN m = FieldsOf /\ DOMAIN r = FieldsOf
      /\ \A x \in FieldsOf : m[x] = (IF x \in DOMAIN f THEN f[x] ELSE r[x])
  BY MergedField DEF Whole
<1> HIDE DEF m
<1>2. kind \in OneName => m.name = "a"
  BY <1>1 DEF Whole, OneName, FieldsOf
<1>3. kind = "model" => m.backend # None
  BY <1>1 DEF Whole, FieldsOf
<1>4. kind = "secret" => IsContent(m.content)
  BY <1>1 DEF Whole, FieldsOf
<1>5. Whole(m)
  BY <1>1, <1>2, <1>3, <1>4 DEF Whole
<1> QED BY <1>5 DEF m

LEMMA WholeOn ==
  ASSUME NEW c, KeepsWhole(c), NEW at, DOMAIN at = Keys, WholeAt(at), ~Refuses(c, at)
  PROVE  WholeAt(After(c, at))
<1> SUFFICES ASSUME NEW k \in Keys, After(c, at)[k] # None PROVE Whole(After(c, at)[k])
  BY DEF WholeAt
<1>1. CASE c.op \in Making
  BY <1>1, AfterSetting DEF WholeAt, KeepsWhole, Setting
<1>2. CASE c.op = "set"
  <2>1. After(c, at)[k] = IF k = c.key THEN Merged(at[k], c.val) ELSE at[k]
    BY <1>2, AfterSetting DEF Setting
  <2>2. k = c.key => at[k] # None
    BY <1>2, AfterSetting DEF Setting
  <2> QED BY <1>2, <2>1, <2>2, MergedWhole DEF WholeAt, KeepsWhole
<1>3. CASE c.op = "move"
  <2>1. c.key \in Keys
    BY <1>3 DEF KeepsWhole
  <2>2. /\ at[c.key] # None
        /\ After(c, at)[k] = IF k = c.val.name THEN Merged(at[c.key], c.val) ELSE IF k = c.key THEN None ELSE at[k]
    BY <1>3, <2>1, AfterMoving
  <2> QED BY <1>3, <2>1, <2>2, MergedWhole DEF WholeAt, KeepsWhole
<1>4. CASE c.op = "rename_named"
  <2> DEFINE t == Target(c, at)
  <2>1. t \in Keys /\ at[t] # None /\ After(c, at)[k] = IF k = t THEN [at[t] EXCEPT !.name = c.val] ELSE at[k]
    BY <1>4, AfterRenaming
  <2> HIDE DEF t
  <2>2. kind \in NamedKinds
    BY <1>4 DEF KeepsWhole
  <2> QED BY <2>1, <2>2 DEF WholeAt, Whole, NamedKinds, OneName
<1>5. CASE c.op \in Removing
  <2>1. /\ k = Target(c, at) => After(c, at)[k] = None
        /\ k # Target(c, at) => After(c, at)[k] = at[k]
    BY <1>5, AfterCall DEF Removing, Reach
  <2> QED BY <2>1 DEF WholeAt
<1>6. CASE c.op \notin Setting \cup Renaming \cup Removing
  BY <1>6, AfterQuiet DEF WholeAt
<1> QED BY <1>1, <1>2, <1>3, <1>4, <1>5, <1>6 DEF Setting, Renaming

-----------------------------------------------------------------------------
(* What comes of the calls that a handler has still to make.               *)

LEMMA GivesWorks ==
  ASSUME NEW c, NEW k \in Keys, NEW x \in FieldsOf, NEW v, NEW how, Gives(c, k, x, v, how),
         NEW at, DOMAIN at = Keys, ~Refuses(c, at), WholeAt(at)
  PROVE  Is(After(c, at), k, x, v, how)
<1>1. CASE c.op \in Making
  BY <1>1, AfterSetting DEF Gives, Is
<1>2. CASE c.op = "set"
  <2>1. at[k] # None /\ After(c, at)[k] = Merged(at[k], c.val)
    BY <1>2, AfterSetting DEF Gives
  <2>2. x \in DOMAIN at[k]
    BY <2>1 DEF WholeAt, Whole
  <2> QED BY <2>1, <2>2, MergedField DEF Gives, Is
<1> QED BY <1>1, <1>2 DEF Gives, Setting

LEMMA SparesWorks ==
  ASSUME NEW c, NEW k \in Keys, NEW x \in FieldsOf, NEW v, NEW how, Spares(c, k, x, v, how), KeepsWhole(c),
         NEW at, DOMAIN at = Keys, ~Refuses(c, at), WholeAt(at), c.op \notin Removing,
         Is(at, k, x, v, how)
  PROVE  Is(After(c, at), k, x, v, how)
<1>1. CASE c.op \in Making
  BY <1>1, AfterSetting DEF Spares, Is, KeepsWhole, Whole, Setting
<1>2. CASE c.op = "set" /\ c.key = k
  <2>1. at[k] # None /\ After(c, at)[k] = Merged(at[k], c.val)
    BY <1>2, AfterSetting DEF Setting
  <2>2. x \in DOMAIN at[k]
    BY <2>1 DEF WholeAt, Whole
  <2> QED BY <1>2, <2>1, <2>2, MergedField DEF Spares, Is, Setting
<1>3. CASE c.op = "set" /\ c.key # k
  BY <1>3, AfterSetting DEF Is, Setting
<1>4. CASE c.op \notin Setting
  BY <1>4, AfterQuiet DEF Spares
<1> QED BY <1>1, <1>2, <1>3, <1>4 DEF Setting

LEMMA StillOn ==
  ASSUME NEW cs, Final(cs), cs[1].op \notin {"returns", "fails"}, NEW k, NEW x, NEW v, NEW how, Still(cs, k, x, v, how)
  PROVE  Spares(cs[1], k, x, v, how) /\ Still(Tail(cs), k, x, v, how)
<1> DEFINE t == Tail(cs)
<1>1. /\ 1 \in DOMAIN cs /\ \A i \in DOMAIN t : i + 1 \in DOMAIN cs /\ t[i] = cs[i + 1]
  BY GoesOn
<1> HIDE DEF t
<1>2. Still(t, k, x, v, how)
  BY <1>1 DEF Still
<1> QED BY <1>1, <1>2 DEF Still, t

LEMMA SureOn ==
  ASSUME NEW cs, Final(cs), cs[1].op \notin {"returns", "fails"}, NEW k, NEW x, NEW v, NEW how, Sure(cs, k, x, v, how)
  PROVE  \/ Gives(cs[1], k, x, v, how) /\ Still(Tail(cs), k, x, v, how)
         \/ Sure(Tail(cs), k, x, v, how)
<1> DEFINE t == Tail(cs)
<1>1. /\ Len(cs) \in Nat /\ Len(cs) > 1 /\ 1 \in DOMAIN cs
      /\ DOMAIN cs = 1..Len(cs) /\ DOMAIN t = 1..(Len(cs) - 1)
      /\ \A i \in 1..(Len(cs) - 1) : t[i] = cs[i + 1]
  BY GoesOn
<1> HIDE DEF t
<1>2. PICK i \in DOMAIN cs :
        Gives(cs[i], k, x, v, how) /\ \A j \in DOMAIN cs : j >= i => Spares(cs[j], k, x, v, how)
  BY DEF Sure
<1>3. CASE i = 1
  <2>1. ASSUME NEW j \in DOMAIN t PROVE Spares(t[j], k, x, v, how)
    <3>1. j + 1 \in DOMAIN cs /\ j + 1 >= i /\ t[j] = cs[j + 1]
      BY <1>1, <1>3
    <3> QED BY <1>2, <3>1
  <2> QED BY <1>2, <1>3, <2>1 DEF Still, t
<1>4. CASE i # 1
  <2>1. i - 1 \in DOMAIN t /\ t[i - 1] = cs[i]
    BY <1>1, <1>4
  <2>2. ASSUME NEW j \in DOMAIN t, j >= i - 1 PROVE Spares(t[j], k, x, v, how)
    <3>1. j + 1 \in DOMAIN cs /\ j + 1 >= i /\ t[j] = cs[j + 1]
      BY <1>1, <2>2
    <3> QED BY <1>2, <3>1
  <2> QED BY <1>2, <2>1, <2>2 DEF Sure, t
<1> QED BY <1>3, <1>4

LEMMA ComesOn ==
  ASSUME NEW cs, Final(cs), cs[1].op \notin {"returns", "fails"} \cup Removing, KeepsWhole(cs[1]),
         NEW at, DOMAIN at = Keys, ~Refuses(cs[1], at), WholeAt(at),
         NEW k \in Keys, NEW x \in FieldsOf, NEW v, NEW how, Comes(cs, at, k, x, v, how)
  PROVE  Comes(Tail(cs), After(cs[1], at), k, x, v, how)
<1> DEFINE t == Tail(cs)
           c == cs[1]
           now == After(cs[1], at)
<1> SUFFICES ASSUME ~Sure(t, k, x, v, how) PROVE Is(now, k, x, v, how) /\ Still(t, k, x, v, how)
  BY DEF Comes
<1>1. CASE Sure(cs, k, x, v, how)
  BY <1>1, SureOn, GivesWorks
<1>2. CASE Is(at, k, x, v, how) /\ Still(cs, k, x, v, how)
  BY <1>2, StillOn, SparesWorks
<1>3. CASE /\ c.op = "move" /\ c.val.name = k
           /\ IF x \in DOMAIN c.val THEN Ok(x, c.val[x], v, how) ELSE Is(at, c.key, x, v, how)
           /\ Still(t, k, x, v, how)
  <2>1. c.key \in Keys
    BY <1>3 DEF KeepsWhole
  <2>2. at[c.key] # None /\ now[k] = Merged(at[c.key], c.val)
    BY <1>3, <2>1, AfterMoving
  <2>3. x \in DOMAIN at[c.key]
    BY <2>1, <2>2 DEF WholeAt, Whole
  <2>4. now[k][x] = IF x \in DOMAIN c.val THEN c.val[x] ELSE at[c.key][x]
    BY <2>2, <2>3, MergedField
  <2> QED BY <1>3, <2>2, <2>4 DEF Is
<1>4. CASE /\ c.op = "rename_named" /\ x = "name" /\ how = "exactly" /\ c.val = v /\ Target(c, at) = k
           /\ Still(t, k, x, v, how)
  <2>1. at[k] # None /\ now[k] = [at[k] EXCEPT !.name = c.val]
    BY <1>4, AfterRenaming
  <2>2. x \in DOMAIN at[k]
    BY <2>1 DEF WholeAt, Whole
  <2> HIDE DEF c, now
  <2> QED BY <1>4, <2>1, <2>2 DEF Is, Ok
<1> QED BY <1>1, <1>2, <1>3, <1>4 DEF Comes

LEMMA HasCome ==
  ASSUME NEW cs, Final(cs), cs[1].op = "returns", NEW at, NEW k, NEW x, NEW v, NEW how,
         Comes(cs, at, k, x, v, how)
  PROVE  Is(at, k, x, v, how)
<1>1. DOMAIN cs = {1}
  BY Returning
<1> QED BY <1>1 DEF Comes, Sure, Gives, Setting, Making

\* What a soft call leaves out does not matter.
LEMMA ReturnsSpare ==
  ASSUME NEW state
  PROVE  LET cs == <<returns(state)>> IN
         /\ \A k, x, v, how : Still(cs, k, x, v, how)
         /\ Unmoved(cs) /\ DOMAIN cs = {1} /\ cs[1].op = "returns" /\ cs[1].val = state /\ cs[1].soft = <<>>
         /\ ToSet(cs) = {returns(state)} /\ Len(cs) = 1 /\ Ends(cs) = KeysOf(state)
<1> DEFINE cs == <<returns(state)>>
<1>1. DOMAIN cs = {1} /\ cs[1] = returns(state) /\ ToSet(cs) = {returns(state)} /\ Len(cs) = 1
  BY DEF ToSet
<1>2. returns(state).op = "returns" /\ returns(state).val = state /\ returns(state).soft = <<>>
  BY DEF returns, Call
<1> HIDE DEF cs
<1> QED BY <1>1, <1>2 DEF Still, Spares, Setting, Making, Renaming, Unmoved, Ends, cs

LEMMA ComesSoftly ==
  ASSUME NEW cs, 1 \in DOMAIN cs, \A j \in DOMAIN cs : cs[j].op \notin Setting \cup Renaming,
         NEW at, NEW k, NEW x, NEW v, NEW how, Comes(cs, at, k, x, v, how), NEW state
  PROVE  Comes(<<returns(state)>>, at, k, x, v, how)
<1>1. Is(at, k, x, v, how)
  BY DEF Comes, Sure, Gives, Renaming
<1> QED BY <1>1, ReturnsSpare DEF Comes

LEMMA ThereSoftly ==
  ASSUME NEW cs, 1 \in DOMAIN cs, \A j \in DOMAIN cs : cs[j].op \notin Setting \cup Renaming,
         NEW at, NEW k, There(cs, at, k), NEW state
  PROVE  There(<<returns(state)>>, at, k)
<1>1. at[k] # None
  BY DEF There, Renaming
<1> QED BY <1>1, ReturnsSpare DEF There

LEMMA UnmovedOn ==
  ASSUME NEW cs, Final(cs), cs[1].op \notin {"returns", "fails"}, Unmoved(cs)
  PROVE  Unmoved(Tail(cs))
<1> DEFINE t == Tail(cs)
<1>1. \A i \in DOMAIN t : i + 1 \in DOMAIN cs /\ t[i] = cs[i + 1]
  BY GoesOn
<1> HIDE DEF t
<1>2. Unmoved(t)
  BY <1>1 DEF Unmoved
<1> QED BY <1>2 DEF t

\* An object that is there stays so, but for being moved or removed.
LEMMA StaysThere ==
  ASSUME NoneIsNoConfig, kind \in AllKinds, NEW c, c.op \notin {"move"} \cup Removing, KeepsWhole(c),
         NEW at, DOMAIN at = Keys, ~Refuses(c, at), WholeAt(at), NEW k \in Keys,
         at[k] # None \/ (c.op \in Setting /\ c.key = k)
  PROVE  After(c, at)[k] # None
<1>1. \A obj : Whole(obj) => obj # None
  BY HaveNames DEF Whole, NoneIsNoConfig
<1>2. \A r, f : Whole(r) => Merged(r, f) # None
  <2> SUFFICES ASSUME NEW r, NEW f, Whole(r) PROVE Merged(r, f) # None
    OBVIOUS
  <2>1. "name" \in DOMAIN Merged(r, f)
    BY HaveNames, MergedField DEF Whole
  <2> QED BY <2>1 DEF NoneIsNoConfig
<1>3. CASE c.op \in Making
  BY <1>1, <1>3, AfterSetting DEF KeepsWhole, Setting
<1>4. CASE c.op = "set"
  <2>1. /\ After(c, at)[k] = IF k = c.key THEN Merged(at[k], c.val) ELSE at[k]
        /\ at[c.key] # None
    BY <1>4, AfterSetting DEF Setting
  <2> QED BY <1>2, <2>1 DEF WholeAt
<1>5. CASE c.op = "rename_named"
  <2> DEFINE t == Target(c, at)
  <2>1. t \in Keys /\ at[t] # None /\ After(c, at)[k] = IF k = t THEN [at[t] EXCEPT !.name = c.val] ELSE at[k]
    BY <1>5, AfterRenaming
  <2> HIDE DEF t
  <2>2. "name" \in DOMAIN [at[t] EXCEPT !.name = c.val]
    BY <2>1, HaveNames DEF WholeAt, Whole
  <2> QED BY <1>5, <2>1, <2>2 DEF NoneIsNoConfig, Setting, Making
<1>6. CASE c.op \notin Setting \cup Renaming
  BY <1>6, AfterQuiet DEF Renaming
<1> QED BY <1>3, <1>4, <1>5, <1>6 DEF Setting, Renaming

LEMMA ThereOn ==
  ASSUME NoneIsNoConfig, kind \in AllKinds,
         NEW cs, Final(cs), cs[1].op \notin {"returns", "fails"} \cup Removing, KeepsWhole(cs[1]),
         NEW at, DOMAIN at = Keys, ~Refuses(cs[1], at), WholeAt(at), NEW k \in Keys, There(cs, at, k)
  PROVE  There(Tail(cs), After(cs[1], at), k)
<1> DEFINE t == Tail(cs)
           c == cs[1]
           now == After(cs[1], at)
<1>1. CASE Unmoved(cs) /\ at[k] # None
  <2>1. c.op # "move"
    BY <1>1, GoesOn DEF Unmoved
  <2>2. now[k] # None
    BY <1>1, <2>1, StaysThere
  <2> QED BY <1>1, <2>2, UnmovedOn DEF There
<1>2. CASE Unmoved(cs) /\ \E i \in DOMAIN cs : cs[i].op \in Setting /\ cs[i].key = k
  <2>1. PICK i \in DOMAIN cs : cs[i].op \in Setting /\ cs[i].key = k
    BY <1>2
  <2>2. c.op # "move"
    BY <1>2, GoesOn DEF Unmoved
  <2>3. CASE i = 1
    <3>1. now[k] # None
      BY <2>1, <2>2, <2>3, StaysThere
    <3> QED BY <1>2, <3>1, UnmovedOn DEF There
  <2>4. CASE i # 1
    <3>1. i - 1 \in DOMAIN t /\ t[i - 1] = cs[i]
      BY <2>1, <2>4, GoesOn
    <3> HIDE DEF t
    <3> QED BY <1>2, <2>1, <3>1, UnmovedOn DEF There, t
  <2> QED BY <2>3, <2>4
<1>3. CASE c.op = "move" /\ c.val.name = k /\ Unmoved(t)
  <2>1. c.key \in Keys
    BY <1>3 DEF KeepsWhole
  <2>2. at[c.key] # None /\ now[k] = Merged(at[c.key], c.val)
    BY <1>3, <2>1, AfterMoving
  <2>3. "name" \in DOMAIN Merged(at[c.key], c.val)
    BY <2>1, <2>2, HaveNames, MergedField DEF WholeAt, Whole
  <2> QED BY <1>3, <2>2, <2>3 DEF NoneIsNoConfig, There
<1> QED BY <1>1, <1>2, <1>3 DEF There

-----------------------------------------------------------------------------
(* Sequences of calls, put together.                                       *)

LEMMA SetsTogether ==
  ASSUME NEW s, NEW t, s \in Seq(ToSet(s)), t \in Seq(ToSet(t))
  PROVE  LET cs == s \o t IN
         /\ cs \in Seq(ToSet(cs)) /\ ToSet(cs) = ToSet(s) \cup ToSet(t)
         /\ Len(cs) = Len(s) + Len(t) /\ Len(s) \in Nat /\ Len(t) \in Nat
         /\ DOMAIN cs = 1..(Len(s) + Len(t)) /\ DOMAIN s = 1..Len(s) /\ DOMAIN t = 1..Len(t)
         /\ \A i \in DOMAIN s : i \in DOMAIN cs /\ cs[i] = s[i]
         /\ \A i \in DOMAIN t : Len(s) + i \in DOMAIN cs /\ cs[Len(s) + i] = t[i]
         /\ \A i \in DOMAIN cs : \/ i \in DOMAIN s /\ cs[i] = s[i]
                                 \/ i - Len(s) \in DOMAIN t /\ cs[i] = t[i - Len(s)] /\ i > Len(s)
<1> DEFINE S == ToSet(s) \cup ToSet(t)
           cs == s \o t
<1>1. s \in Seq(S) /\ t \in Seq(S)
  OBVIOUS
<1>2. ToSet(s) = {s[i] : i \in DOMAIN s} /\ ToSet(t) = {t[i] : i \in DOMAIN t}
  BY DEF ToSet
<1>3. S = ToSet(s) \cup ToSet(t)
  OBVIOUS
<1> HIDE DEF S
<1>4. /\ cs \in Seq(S) /\ Len(cs) = Len(s) + Len(t) /\ Len(s) \in Nat /\ Len(t) \in Nat
      /\ DOMAIN cs = 1..(Len(s) + Len(t)) /\ DOMAIN s = 1..Len(s) /\ DOMAIN t = 1..Len(t)
      /\ \A i \in 1..(Len(s) + Len(t)) : cs[i] = IF i <= Len(s) THEN s[i] ELSE t[i - Len(s)]
  BY <1>1, ConcatProperties
<1> HIDE DEF cs
<1>5. cs \in Seq(ToSet(cs))
  BY <1>4, ItsOwnCalls
<1>6. \A i \in DOMAIN s : i \in DOMAIN cs /\ cs[i] = s[i]
  BY <1>4
<1>7. \A i \in DOMAIN t : Len(s) + i \in DOMAIN cs /\ cs[Len(s) + i] = t[i]
  <2> SUFFICES ASSUME NEW i \in 1..Len(t) PROVE Len(s) + i \in 1..(Len(s) + Len(t)) /\ cs[Len(s) + i] = t[i]
    BY <1>4
  <2>1. Len(s) + i \in 1..(Len(s) + Len(t)) /\ ~(Len(s) + i <= Len(s)) /\ (Len(s) + i) - Len(s) = i
    BY <1>4
  <2> QED BY <1>4, <2>1
<1>8. \A i \in DOMAIN cs : \/ i \in DOMAIN s /\ cs[i] = s[i]
                           \/ i - Len(s) \in DOMAIN t /\ cs[i] = t[i - Len(s)] /\ i > Len(s)
  BY <1>4
<1>9. ToSet(cs) = S
  BY <1>2, <1>3, <1>6, <1>7, <1>8 DEF ToSet
<1> QED BY <1>3, <1>4, <1>5, <1>6, <1>7, <1>8, <1>9 DEF cs

LEMMA SetsOfTuples ==
  /\ <<>> \in Seq(ToSet(<<>>)) /\ ToSet(<<>>) = {} /\ DOMAIN <<>> = {}
  /\ \A c : <<c>> \in Seq(ToSet(<<c>>)) /\ ToSet(<<c>>) = {c} /\ DOMAIN <<c>> = {1}
  /\ \A c, d : <<c, d>> \in Seq(ToSet(<<c, d>>)) /\ ToSet(<<c, d>>) = {c, d} /\ DOMAIN <<c, d>> = {1, 2}
<1>1. <<>> \in Seq(ToSet(<<>>)) /\ ToSet(<<>>) = {} /\ DOMAIN <<>> = {}
  BY DEF ToSet
<1>2. ASSUME NEW c PROVE <<c>> \in Seq(ToSet(<<c>>)) /\ ToSet(<<c>>) = {c} /\ DOMAIN <<c>> = {1}
  BY DEF ToSet
<1>3. ASSUME NEW c, NEW d PROVE <<c, d>> \in Seq(ToSet(<<c, d>>)) /\ ToSet(<<c, d>>) = {c, d} /\ DOMAIN <<c, d>> = {1, 2}
  BY DEF ToSet
<1> QED BY <1>1, <1>2, <1>3

\* What is asked of every call of Create and Update.
SoundCall(c) ==
  /\ KeepsWhole(c) /\ ProperCall(c)
  /\ kind # "model" => c.soft = <<>>
  /\ kind = "application" /\ (pc = "create" \/ "unseen" \notin touched) => AppCall(c)
SoundCalls(cs) == cs \in Seq(ToSet(cs)) /\ \A c \in ToSet(cs) : SoundCall(c)

LEMMA SoundTuples ==
  /\ SoundCalls(<<>>)
  /\ \A c : SoundCall(c) => SoundCalls(<<c>>)
  /\ \A c, d : SoundCall(c) /\ SoundCall(d) => SoundCalls(<<c, d>>)
BY SetsOfTuples DEF SoundCalls

LEMMA SoundTogether ==
  ASSUME NEW s, NEW t, SoundCalls(s), SoundCalls(t)
  PROVE  /\ SoundCalls(s \o t) /\ ToSet(s \o t) = ToSet(s) \cup ToSet(t)
         /\ \A k, x, v, how : /\ Still(s, k, x, v, how) /\ Still(t, k, x, v, how) => Still(s \o t, k, x, v, how)
                              /\ Sure(t, k, x, v, how) => Sure(s \o t, k, x, v, how)
                              /\ Sure(s, k, x, v, how) /\ Still(t, k, x, v, how) => Sure(s \o t, k, x, v, how)
         /\ Unmoved(s) /\ Unmoved(t) => Unmoved(s \o t)
<1> DEFINE cs == s \o t
<1>1. /\ cs \in Seq(ToSet(cs)) /\ ToSet(cs) = ToSet(s) \cup ToSet(t)
      /\ Len(s) \in Nat /\ Len(t) \in Nat /\ DOMAIN cs = 1..(Len(s) + Len(t)) /\ DOMAIN s = 1..Len(s) /\ DOMAIN t = 1..Len(t)
      /\ \A i \in DOMAIN s : i \in DOMAIN cs /\ cs[i] = s[i]
      /\ \A i \in DOMAIN t : Len(s) + i \in DOMAIN cs /\ cs[Len(s) + i] = t[i]
      /\ \A i \in DOMAIN cs : \/ i \in DOMAIN s /\ cs[i] = s[i]
                              \/ i - Len(s) \in DOMAIN t /\ cs[i] = t[i - Len(s)] /\ i > Len(s)
  BY SetsTogether DEF SoundCalls
<1> HIDE DEF cs
<1>2. SoundCalls(cs)
  BY <1>1 DEF SoundCalls
<1>3. ASSUME NEW k, NEW x, NEW v, NEW how, Still(s, k, x, v, how), Still(t, k, x, v, how)
      PROVE  Still(cs, k, x, v, how)
  BY <1>1, <1>3 DEF Still
<1>4. ASSUME NEW k, NEW x, NEW v, NEW how, Sure(t, k, x, v, how)
      PROVE  Sure(cs, k, x, v, how)
  <2>1. PICK i \in DOMAIN t :
          Gives(t[i], k, x, v, how) /\ \A j \in DOMAIN t : j >= i => Spares(t[j], k, x, v, how)
    BY <1>4 DEF Sure
  <2>2. ASSUME NEW j \in DOMAIN cs, j >= Len(s) + i PROVE Spares(cs[j], k, x, v, how)
    <3>1. j - Len(s) \in DOMAIN t /\ cs[j] = t[j - Len(s)] /\ j - Len(s) >= i
      BY <1>1, <2>1, <2>2
    <3> QED BY <2>1, <3>1
  <2> QED BY <1>1, <2>1, <2>2 DEF Sure
<1>5. ASSUME NEW k, NEW x, NEW v, NEW how, Sure(s, k, x, v, how), Still(t, k, x, v, how)
      PROVE  Sure(cs, k, x, v, how)
  <2>1. PICK i \in DOMAIN s :
          Gives(s[i], k, x, v, how) /\ \A j \in DOMAIN s : j >= i => Spares(s[j], k, x, v, how)
    BY <1>5 DEF Sure
  <2>2. ASSUME NEW j \in DOMAIN cs, j >= i PROVE Spares(cs[j], k, x, v, how)
    BY <1>1, <1>5, <2>1, <2>2 DEF Still
  <2> QED BY <1>1, <2>1, <2>2 DEF Sure
<1>6. Unmoved(s) /\ Unmoved(t) => Unmoved(cs)
  BY <1>1 DEF Unmoved
<1> QED BY <1>1, <1>2, <1>3, <1>4, <1>5, <1>6 DEF cs

\* Of one call, and of two.
LEMMA SureTuples ==
  ASSUME NEW k, NEW x, NEW v, NEW how
  PROVE  /\ Still(<<>>, k, x, v, how) /\ Unmoved(<<>>)
         /\ \A c : /\ Spares(c, k, x, v, how) => Still(<<c>>, k, x, v, how)
                   /\ Gives(c, k, x, v, how) => Sure(<<c>>, k, x, v, how)
                   /\ c.op # "move" => Unmoved(<<c>>)
         /\ \A c, d : /\ Spares(c, k, x, v, how) /\ Spares(d, k, x, v, how) => Still(<<c, d>>, k, x, v, how)
                      /\ Gives(c, k, x, v, how) /\ Spares(d, k, x, v, how) => Sure(<<c, d>>, k, x, v, how)
                      /\ Gives(d, k, x, v, how) => Sure(<<c, d>>, k, x, v, how)
                      /\ c.op # "move" /\ d.op # "move" => Unmoved(<<c, d>>)
<1>1. \A c : Gives(c, k, x, v, how) => Spares(c, k, x, v, how)
  BY DEF Gives, Spares, Setting, Making, Renaming
<1>2. Still(<<>>, k, x, v, how) /\ Unmoved(<<>>)
  BY SetsOfTuples DEF Still, Unmoved
<1>3. ASSUME NEW c
      PROVE  /\ Spares(c, k, x, v, how) => Still(<<c>>, k, x, v, how)
             /\ Gives(c, k, x, v, how) => Sure(<<c>>, k, x, v, how)
             /\ c.op # "move" => Unmoved(<<c>>)
  <2> DEFINE cs == <<c>>
  <2>1. DOMAIN cs = {1} /\ cs[1] = c
    OBVIOUS
  <2> HIDE DEF cs
  <2>2. Gives(c, k, x, v, how) => Sure(cs, k, x, v, how)
    BY <1>1, <2>1 DEF Sure
  <2> QED BY <2>1, <2>2 DEF Still, Unmoved, cs
<1>4. ASSUME NEW c, NEW d
      PROVE  /\ Spares(c, k, x, v, how) /\ Spares(d, k, x, v, how) => Still(<<c, d>>, k, x, v, how)
             /\ Gives(c, k, x, v, how) /\ Spares(d, k, x, v, how) => Sure(<<c, d>>, k, x, v, how)
             /\ Gives(d, k, x, v, how) => Sure(<<c, d>>, k, x, v, how)
             /\ c.op # "move" /\ d.op # "move" => Unmoved(<<c, d>>)
  <2> DEFINE cs == <<c, d>>
  <2>1. DOMAIN cs = {1, 2} /\ cs[1] = c /\ cs[2] = d
    OBVIOUS
  <2> HIDE DEF cs
  <2>2. Gives(c, k, x, v, how) /\ Spares(d, k, x, v, how) => Sure(cs, k, x, v, how)
    BY <1>1, <2>1 DEF Sure
  <2>3. Gives(d, k, x, v, how) => Sure(cs, k, x, v, how)
    BY <1>1, <2>1 DEF Sure
  <2> QED BY <2>1, <2>2, <2>3 DEF Still, Unmoved, cs
<1> QED BY <1>2, <1>3, <1>4

\* Calls that set nothing.
Idle == {"check", "see", "saves", "returns", "fails"}

LEMMA Singles ==
  /\ \A k, v : add(k, v).op = "add" /\ add(k, v).key = k /\ add(k, v).val = v /\ add(k, v).soft = <<>>
  /\ \A k, v : addNamed(k, v).op = "add_named" /\ addNamed(k, v).key = k /\ addNamed(k, v).val = v /\ addNamed(k, v).soft = <<>>
  /\ \A k, v : put(k, v).op = "put" /\ put(k, v).key = k /\ put(k, v).val = v /\ put(k, v).soft = <<>>
  /\ \A k, v : set(k, v).op = "set" /\ set(k, v).key = k /\ set(k, v).val = v /\ set(k, v).soft = <<>>
  /\ \A k, v : move(k, v).op = "move" /\ move(k, v).key = k /\ move(k, v).val = v /\ move(k, v).soft = <<>>
  /\ \A k, v : /\ renameNamed(k, v).op = "rename_named" /\ renameNamed(k, v).key = k /\ renameNamed(k, v).val = v
               /\ renameNamed(k, v).soft = <<>>
  /\ \A k, v : check(k, v).op = "check" /\ check(k, v).soft = <<>> /\ see(k, v).op = "see" /\ see(k, v).soft = <<>>
  /\ \A v : saves(v).op = "saves" /\ saves(v).val = v /\ saves(v).soft = <<>>
  /\ \A v : returns(v).op = "returns" /\ returns(v).val = v /\ returns(v).soft = <<>>
  /\ fails.op = "fails" /\ fails.soft = <<>>
BY DEF add, addNamed, put, set, move, renameNamed, check, see, saves, returns, fails, Call

LEMMA IdleCalls ==
  ASSUME NEW c, c.op \in Idle, c.soft = <<>>
  PROVE  /\ (c.op \in {"returns", "saves"} => Proper(c.val)) => SoundCall(c)
         /\ \A k, x, v, how : Spares(c, k, x, v, how)
         /\ c.op # "move" /\ c.op \notin Setting \cup Renaming
BY DEF Idle, SoundCall, KeepsWhole, ProperCall, AppCall, Making, Removing, Spares, Setting, Renaming

\* Of a call that sets fields: another field is spared, and those of other objects.
LEMMA SettingCalls ==
  ASSUME NEW c, c.op \in Setting
  PROVE  /\ \A k, x, v, how : c.key # k \/ x \notin DOMAIN c.val => Spares(c, k, x, v, how)
         /\ \A x, v, how : x \in DOMAIN c.val /\ Ok(x, c.val[x], v, how) => Gives(c, c.key, x, v, how) /\ Spares(c, c.key, x, v, how)
         /\ c.op # "move"
BY DEF Gives, Spares, Setting, Making, Renaming

LEMMA SoundMaking ==
  ASSUME NEW c, c.op \in Making, c.soft = <<>>, Whole(c.val), kind = "application" => AppWhole(c.val)
  PROVE  SoundCall(c)
BY DEF SoundCall, KeepsWhole, ProperCall, AppCall, Making, Renaming, Removing

LEMMA SoundSetting ==
  ASSUME NEW c, c.op = "set", c.soft = <<>>, kind \in OneName => "name" \notin DOMAIN c.val,
         kind = "model" /\ "backend" \in DOMAIN c.val => c.val.backend # None,
         kind = "secret" /\ "content" \in DOMAIN c.val => IsContent(c.val.content),
         kind # "application"
  PROVE  SoundCall(c)
BY DEF SoundCall, KeepsWhole, ProperCall, Making, Renaming, Removing

LEMMA NotSoft ==
  ASSUME NEW cs, SoundCalls(cs), kind # "model"
  PROVE  SoftLast(cs)
BY DEF SoundCalls, SoundCall, SoftLast, ToSet

\* A handler that succeeds: its calls but the last, and the state that it returns.
LEMMA Handler ==
  ASSUME NEW body, SoundCalls(body), NEW state, Proper(state)
  PROVE  LET cs == body \o <<returns(state)>> IN
         /\ SoundCalls(cs) /\ ToSet(cs) = ToSet(body) \cup {returns(state)} /\ Ends(cs) = KeysOf(state)
         /\ \A k, x, v, how : /\ Still(body, k, x, v, how) => Still(cs, k, x, v, how)
                              /\ Sure(body, k, x, v, how) => Sure(cs, k, x, v, how)
         /\ Unmoved(body) => Unmoved(cs)
         /\ kind # "model" => SoftLast(cs)
<1> DEFINE end == <<returns(state)>>
           cs == body \o end
<1>1. SoundCall(returns(state))
  BY Singles, IdleCalls DEF Idle
<1>2. SoundCalls(end) /\ ToSet(end) = {returns(state)} /\ Unmoved(end) /\ \A k, x, v, how : Still(end, k, x, v, how)
  BY <1>1, SoundTuples, ReturnsSpare
<1>3. Len(end) = 1 /\ 1 \in DOMAIN end /\ end[1] = returns(state)
  OBVIOUS
<1> HIDE DEF end
<1>4. /\ SoundCalls(cs) /\ ToSet(cs) = ToSet(body) \cup ToSet(end)
      /\ \A k, x, v, how : /\ Still(body, k, x, v, how) /\ Still(end, k, x, v, how) => Still(cs, k, x, v, how)
                           /\ Sure(body, k, x, v, how) /\ Still(end, k, x, v, how) => Sure(cs, k, x, v, how)
      /\ Unmoved(body) /\ Unmoved(end) => Unmoved(cs)
  BY <1>2, SoundTogether
<1>5. Len(cs) = Len(body) + 1 /\ cs[Len(cs)] = returns(state)
  <2>1. body \in Seq(ToSet(body)) /\ end \in Seq(ToSet(end))
    BY <1>2 DEF SoundCalls
  <2>2. Len(cs) = Len(body) + Len(end) /\ \A i \in DOMAIN end : cs[Len(body) + i] = end[i]
    BY <2>1, SetsTogether
  <2> HIDE DEF cs
  <2> QED BY <1>3, <2>2
<1>6. Ends(cs) = KeysOf(state)
  BY <1>5, Singles DEF Ends
<1> HIDE DEF cs
<1>7. kind # "model" => SoftLast(cs)
  BY <1>4, NotSoft
<1> QED BY <1>2, <1>4, <1>6, <1>7 DEF cs, end

\* It gets what is asked, or keeps what it cannot tell.
Lands(body, at, k, x, v, how) == Sure(body, k, x, v, how) \/ (Is(at, k, x, v, how) /\ Still(body, k, x, v, how))
LEMMA HandlerGets ==
  ASSUME NEW body, SoundCalls(body), NEW state, Proper(state), NEW at, NEW w
  PROVE  LET cs == body \o <<returns(state)>> IN
         /\ (/\ Unmoved(body)
             /\ \A k \in KeysOf(state) : at[k] # None \/ \E c \in ToSet(body) : c.op \in Setting /\ c.key = k
             /\ \A k \in KeysOf(state) : \A x \in DOMAIN Asked(w) : Lands(body, at, k, x, Asked(w)[x], "exactly"))
              => Gets(cs, at, w)
         /\ (\A k \in KeysOf(state) : \A x \in HiddenFields : Lands(body, at, k, x, w[In(x)], "allowed"))
              => Keeps(cs, at, w)
<1> DEFINE cs == body \o <<returns(state)>>
<1>1. /\ ToSet(cs) = ToSet(body) \cup {returns(state)} /\ Ends(cs) = KeysOf(state)
      /\ \A k, x, v, how : /\ Still(body, k, x, v, how) => Still(cs, k, x, v, how)
                           /\ Sure(body, k, x, v, how) => Sure(cs, k, x, v, how)
      /\ Unmoved(body) => Unmoved(cs)
  BY Handler
<1> HIDE DEF cs
<1>2. \A k, x, v, how : Lands(body, at, k, x, v, how) => Comes(cs, at, k, x, v, how)
  BY <1>1 DEF Lands, Comes
<1>3. ASSUME NEW k, Unmoved(body), at[k] # None \/ \E c \in ToSet(body) : c.op \in Setting /\ c.key = k
      PROVE  There(cs, at, k)
  BY <1>1, <1>3 DEF There, ToSet
<1> QED BY <1>1, <1>2, <1>3 DEF Gets, Keeps, cs

-----------------------------------------------------------------------------
(* States are records of all of their fields.                              *)

LEMMA ConfigShape ==
  ASSUME kind \in AllKinds, NEW w \in Configs
  PROVE  /\ DOMAIN w \cup {"id"} \cup (IF kind = "controller" THEN {"uuid"} ELSE {}) = StateFields
         /\ "id" \notin DOMAIN w
         /\ kind \in OneName => w.name = "a"
<1>1. CASE kind \in {"user", "credential", "group", "role"}
  BY <1>1 DEF Configs, UserConfigs, CredentialConfigs, GroupConfigs, StateFields, OneName
<1>2. CASE kind \in {"jaas_controller", "cloud", "kubernetes_cloud", "secret_backend", "offer"}
  BY <1>2 DEF Configs, ControllerConfigsOfJAAS, CloudConfigs, KubernetesCloudConfigs, SecretBackendConfigs, OfferConfigs,
              StateFields, OneName
<1>3. CASE kind \in {"space", "subnet", "secret", "storage_pool", "ssh_key"}
  BY <1>3 DEF Configs, SpaceConfigs, SubnetConfigs, SecretConfigs, StoragePoolConfigs, SSHKeyConfigs, StateFields, OneName
<1>4. CASE kind \in {"machine", "model", "controller", "application"}
  BY <1>4 DEF Configs, MachineConfigs, ModelConfigs, ControllerConfigs, AppConfigs, StateFields, OneName
<1> QED BY <1>1, <1>2, <1>3, <1>4 DEF AllKinds

LEMMA ProperState ==
  ASSUME kind \in AllKinds \ {"controller"}, NEW w \in Configs, NEW id, KeysOf(StateOf(id, w)) \subseteq Keys
  PROVE  Proper(StateOf(id, w)) /\ DOMAIN StateOf(id, w) = StateFields
<1>1. DOMAIN w \cup {"id"} = StateFields
  BY ConfigShape
<1> QED BY <1>1 DEF Proper, StateOf

LEMMA ProperNamed ==
  ASSUME kind \in ByName, NEW w \in Configs
  PROVE  /\ Proper(StateOf(w.name, w)) /\ KeysOf(StateOf(w.name, w)) = {w.name} /\ w.name \in Keys
         /\ \A x \in DOMAIN w : StateOf(w.name, w)[x] = w[x]
<1>1. KeysOf(StateOf(w.name, w)) = {w.name} /\ w.name \in Keys
  BY NamedState, ConfigNames
<1>2. kind \in AllKinds \ {"controller"}
  BY DEF ByName
<1>3. Proper(StateOf(w.name, w))
  BY <1>1, <1>2, ProperState
<1>4. \A x \in DOMAIN w : StateOf(w.name, w)[x] = w[x]
  BY <1>2, ConfigShape DEF StateOf
<1> QED BY <1>1, <1>3, <1>4

LEMMA FreshIDs ==
  ASSUME NEW at
  PROVE  FreshID(at) \in IDs /\ FreshID(at) \in Keys
<1>1. \E k \in IDs : at[k] = None \/ \A j \in IDs : at[j] # None
  BY DEF IDs
<1>2. FreshID(at) \in IDs
  BY <1>1 DEF FreshID
<1> QED BY <1>2 DEF Keys

-----------------------------------------------------------------------------
(* What Create of every kind makes.                                        *)

Creates(w) ==
  LET cs == Create(w) IN
  /\ SoundCalls(cs) /\ SoftLast(cs)
  /\ AtWork(cs) => Gets(cs, there, w) /\ (kind \in Hiding => Keeps(cs, there, w))
  /\ kind = "application" => cs[1].op \in Making /\ \A c \in ToSet(cs) : c.op # "set"
  /\ kind \in {"user", "secret_backend"} =>
       \A c \in ToSet(cs) : c.op = "returns" => \A x \in HiddenFields : c.val[In(x)] = w[In(x)]

\* What one of the calls gives is all that is asked.
Answers(fields, w) == \A x \in DOMAIN Asked(w) : x \in DOMAIN fields /\ fields[x] = Asked(w)[x]
Covers(fields, w) == \A x \in HiddenFields : x \in DOMAIN fields /\ Allows(x, w[In(x)], fields[x])
LEMMA MakingGets ==
  ASSUME NEW body, SoundCalls(body), Unmoved(body), NEW c \in ToSet(body), c.op \in Setting,
         \A k, x, v, how : Gives(c, k, x, v, how) => Sure(body, k, x, v, how),
         NEW state, Proper(state), KeysOf(state) = {c.key}, NEW at, NEW w,
         Answers(c.val, w)
  PROVE  LET cs == body \o <<returns(state)>> IN
         /\ SoundCalls(cs) /\ ToSet(cs) = ToSet(body) \cup {returns(state)}
         /\ kind # "model" => SoftLast(cs)
         /\ Gets(cs, at, w)
         /\ Covers(c.val, w) => Keeps(cs, at, w)
<1>1. \A x \in DOMAIN c.val : \A v, how : Ok(x, c.val[x], v, how) => Sure(body, c.key, x, v, how)
  BY SettingCalls
<1>2. \A k \in KeysOf(state) : \A x \in DOMAIN Asked(w) : Lands(body, at, k, x, Asked(w)[x], "exactly")
  BY <1>1 DEF Lands, Ok, Answers
<1>3. Covers(c.val, w) =>
        \A k \in KeysOf(state) : \A x \in HiddenFields : Lands(body, at, k, x, w[In(x)], "allowed")
  BY <1>1 DEF Lands, Ok, Covers
<1> QED BY <1>2, <1>3, Handler, HandlerGets

LEMMA MakesOne ==
  ASSUME NEW c, c.op \in Making, SoundCall(c),
         NEW state, Proper(state), KeysOf(state) = {c.key}, NEW at, NEW w,
         Answers(c.val, w)
  PROVE  LET cs == <<c, returns(state)>> IN
         /\ SoundCalls(cs) /\ ToSet(cs) = {c, returns(state)}
         /\ kind # "model" => SoftLast(cs)
         /\ Gets(cs, at, w)
         /\ Covers(c.val, w) => Keeps(cs, at, w)
<1> DEFINE body == <<c>>
<1>1. SoundCalls(body) /\ ToSet(body) = {c}
  BY SoundTuples, SetsOfTuples
<1>2. Unmoved(body) /\ \A k, x, v, how : Gives(c, k, x, v, how) => Sure(body, k, x, v, how)
  BY SureTuples DEF Making
<1>3. body \o <<returns(state)>> = <<c, returns(state)>>
  BY Tuples
<1> HIDE DEF body
<1>4. LET cs == body \o <<returns(state)>> IN
     /\ SoundCalls(cs) /\ ToSet(cs) = ToSet(body) \cup {returns(state)}
     /\ kind # "model" => SoftLast(cs)
     /\ Gets(cs, at, w)
     /\ Covers(c.val, w) => Keeps(cs, at, w)
  <2>1. c \in ToSet(body) /\ c.op \in Setting
    BY <1>1, <1>2 DEF Setting
  <2> QED BY <1>1, <1>2, <2>1, MakingGets
<1> QED BY <1>1, <1>2, <1>3, <1>4

LEMMA MakesOneAndSees ==
  ASSUME NEW c, c.op \in Making, SoundCall(c), NEW d, d.op = "see", d.soft = <<>>,
         NEW state, Proper(state), KeysOf(state) = {c.key}, NEW at, NEW w,
         Answers(c.val, w)
  PROVE  LET cs == <<c, d, returns(state)>> IN
         /\ SoundCalls(cs) /\ ToSet(cs) = {c, d, returns(state)} /\ cs[1] = c
         /\ kind # "model" => SoftLast(cs)
         /\ Gets(cs, at, w)
         /\ Covers(c.val, w) => Keeps(cs, at, w)
<1> DEFINE body == <<c, d>>
<1>1. SoundCall(d) /\ \A k, x, v, how : Spares(d, k, x, v, how)
  BY IdleCalls DEF Idle
<1>2. SoundCalls(body) /\ ToSet(body) = {c, d}
  BY <1>1, SoundTuples, SetsOfTuples
<1>3. Unmoved(body) /\ \A k, x, v, how : Gives(c, k, x, v, how) => Sure(body, k, x, v, how)
  BY <1>1, SureTuples DEF Making
<1>4. body \o <<returns(state)>> = <<c, d, returns(state)>>
  BY Tuples
<1> HIDE DEF body
<1>5. LET cs == body \o <<returns(state)>> IN
     /\ SoundCalls(cs) /\ ToSet(cs) = ToSet(body) \cup {returns(state)}
     /\ kind # "model" => SoftLast(cs)
     /\ Gets(cs, at, w)
     /\ Covers(c.val, w) => Keeps(cs, at, w)
  <2>1. c \in ToSet(body) /\ c.op \in Setting
    BY <1>2, <1>3 DEF Setting
  <2> QED BY <1>2, <1>3, <2>1, MakingGets
<1> QED BY <1>2, <1>3, <1>4, <1>5

LEMMA UserCreates ==
  ASSUME kind = "user", pc = "create", NEW w \in Configs
  PROVE  Creates(w)
<1> DEFINE c == CreateUser(w)
           state == StateOf(w.name, w)
<1>1. w \in UserConfigs /\ DOMAIN w = FieldsOf /\ kind \in ByName
  BY DEF Configs, UserConfigs, FieldsOf, ByName, AllKinds
<1>2. Proper(state) /\ KeysOf(state) = {w.name} /\ state.password = w.password
  BY <1>1, ProperNamed DEF UserConfigs
<1>3. c.op = "add" /\ c.key = w.name /\ c.val = w /\ c.soft = <<>>
  BY Singles DEF CreateUser
<1>4. Create(w) = <<c, returns(state)>>
  BY DEF Create, UserCreate
<1>5. Asked(w) = Only({"name", "password"}, w)
  BY DEF Asked
<1>6. SoundCall(c)
  BY <1>1, <1>3, SoundMaking DEF Making, Whole, OneName
<1>7. Answers(c.val, w)
  BY <1>1, <1>3, <1>5 DEF Answers, Only, FieldsOf
<1>8. HiddenFields = {"password"} /\ In("password") = "password" /\ Covers(c.val, w)
  BY <1>1, <1>3 DEF HiddenFields, In, Allows, Covers, FieldsOf
<1> HIDE DEF c, state
<1>9. /\ SoundCalls(Create(w)) /\ ToSet(Create(w)) = {c, returns(state)} /\ SoftLast(Create(w))
      /\ Gets(Create(w), there, w) /\ Keeps(Create(w), there, w)
  BY <1>1, <1>2, <1>3, <1>4, <1>6, <1>7, <1>8, MakesOne DEF Making, FieldsOf
<1> QED BY <1>2, <1>3, <1>8, <1>9, Singles DEF Creates

LEMMA CloudCreates ==
  ASSUME kind = "cloud", NEW w \in Configs
  PROVE  Creates(w)
<1> DEFINE c == AddCloud(w)
           state == StateOf(w.name, w)
<1>1. DOMAIN w = FieldsOf /\ kind \in ByName /\ Asked(w) = w
  BY DEF Configs, CloudConfigs, FieldsOf, ByName, AllKinds, Asked
<1>2. Proper(state) /\ KeysOf(state) = {w.name}
  BY <1>1, ProperNamed
<1>3. c.op = "add" /\ c.key = w.name /\ c.val = w /\ c.soft = <<>>
  BY Singles DEF AddCloud
<1>4. Create(w) = <<c, returns(state)>>
  BY DEF Create, CloudCreate
<1>5. SoundCall(c)
  BY <1>1, <1>3, SoundMaking DEF Making, Whole, OneName
<1> HIDE DEF c, state
<1>6. SoundCalls(Create(w)) /\ SoftLast(Create(w)) /\ Gets(Create(w), there, w)
  BY <1>1, <1>2, <1>3, <1>4, <1>5, MakesOne DEF Making, Answers
<1> QED BY <1>6 DEF Creates, Hiding

LEMMA StoragePoolCreates ==
  ASSUME kind = "storage_pool", NEW w \in Configs
  PROVE  Creates(w)
<1> DEFINE c == CreatePool(w)
           d == see(w.name, [name |-> w.name])
           state == StateOf(w.name, w)
<1>1. DOMAIN w = FieldsOf /\ kind \in ByName /\ Asked(w) = w
  BY DEF Configs, StoragePoolConfigs, FieldsOf, ByName, AllKinds, Asked
<1>2. Proper(state) /\ KeysOf(state) = {w.name}
  BY <1>1, ProperNamed
<1>3. c.op = "add" /\ c.key = w.name /\ c.val = w /\ c.soft = <<>> /\ d.op = "see" /\ d.soft = <<>>
  BY Singles DEF CreatePool
<1>4. Create(w) = <<c, d, returns(state)>>
  BY DEF Create, StoragePoolCreate
<1>5. SoundCall(c)
  BY <1>1, <1>3, SoundMaking DEF Making, Whole, OneName
<1> HIDE DEF c, d, state
<1>6. Answers(c.val, w) /\ c.op \in Making
  BY <1>1, <1>3 DEF Making, Answers
<1>7. SoundCalls(<<c, d, returns(state)>>) /\ SoftLast(<<c, d, returns(state)>>) /\ Gets(<<c, d, returns(state)>>, there, w)
  BY <1>2, <1>3, <1>5, <1>6, MakesOneAndSees
<1> QED BY <1>4, <1>7 DEF Creates, Hiding

LEMMA SSHKeyCreates ==
  ASSUME kind = "ssh_key", NEW w \in Configs
  PROVE  Creates(w)
<1> DEFINE c == CreateSSHKey(w)
           state == StateOf(w.name, w)
<1>1. DOMAIN w = FieldsOf /\ kind \in ByName /\ Asked(w) = Only({"name"}, w)
  BY DEF Configs, SSHKeyConfigs, FieldsOf, ByName, AllKinds, Asked
<1>2. Proper(state) /\ KeysOf(state) = {w.name}
  BY <1>1, ProperNamed
<1>3. c.op = "add" /\ c.key = w.name /\ c.val = w /\ c.soft = <<>>
  BY Singles DEF CreateSSHKey
<1>4. Create(w) = <<c, returns(state)>>
  BY DEF Create, SSHKeyCreate
<1>5. SoundCall(c)
  BY <1>1, <1>3, SoundMaking DEF Making, Whole, OneName
<1>6. Answers(c.val, w)
  BY <1>1, <1>3 DEF Answers, Only, FieldsOf
<1> HIDE DEF c, state
<1>7. SoundCalls(Create(w)) /\ SoftLast(Create(w)) /\ Gets(Create(w), there, w)
  BY <1>2, <1>3, <1>4, <1>5, <1>6, MakesOne DEF Making
<1> QED BY <1>7 DEF Creates, Hiding

LEMMA SpaceCreates ==
  ASSUME kind = "space", NEW w \in Configs
  PROVE  Creates(w)
<1> DEFINE c == CreateSpace(w.name)
           d == see(w.name, [name |-> w.name])
           state == StateOf(w.name, w)
<1>1. DOMAIN w = {"name"} /\ kind \in ByName /\ Asked(w) = w
  BY DEF Configs, SpaceConfigs, ByName, AllKinds, Asked
<1>2. Proper(state) /\ KeysOf(state) = {w.name}
  BY <1>1, ProperNamed
<1>3. /\ c.op = "add" /\ c.key = w.name /\ c.val = [name |-> w.name, subnets |-> {}] /\ c.soft = <<>>
      /\ d.op = "see" /\ d.soft = <<>>
  BY Singles DEF CreateSpace
<1>4. Create(w) = <<c, d, returns(state)>>
  BY DEF Create, SpaceCreate
<1>5. SoundCall(c)
  BY <1>3, SoundMaking DEF Making, Whole, OneName, FieldsOf
<1>6. Answers(c.val, w)
  BY <1>1, <1>3 DEF Answers
<1> HIDE DEF c, d, state
<1>7. SoundCalls(Create(w)) /\ SoftLast(Create(w)) /\ Gets(Create(w), there, w)
  <2>1. c.op \in Making /\ KeysOf(state) = {c.key} /\ d.op = "see" /\ d.soft = <<>> /\ kind # "model"
    BY <1>2, <1>3 DEF Making
  <2> QED BY <2>1, <1>2, <1>4, <1>5, <1>6, MakesOneAndSees
<1> QED BY <1>7 DEF Creates, Hiding

LEMMA SecretBackendCreates ==
  ASSUME kind = "secret_backend", NEW w \in Configs
  PROVE  Creates(w)
<1> DEFINE c == CreateSecretBackend(w)
           state == StateOf(w.name, w)
<1>1. DOMAIN w = {"name", "interval", "version"} /\ kind \in ByName
  BY DEF Configs, SecretBackendConfigs, ByName, AllKinds
<1>2. Proper(state) /\ KeysOf(state) = {w.name} /\ state.version = w.version
  BY <1>1, ProperNamed
<1>3. c.op = "add" /\ c.key = w.name /\ c.val = SecretBackendOf(w) /\ c.soft = <<>>
  BY Singles DEF CreateSecretBackend
<1>4. Create(w) = <<c, returns(state)>>
  BY DEF Create, SecretBackendCreate
<1>5. SoundCall(c)
  BY <1>3, SoundMaking DEF Making, Whole, OneName, FieldsOf, SecretBackendOf
<1>6. Answers(c.val, w)
  BY <1>3 DEF Answers, Asked, Only, SetIn, SecretBackendOf
<1>7. HiddenFields = {"content"} /\ In("content") = "version" /\ Covers(c.val, w)
  BY <1>3 DEF HiddenFields, In, Allows, SecretBackendOf, Covers
<1> HIDE DEF c, state
<1>8. /\ SoundCalls(Create(w)) /\ ToSet(Create(w)) = {c, returns(state)} /\ SoftLast(Create(w))
      /\ Gets(Create(w), there, w) /\ Keeps(Create(w), there, w)
  <2>1. c.op \in Making /\ KeysOf(state) = {c.key} /\ kind # "model"
    BY <1>2, <1>3 DEF Making
  <2> QED BY <2>1, <1>2, <1>4, <1>5, <1>6, <1>7, MakesOne
<1> QED BY <1>2, <1>3, <1>7, <1>8, Singles DEF Creates

LEMMA OfferCreates ==
  ASSUME kind = "offer", NEW w \in Configs
  PROVE  Creates(w)
<1> DEFINE c == put(w.name, [name |-> w.name, endpoints |-> w.endpoints, connected |-> FALSE])
           d == findCreatedOffer(w)
           state == StateOf(w.name, w)
<1>1. DOMAIN w = {"name", "endpoints", "force"} /\ kind \in ByName
  BY DEF Configs, OfferConfigs, ByName, AllKinds
<1>2. Proper(state) /\ KeysOf(state) = {w.name}
  BY <1>1, ProperNamed
<1>3. /\ c.op = "put" /\ c.key = w.name /\ c.soft = <<>>
      /\ c.val = [name |-> w.name, endpoints |-> w.endpoints, connected |-> FALSE]
      /\ d.op = "see" /\ d.soft = <<>>
  BY Singles DEF findCreatedOffer
<1>4. Create(w) = <<c, d>> \o <<returns(state)>>
  BY DEF Create, OfferCreate, CreateOffer
<1>5. SoundCall(c)
  BY <1>3, SoundMaking DEF Making, Whole, OneName, FieldsOf
<1>6. Answers(c.val, w)
  BY <1>3 DEF Answers, Asked, Only
<1> HIDE DEF c, d, state
<1>7. Create(w) = <<c, d, returns(state)>>
  BY <1>4, Tuples
<1>8. SoundCalls(Create(w)) /\ SoftLast(Create(w)) /\ Gets(Create(w), there, w)
  <2>1. c.op \in Making /\ KeysOf(state) = {c.key} /\ d.op = "see" /\ d.soft = <<>> /\ kind # "model"
    BY <1>2, <1>3 DEF Making
  <2> QED BY <2>1, <1>2, <1>5, <1>6, <1>7, MakesOneAndSees
<1> QED BY <1>8 DEF Creates, Hiding

LEMMA JAASControllerCreates ==
  ASSUME kind = "jaas_controller", NEW w \in Configs
  PROVE  Creates(w)
<1> DEFINE c == AddController(w)
           state == [StateOf(w.name, w) EXCEPT !.ca = infoOf(w).ca]
<1>1. DOMAIN w = {"name", "ca", "password", "force"} /\ kind \in ByName
  BY DEF Configs, ControllerConfigsOfJAAS, ByName, AllKinds
<1>2. Proper(state) /\ KeysOf(state) = {w.name}
  <2>1. Proper(StateOf(w.name, w)) /\ KeysOf(StateOf(w.name, w)) = {w.name} /\ w.name \in Keys
    BY <1>1, ProperNamed
  <2> DEFINE s == StateOf(w.name, w)
             ca == infoOf(w).ca
  <2> HIDE DEF s, ca
  <2>2. KeysOf([s EXCEPT !.ca = ca]) = {[s EXCEPT !.ca = ca].name} /\ KeysOf(s) = {s.name}
    BY <1>1, NamedKeys
  <2>3. Proper(s) => Proper([s EXCEPT !.ca = ca]) /\ KeysOf([s EXCEPT !.ca = ca]) = KeysOf(s)
    BY <2>2 DEF Proper, StateFields
  <2> QED BY <2>1, <2>3 DEF s, ca
<1>3. c.op = "add" /\ c.key = w.name /\ c.val = infoOf(w) /\ c.soft = <<>>
  BY Singles DEF AddController
<1>4. Create(w) = <<c, returns(state)>>
  BY DEF Create, JAASControllerCreate
<1>5. DOMAIN infoOf(w) = {"name", "ca"} /\ Asked(w) = infoOf(w)
  BY DEF infoOf, Asked
<1>6. SoundCall(c)
  BY <1>3, <1>5, SoundMaking DEF Making, Whole, OneName, FieldsOf
<1> HIDE DEF c, state
<1>7. SoundCalls(Create(w)) /\ SoftLast(Create(w)) /\ Gets(Create(w), there, w)
  BY <1>2, <1>3, <1>4, <1>5, <1>6, MakesOne DEF Making, Answers
<1> QED BY <1>7 DEF Creates, Hiding

LEMMA GroupCreates ==
  ASSUME kind \in NamedKinds, NEW w \in Configs
  PROVE  Creates(w)
<1> DEFINE key == FreshID(there)
           c == addNamed(key, [name |-> w.name])
           state == StateOf(key, w)
<1>1. w \in [name : Names] /\ kind \in AllKinds \ {"controller"} /\ Asked(w) = w
  BY DEF Configs, GroupConfigs, NamedKinds, AllKinds, Asked
<1>2. Proper(state) /\ KeysOf(state) = {key}
  <2>1. state.id = key
    BY StateOfID
  <2> HIDE DEF key, state
  <2>2. KeysOf(state) = {key}
    BY <2>1 DEF KeysOf, NamedKinds
  <2> QED BY <1>1, <2>2, FreshIDs, ProperState DEF key, state
<1>3. c.op = "add_named" /\ c.key = key /\ c.val = [name |-> w.name] /\ c.soft = <<>>
  BY Singles
<1>4. Create(w) = <<c, returns(state)>>
  BY DEF Create, GroupCreate, RoleCreate, AddGroup, AddRole, NamedKinds
<1>5. SoundCall(c)
  BY <1>3, SoundMaking DEF Making, Whole, OneName, FieldsOf, NamedKinds
<1>6. Answers(c.val, w)
  BY <1>1, <1>3 DEF Answers
<1>7. kind \notin Hiding /\ kind \notin {"model", "application", "user", "secret_backend"}
  BY DEF NamedKinds, Hiding
<1> HIDE DEF c, state, key
<1>8. SoundCalls(Create(w)) /\ SoftLast(Create(w)) /\ Gets(Create(w), there, w)
  BY <1>2, <1>3, <1>4, <1>5, <1>6, <1>7, MakesOne DEF Making
<1> QED BY <1>7, <1>8 DEF Creates

\* None is none of the values that configurations and objects have.
NoneIsNoValue == None \notin {0, 1, 2, "auto", "b", "alpha", "s1"} \cup ({"plain", "wo"} \X {1, 2})

LEMMA SecretCreates ==
  ASSUME kind = "secret", NEW w \in Configs
  PROVE  Creates(w)
<1> DEFINE key == FreshID(there)
           c == CreateSecret(key, w)
           state == StateOf(key, w)
<1>1. /\ DOMAIN w = {"name", "info", "value", "version"} /\ kind \in AllKinds \ {"controller"}
  BY DEF Configs, SecretConfigs, AllKinds
<1>2. Proper(state) /\ KeysOf(state) = {key}
  <2>1. state.id = key
    BY StateOfID
  <2> HIDE DEF key, state
  <2>2. KeysOf(state) = {key}
    BY <2>1 DEF KeysOf
  <2> QED BY <1>1, <2>2, FreshIDs, ProperState DEF key, state
<1>3. c.op \in Making /\ c.key = key /\ c.soft = <<>>
      /\ c.val = [name |-> w.name, info |-> w.info, content |-> resolveSecretValue(w)]
  BY Singles DEF CreateSecret, Making
<1>4. Create(w) = <<c, returns(state)>>
  BY DEF Create, SecretCreate
<1>5. IsContent(resolveSecretValue(w))
  BY DEF IsContent, resolveSecretValue
<1>6. SoundCall(c)
  BY <1>3, <1>5, SoundMaking DEF Whole, OneName, FieldsOf
<1>7. Answers(c.val, w)
  BY <1>3 DEF Asked, SetIn, Answers
<1>8. Covers(c.val, w)
  BY <1>3 DEF Covers, HiddenFields, In, Allows, resolveSecretValue
<1>9. c.op \in Making /\ KeysOf(state) = {c.key} /\ kind # "model"
  BY <1>2, <1>3
<1> HIDE DEF c, state, key
<1>10. SoundCalls(Create(w)) /\ SoftLast(Create(w)) /\ Gets(Create(w), there, w) /\ Keeps(Create(w), there, w)
  BY <1>2, <1>4, <1>6, <1>7, <1>8, <1>9, MakesOne
<1> QED BY <1>10 DEF Creates

LEMMA ControllerCreates ==
  ASSUME kind = "controller", NEW w \in Configs
  PROVE  Creates(w)
<1> DEFINE key == FreshID(there)
           c == Bootstrap(key, w)
           d == ReadConnectionInfo(key)
           state == StateWith(w.name, key, w)
<1>1. w.name = "a" /\ DOMAIN w \cup {"id", "uuid"} = StateFields
  BY ConfigShape DEF AllKinds, OneName
<1>2. Proper(state) /\ KeysOf(state) = {key}
  <2>1. state = [x \in StateFields |-> state[x]] /\ state.uuid = key
    BY <1>1 DEF StateWith
  <2> HIDE DEF key, state
  <2>2. KeysOf(state) = {key}
    BY <2>1 DEF KeysOf
  <2> QED BY <2>1, <2>2, FreshIDs DEF Proper, key
<1>3. c.op = "add" /\ c.key = key /\ c.soft = <<>> /\ d.op = "see" /\ d.soft = <<>>
      /\ c.val = [name |-> w.name, config |-> w.config, modelconfig |-> w.modelconfig, version |-> w.version]
  BY Singles DEF Bootstrap, ReadConnectionInfo
<1>4. Create(w) = <<c, d, returns(state)>>
  BY DEF Create, ControllerCreate
<1>5. SoundCall(c)
  BY <1>1, <1>3, SoundMaking DEF Whole, OneName, FieldsOf, Making
<1>6. Answers(c.val, w)
  BY <1>3 DEF Asked, SetIn, Answers, Only
<1>7. Covers(c.val, w)
  BY <1>3 DEF Covers, HiddenFields, In, Allows
<1>8. c.op \in Making /\ KeysOf(state) = {c.key} /\ d.op = "see" /\ d.soft = <<>> /\ kind # "model"
  BY <1>2, <1>3 DEF Making
<1> HIDE DEF c, d, state, key
<1>9. SoundCalls(Create(w)) /\ SoftLast(Create(w)) /\ Gets(Create(w), there, w) /\ Keeps(Create(w), there, w)
  BY <1>2, <1>4, <1>5, <1>6, <1>7, <1>8, MakesOneAndSees
<1> QED BY <1>9 DEF Creates

LEMMA ApplicationCreates ==
  ASSUME NoneIsNoValue, kind = "application", NEW w \in Configs
  PROVE  Creates(w)
<1> DEFINE default == BoundIn(w.bindings, others, modelDefault)
           c == CreateApplication(w)
           d == see(w.name, [name |-> w.name])
           state == StateOf(w.name, w)
<1>1. /\ w \in AppConfigs /\ kind \in ByName /\ DOMAIN w = {"name", "revision", "config", "resource", "bindings"}
  BY DEF Configs, AppConfigs, ByName, AllKinds
<1>2. Proper(state) /\ KeysOf(state) = {w.name}
  BY <1>1, ProperNamed
<1>3. /\ c.op = "add" /\ c.key = w.name /\ c.soft = <<>> /\ d.op = "see" /\ d.soft = <<>>
      /\ c.val = [name |-> w.name, revision |-> w.revision, config |-> w.config,
                  resource |-> IF w.resource = None THEN 0 ELSE w.resource,
                  default |-> default, db |-> BoundIn(w.bindings, "db", default),
                  new |-> IF w.revision = 2 THEN BoundIn(w.bindings, "new", default) ELSE None]
  BY Singles DEF CreateApplication
<1>4. Create(w) = <<c, d, returns(state)>>
  BY DEF Create, AppCreate
<1>5. /\ default # None /\ BoundIn(w.bindings, "new", default) # None
      /\ w.bindings # None => DOMAIN w.bindings \subseteq {"db", others, "new"}
                              /\ ("new" \in DOMAIN w.bindings => w.revision = 2)
  BY <1>1 DEF AppConfigs, BoundIn, NoneIsNoValue, modelDefault, others
<1>6. SoundCall(c)
  <2>1. AppWhole(c.val) /\ Whole(c.val)
    BY <1>3, <1>5 DEF AppWhole, Whole, OneName, FieldsOf
  <2> QED BY <1>3, <2>1, SoundMaking DEF Making
<1>7. Answers(c.val, w)
  <2> DEFINE bound == IF w.bindings = None THEN {} ELSE {FieldOf(e) : e \in DOMAIN w.bindings}
  <2>1. /\ DOMAIN Asked(w) = {"name", "revision", "config"} \cup (IF w.resource = None THEN {} ELSE {"resource"}) \cup bound
        /\ \A x \in DOMAIN Asked(w) : Asked(w)[x] = IF x \in bound THEN w.bindings[EndpointOf(x)] ELSE w[x]
    BY DEF Asked, AppAsked
  <2>2. ASSUME NEW x \in bound
        PROVE  /\ x \in {"default", "db", "new"} /\ w.bindings # None /\ EndpointOf(x) \in DOMAIN w.bindings
    BY <1>5, <2>2 DEF FieldOf, EndpointOf, others
  <2>3. ASSUME NEW x \in bound PROVE c.val[x] = w.bindings[EndpointOf(x)]
    <3> HIDE DEF bound
    <3>1. CASE x = "default"
      BY <1>3, <2>2, <3>1 DEF EndpointOf, BoundIn
    <3>2. CASE x = "db"
      BY <1>3, <2>2, <3>2 DEF EndpointOf, BoundIn
    <3>3. CASE x = "new"
      BY <1>3, <1>5, <2>2, <3>3 DEF EndpointOf, BoundIn
    <3> QED BY <2>2, <3>1, <3>2, <3>3
  <2>4. ASSUME NEW x \in DOMAIN Asked(w), x \notin bound PROVE x \in DOMAIN c.val /\ c.val[x] = w[x]
    <3>1. x \in {"name", "revision", "config"} \/ (w.resource # None /\ x = "resource")
      BY <2>1, <2>4
    <3> HIDE DEF bound
    <3> QED BY <1>3, <3>1
  <2>5. \A x \in bound : x \in DOMAIN c.val
    BY <1>3, <2>2
  <2> HIDE DEF bound
  <2> QED BY <2>1, <2>3, <2>4, <2>5 DEF Answers
<1>8. Covers(c.val, w)
  <2>1. HiddenFields = {"config", "default", "db", "new"} /\ HiddenFields \subseteq DOMAIN c.val
    BY <1>3 DEF HiddenFields
  <2>2. Allows("config", w[In("config")], c.val.config)
    BY <1>3 DEF In, Allows
  <2>3. Allows("default", w[In("default")], c.val.default)
    BY <1>3 DEF In, Allows, EndpointOf, BoundIn
  <2>4. Allows("db", w[In("db")], c.val.db)
    BY <1>3 DEF In, Allows, EndpointOf, BoundIn
  <2>5. Allows("new", w[In("new")], c.val.new)
    BY <1>3, <1>5 DEF In, Allows, EndpointOf, BoundIn
  <2> QED BY <2>1, <2>2, <2>3, <2>4, <2>5 DEF Covers
<1>9. c.op \in Making /\ KeysOf(state) = {c.key} /\ d.op = "see" /\ d.soft = <<>> /\ kind # "model"
  BY <1>2, <1>3 DEF Making
<1>10. c.op # "set" /\ d.op # "set" /\ returns(state).op # "set"
  BY <1>3, Singles
<1> HIDE DEF c, d, state, default
<1>11. /\ SoundCalls(Create(w)) /\ ToSet(Create(w)) = {c, d, returns(state)} /\ Create(w)[1] = c /\ SoftLast(Create(w))
       /\ Gets(Create(w), there, w) /\ Keeps(Create(w), there, w)
  BY <1>2, <1>4, <1>6, <1>7, <1>8, <1>9, MakesOneAndSees
<1> QED BY <1>9, <1>10, <1>11 DEF Creates

LEMMA KubernetesCloudCreates ==
  ASSUME kind = "kubernetes_cloud", NEW w \in Configs
  PROVE  Creates(w)
<1> DEFINE c == add(w.name, [KubernetesCloudOf(w) EXCEPT !.credential = None])
           d == set(w.name, [credential |-> w.config])
           body == <<c, d>>
           state == StateOf(w.name, w)
<1>1. DOMAIN w = {"name", "config", "storage"} /\ kind \in ByName
  BY DEF Configs, KubernetesCloudConfigs, ByName, AllKinds
<1>2. Proper(state) /\ KeysOf(state) = {w.name}
  BY <1>1, ProperNamed
<1>3. /\ c.op = "add" /\ c.key = w.name /\ c.soft = <<>> /\ DOMAIN c.val = FieldsOf
      /\ c.val.name = w.name /\ c.val.config = w.config
      /\ d.op = "set" /\ d.key = w.name /\ d.soft = <<>> /\ DOMAIN d.val = {"credential"}
  BY Singles DEF KubernetesCloudOf, FieldsOf
<1>4. Create(w) = body \o <<returns(state)>>
  BY DEF Create, KubernetesCloudCreate, CreateKubernetesCloud
<1>5. SoundCall(c) /\ SoundCall(d)
  BY <1>3, SoundMaking, SoundSetting DEF Making, Whole, OneName
<1>6. DOMAIN Asked(w) = {"name", "config"} /\ Asked(w).name = w.name /\ Asked(w).config = w.config
  BY DEF Asked, Only
<1>7. \A x \in DOMAIN Asked(w) : x \in DOMAIN c.val /\ Ok(x, c.val[x], Asked(w)[x], "exactly") /\ x \notin DOMAIN d.val
  BY <1>3, <1>6 DEF FieldsOf, Ok
<1>8. c.op \in Setting /\ d.op \in Setting /\ c.key = w.name
  BY <1>3 DEF Setting, Making
<1> HIDE DEF c, d
<1>9. \A x \in DOMAIN Asked(w) : Sure(body, w.name, x, Asked(w)[x], "exactly")
  BY <1>7, <1>8, SettingCalls, SureTuples
<1>10. SoundCalls(body) /\ ToSet(body) = {c, d} /\ Unmoved(body)
  BY <1>5, <1>8, SoundTuples, SetsOfTuples, SureTuples, SettingCalls
<1> HIDE DEF body, state
<1>11. Gets(Create(w), there, w)
  BY <1>2, <1>4, <1>8, <1>9, <1>10, HandlerGets DEF Lands
<1>12. SoundCalls(Create(w)) /\ SoftLast(Create(w))
  BY <1>2, <1>4, <1>10, Handler
<1> QED BY <1>11, <1>12 DEF Creates, Hiding

\* Subnets are moved: the name stays, and they are there.
LEMMA MovingSubnets ==
  ASSUME kind = "subnet", ThereInv, NEW w \in Configs
  PROVE  LET body == MovedTo(w.name, w.space) IN
         /\ SoundCalls(body) /\ Unmoved(body) /\ \E c \in ToSet(body) : c.op \in Setting /\ c.key = w.name
         /\ Asked(w) = w /\ DOMAIN w = {"name", "space"}
         /\ Sure(body, w.name, "space", w.space, "exactly")
         /\ Still(body, w.name, "name", w.name, "exactly") /\ Is(there, w.name, "name", w.name, "exactly")
<1> DEFINE c == MoveSubnetToSpace(w.name, w.space)
           d == see(w.name, [space |-> w.space])
           body == <<c, d>>
<1>1. /\ c.op = "set" /\ c.key = w.name /\ c.soft = <<>> /\ c.val = [space |-> w.space]
      /\ d.op = "see" /\ d.soft = <<>>
  BY Singles DEF MoveSubnetToSpace
<1>2. MovedTo(w.name, w.space) = body
  BY DEF MovedTo
<1>3. SoundCall(c) /\ SoundCall(d)
  BY <1>1, SoundSetting, IdleCalls DEF OneName, Idle
<1>4. Gives(c, w.name, "space", w.space, "exactly") /\ Spares(c, w.name, "name", w.name, "exactly")
  BY <1>1, SettingCalls DEF Setting, Ok
<1>5. \A k, x, v, how : Spares(d, k, x, v, how)
  BY <1>1, IdleCalls DEF Idle
<1>6. c.op \in Setting /\ c.key = w.name /\ c.op # "move" /\ d.op # "move"
  BY <1>1 DEF Setting
<1> HIDE DEF c, d
<1>7. SoundCalls(body) /\ ToSet(body) = {c, d} /\ Unmoved(body)
  BY <1>3, <1>6, SoundTuples, SetsOfTuples, SureTuples
<1>8. Sure(body, w.name, "space", w.space, "exactly") /\ Still(body, w.name, "name", w.name, "exactly")
  BY <1>4, <1>5, SureTuples
<1>9. Asked(w) = w /\ DOMAIN w = {"name", "space"}
  BY DEF Configs, SubnetConfigs, Asked
<1>10. Is(there, w.name, "name", w.name, "exactly")
  BY ConfigNames DEF ThereInv, ByName, AllKinds, Is, Ok
<1> HIDE DEF body
<1> QED BY <1>2, <1>6, <1>7, <1>8, <1>9, <1>10

LEMMA SubnetCreates ==
  ASSUME kind = "subnet", ThereInv, NEW w \in Configs
  PROVE  Creates(w)
<1> DEFINE first == <<check(w.name, [space |-> "alpha"])>>
           moves == MovedTo(w.name, w.space)
           body == first \o moves
           state == StateOf(w.name, w)
<1>1. Proper(state) /\ KeysOf(state) = {w.name}
  BY ProperNamed DEF ByName, AllKinds
<1>2. Create(w) = body \o <<returns(state)>>
  BY DEF Create, SubnetCreate
<1>3. SoundCalls(first) /\ Unmoved(first) /\ \A k, x, v, how : Still(first, k, x, v, how)
  <2> DEFINE c == check(w.name, [space |-> "alpha"])
  <2>1. SoundCall(c) /\ c.op # "move" /\ \A k, x, v, how : Spares(c, k, x, v, how)
    BY Singles, IdleCalls DEF Idle
  <2>2. first = <<c>>
    OBVIOUS
  <2> HIDE DEF c, first
  <2> QED BY <2>1, <2>2, SoundTuples, SureTuples
<1>4. /\ SoundCalls(moves) /\ Unmoved(moves) /\ \E c \in ToSet(moves) : c.op \in Setting /\ c.key = w.name
      /\ Asked(w) = w /\ DOMAIN w = {"name", "space"}
      /\ Sure(moves, w.name, "space", w.space, "exactly")
      /\ Still(moves, w.name, "name", w.name, "exactly") /\ Is(there, w.name, "name", w.name, "exactly")
  BY MovingSubnets
<1> HIDE DEF first, moves, state
<1>5. /\ SoundCalls(body) /\ Unmoved(body) /\ \E c \in ToSet(body) : c.op \in Setting /\ c.key = w.name
      /\ Sure(body, w.name, "space", w.space, "exactly") /\ Still(body, w.name, "name", w.name, "exactly")
  BY <1>3, <1>4, SoundTogether
<1> HIDE DEF body
<1>6. Gets(Create(w), there, w)
  BY <1>1, <1>2, <1>4, <1>5, HandlerGets DEF Lands
<1>7. SoundCalls(Create(w)) /\ SoftLast(Create(w))
  BY <1>1, <1>2, <1>5, Handler
<1> QED BY <1>6, <1>7 DEF Creates, Hiding

\* A credential is put where it is wanted, be it new or not.
LEMMA CredentialComes ==
  ASSUME kind = "credential", NEW w \in Configs
  PROVE  LET cs == CreateCredential(w) \o <<returns(StateOf(newCredentialID(w), w))>> IN
         SoundCalls(cs) /\ SoftLast(cs) /\ (AtWork(cs) => Gets(cs, there, w))
<1> DEFINE v == [name |-> w.name, auth |-> w.auth]
           c == put("client", v)
           d == put("controller", v)
           one == putClient(w)
           two == putController(w)
           body == CreateCredential(w)
           id == newCredentialID(w)
           state == StateOf(id, w)
           cs == body \o <<returns(state)>>
<1>1. w \in CredentialConfigs /\ kind \in AllKinds \ {"controller"}
  BY DEF Configs, AllKinds
<1>2. KeysOf(state) = Flagged(w) /\ Flagged(w) \subseteq {"client", "controller"} /\ Flagged(w) \subseteq Keys
  <2>1. state.id = id /\ id = [client |-> w.client, controller |-> w.controller]
    BY StateOfID DEF newCredentialID
  <2> HIDE DEF state, id
  <2>2. KeysOf(state) = Flagged(state.id)
    BY DEF KeysOf
  <2> QED BY <2>1, <2>2 DEF Flagged, Keys
<1>3. Proper(state)
  <2> HIDE DEF id
  <2> QED BY <1>1, <1>2, ProperState
<1>4. /\ c.op = "put" /\ c.key = "client" /\ c.soft = <<>> /\ c.val = v
      /\ d.op = "put" /\ d.key = "controller" /\ d.soft = <<>> /\ d.val = v
  BY Singles
<1>5. SoundCall(c) /\ SoundCall(d)
  BY <1>4, SoundMaking DEF Making, Whole, OneName, FieldsOf
<1>6. DOMAIN Asked(w) = {"name", "auth"} /\ \A x \in DOMAIN Asked(w) : x \in DOMAIN v /\ v[x] = Asked(w)[x]
  BY DEF Asked, Only
<1>7. \A x \in DOMAIN Asked(w) : /\ Gives(c, "client", x, Asked(w)[x], "exactly") /\ Spares(c, "controller", x, Asked(w)[x], "exactly")
                                 /\ Gives(d, "controller", x, Asked(w)[x], "exactly") /\ Spares(d, "client", x, Asked(w)[x], "exactly")
  BY <1>4, <1>6 DEF Gives, Spares, Setting, Making, Renaming, Ok
<1>8. /\ one = IF w.client THEN <<c>> ELSE <<>>
      /\ two = IF w.controller THEN <<d>> ELSE <<>>
      /\ body = IF Flagged(w) = {} THEN <<fails>> ELSE one \o two
  BY DEF putClient, putController, CreateCredential
<1>9. c.op # "move" /\ d.op # "move" /\ c.op \in Setting /\ d.op \in Setting /\ c.key = "client" /\ d.key = "controller"
  BY <1>4 DEF Setting, Making
<1>10. SoundCall(fails)
  BY Singles, IdleCalls DEF Idle
<1>11. w.client \in BOOLEAN /\ w.controller \in BOOLEAN
       /\ ("client" \in Flagged(w) <=> w.client) /\ ("controller" \in Flagged(w) <=> w.controller)
  BY <1>1 DEF CredentialConfigs, Flagged
<1> HIDE DEF v, c, d, one, two, body, id, state
<1>12. /\ SoundCalls(one) /\ SoundCalls(two) /\ Unmoved(one) /\ Unmoved(two)
       /\ w.client => c \in ToSet(one)
       /\ w.controller => d \in ToSet(two)
  BY <1>5, <1>8, <1>9, SoundTuples, SetsOfTuples, SureTuples
<1>13. \A x \in DOMAIN Asked(w) : /\ w.client => Sure(one, "client", x, Asked(w)[x], "exactly")
                                  /\ Still(one, "controller", x, Asked(w)[x], "exactly")
                                  /\ w.controller => Sure(two, "controller", x, Asked(w)[x], "exactly")
                                  /\ Still(two, "client", x, Asked(w)[x], "exactly")
  BY <1>7, <1>8, SureTuples
<1>14. CASE Flagged(w) = {}
  <2>1. SoundCalls(body) /\ fails \in ToSet(body)
    BY <1>8, <1>10, <1>14, SoundTuples, SetsOfTuples
  <2>2. SoundCalls(cs) /\ SoftLast(cs) /\ fails \in ToSet(cs)
    BY <1>3, <2>1, Handler
  <2>3. ~AtWork(cs)
    BY <2>2, Singles DEF AtWork, Good
  <2> QED BY <2>2, <2>3 DEF body, state, id
<1>15. CASE Flagged(w) # {}
  <2>1. body = one \o two
    BY <1>8, <1>15
  <2>2. SoundCalls(body) /\ Unmoved(body) /\ ToSet(body) = ToSet(one) \cup ToSet(two)
    BY <1>12, <2>1, SoundTogether
  <2>3. \A x \in DOMAIN Asked(w) : /\ w.client => Sure(body, "client", x, Asked(w)[x], "exactly")
                                   /\ w.controller => Sure(body, "controller", x, Asked(w)[x], "exactly")
    BY <1>12, <1>13, <2>1, SoundTogether
  <2>4. \A k \in Flagged(w) : /\ \E e \in ToSet(body) : e.op \in Setting /\ e.key = k
                              /\ \A x \in DOMAIN Asked(w) : Sure(body, k, x, Asked(w)[x], "exactly")
    BY <1>2, <1>9, <1>11, <1>12, <2>2, <2>3
  <2>5. Gets(cs, there, w)
    BY <1>2, <1>3, <2>2, <2>4, HandlerGets DEF Lands
  <2>6. SoundCalls(cs) /\ SoftLast(cs)
    BY <1>3, <2>2, Handler
  <2> QED BY <2>5, <2>6 DEF body, state, id
<1> QED BY <1>14, <1>15

LEMMA CredentialCreates ==
  ASSUME kind = "credential", NEW w \in Configs
  PROVE  Creates(w)
<1>1. Create(w) = CreateCredential(w) \o <<returns(StateOf(newCredentialID(w), w))>>
  BY DEF Create, CredentialCreate
<1> QED BY <1>1, CredentialComes DEF Creates, Hiding

LEMMA SoundLastTwo ==
  ASSUME NEW body, SoundCalls(body), NEW c, NEW end
  PROVE  body \o <<c, end>> = (body \o <<c>>) \o <<end>>
<1> DEFINE S == ToSet(body) \cup {c}
<1>1. body \in Seq(S) /\ c \in S
  BY DEF SoundCalls
<1> HIDE DEF S
<1> QED BY <1>1, LastTwo

\* A call that sets fields, or none when there is nothing to change.
LEMMA MaybeSets ==
  ASSUME NEW c, c.op = "set", NEW cs, cs = <<>> \/ (cs = <<c>> /\ SoundCall(c))
  PROVE  /\ SoundCalls(cs) /\ Unmoved(cs)
         /\ \A k, x, v, how : c.key # k \/ x \notin DOMAIN c.val => Still(cs, k, x, v, how)
         /\ \A x, v, how : x \in DOMAIN c.val /\ Ok(x, c.val[x], v, how) =>
              Still(cs, c.key, x, v, how) /\ (cs # <<>> => Sure(cs, c.key, x, v, how))
<1>1. /\ \A k, x, v, how : c.key # k \/ x \notin DOMAIN c.val => Spares(c, k, x, v, how)
      /\ \A x, v, how : x \in DOMAIN c.val /\ Ok(x, c.val[x], v, how) =>
           Gives(c, c.key, x, v, how) /\ Spares(c, c.key, x, v, how)
  BY SettingCalls DEF Setting
<1>2. CASE cs = <<>>
  BY <1>2, SoundTuples, SureTuples
<1>3. CASE cs = <<c>> /\ SoundCall(c)
  BY <1>1, <1>3, SoundTuples, SureTuples
<1> QED BY <1>2, <1>3

LEMMA MachineCreates ==
  ASSUME kind = "machine", NEW w \in Configs
  PROVE  Creates(w)
<1> DEFINE key == FreshID(there)
           state == StateOf(newMachineID(key, w.name), w)
           c == CreateMachine(key, w)
           s == saves(state)
           made == <<c, s>>
           n == SetAnnotations(key, w.annotations)
           notes == updateAnnotations(key, None, w.annotations)
           waits == waitForMachine(key)
           body == (made \o notes) \o <<waits>>
<1>1. w \in MachineConfigs /\ kind \in AllKinds \ {"controller"}
  BY DEF Configs, AllKinds
<1>2. Proper(state) /\ KeysOf(state) = {key}
  <2>1. state.id = <<key, w.name>>
    BY StateOfID DEF newMachineID
  <2> HIDE DEF state, key
  <2>2. KeysOf(state) = {key}
    BY <2>1 DEF KeysOf, modelMachineIDAndName
  <2>3. key \in Keys
    BY FreshIDs DEF key
  <2> QED BY <1>1, <2>2, <2>3, ProperState DEF state
<1>3. /\ c.op = "add" /\ c.key = key /\ c.soft = <<>>
      /\ c.val = [name |-> key, constraints |-> w.constraints, annotations |-> None]
      /\ n.op = "set" /\ n.key = key /\ n.soft = <<>> /\ n.val = [annotations |-> w.annotations]
      /\ s.op = "saves" /\ s.val = state /\ s.soft = <<>>
      /\ waits.op = "see" /\ waits.soft = <<>>
  BY Singles DEF CreateMachine, SetAnnotations, waitForMachine
<1>4. SoundCall(c) /\ SoundCall(n)
  BY <1>3, SoundMaking, SoundSetting DEF Making, Whole, OneName, FieldsOf
<1>5. SoundCall(s) /\ SoundCall(waits)
      /\ \A k, x, v, how : Spares(s, k, x, v, how) /\ Spares(waits, k, x, v, how)
  BY <1>2, <1>3, IdleCalls DEF Idle
<1>6. notes = IF None = w.annotations THEN <<>> ELSE <<n>>
  BY DEF updateAnnotations
<1>7. DOMAIN Asked(w) = {"constraints", "annotations"} /\ \A x \in DOMAIN Asked(w) : Asked(w)[x] = w[x]
  BY DEF Asked, Only
<1>8. Gives(c, key, "constraints", w.constraints, "exactly") /\ (w.annotations = None => Gives(c, key, "annotations", w.annotations, "exactly"))
  <2>1. c.op \in Setting /\ c.key = key /\ DOMAIN c.val = {"name", "constraints", "annotations"}
        /\ c.val["constraints"] = w.constraints /\ c.val["annotations"] = None
    BY <1>3 DEF Setting, Making
  <2> HIDE DEF c, key
  <2> QED BY <2>1 DEF Gives, Ok
<1>9. Create(w) = (made \o notes) \o <<waits, returns(state)>>
  BY DEF Create, MachineCreate
<1>10. c.op # "move" /\ c.op \in Setting /\ c.key = key /\ s.op # "move" /\ waits.op # "move" /\ n.op = "set"
       /\ n.key = key /\ "constraints" \notin DOMAIN n.val /\ "annotations" \in DOMAIN n.val
       /\ Ok("annotations", n.val["annotations"], w.annotations, "exactly")
  BY <1>3 DEF Setting, Making, Ok
<1> HIDE DEF c, s, n, waits, notes, state, key
<1>11. /\ SoundCalls(made) /\ Unmoved(made) /\ c \in ToSet(made)
       /\ Sure(made, key, "constraints", w.constraints, "exactly")
       /\ w.annotations = None => Sure(made, key, "annotations", w.annotations, "exactly")
  <2>1. SoundCalls(<<c, s>>) /\ c \in ToSet(<<c, s>>)
    BY <1>4, <1>5, SoundTuples, SetsOfTuples
  <2>2. \A x, v, how : Gives(c, key, x, v, how) => Sure(<<c, s>>, key, x, v, how)
    BY <1>5, SureTuples
  <2>3. Unmoved(<<c, s>>)
    BY <1>10, SureTuples
  <2> QED BY <1>8, <2>1, <2>2, <2>3
<1>12. /\ SoundCalls(notes) /\ Unmoved(notes)
       /\ Still(notes, key, "constraints", w.constraints, "exactly") /\ Still(notes, key, "annotations", w.annotations, "exactly")
       /\ w.annotations # None => Sure(notes, key, "annotations", w.annotations, "exactly")
  <2>1. notes = <<>> \/ (notes = <<n>> /\ SoundCall(n))
    BY <1>4, <1>6
  <2>2. w.annotations # None => notes # <<>>
    BY <1>6
  <2> QED BY <1>10, <2>1, <2>2, MaybeSets
<1>13. SoundCalls(<<waits>>) /\ Unmoved(<<waits>>) /\ \A k, x, v, how : Still(<<waits>>, k, x, v, how)
  BY <1>5, <1>10, SoundTuples, SureTuples
<1> HIDE DEF made
<1>14. /\ SoundCalls(made \o notes) /\ Unmoved(made \o notes) /\ c \in ToSet(made \o notes)
       /\ Sure(made \o notes, key, "constraints", w.constraints, "exactly")
       /\ Sure(made \o notes, key, "annotations", w.annotations, "exactly")
  BY <1>11, <1>12, SoundTogether
<1>15. /\ SoundCalls(body) /\ Unmoved(body) /\ c \in ToSet(body)
       /\ Sure(body, key, "constraints", w.constraints, "exactly")
       /\ Sure(body, key, "annotations", w.annotations, "exactly")
  BY <1>13, <1>14, SoundTogether
<1>16. Create(w) = body \o <<returns(state)>>
  BY <1>9, <1>14, SoundLastTwo
<1> HIDE DEF body
<1>17. Gets(Create(w), there, w)
  BY <1>2, <1>7, <1>10, <1>15, <1>16, HandlerGets DEF Lands
<1>18. SoundCalls(Create(w)) /\ SoftLast(Create(w))
  BY <1>2, <1>15, <1>16, Handler
<1> QED BY <1>17, <1>18 DEF Creates, Hiding

LEMMA ModelCreates ==
  ASSUME NoneIsNoValue, kind = "model", pc = "create", NEW w \in Configs, w = wanted
  PROVE  Creates(w)
<1> DEFINE key == FreshID(there)
           state == [StateOf(key, w) EXCEPT !.agent = 2, !.credential = credentialOf(w)]
           unset == [state EXCEPT !.backend = None]
           unread == [state EXCEPT !.agent = None]
           a == AddModel(key, w)
           b == SetModelConstraints(key, w.constraints)
           n == SetAnnotations(key, w.annotations)
           d == soft(SetModelSecretBackend(key, w.backend), unset)
           e == soft(see(key, [name |-> w.name]), unread)
           limits == IF w.constraints = None THEN <<>> ELSE <<b>>
           notes == updateAnnotations(key, None, w.annotations)
           backend == IF w.backend = None THEN <<>> ELSE <<d>>
           made == ((<<a>> \o limits) \o notes) \o backend
           body == made \o <<e>>
<1>1. /\ w \in ModelConfigs /\ kind \in AllKinds \ {"controller"} /\ w.name = "a"
      /\ DOMAIN w = {"name", "config", "constraints", "annotations", "backend", "agent", "credential"}
      /\ w.backend \in {None, "b"} /\ w.agent \in {None, 2}
  BY DEF Configs, ModelConfigs, AllKinds
<1>2. /\ Proper(state) /\ KeysOf(state) = {key} /\ Proper(unset) /\ Proper(unread)
      /\ state.backend = w.backend /\ unset.backend = None
  <2> DEFINE s == StateOf(key, w)
             credential == credentialOf(w)
  <2>1. s.id = key /\ s.backend = w.backend
    BY <1>1 DEF StateOf
  <2>2. KeysOf(s) = {key} /\ key \in Keys
    BY <2>1, FreshIDs DEF KeysOf
  <2>3. Proper(s)
    BY <1>1, <2>2, ProperState
  <2>4. \A r : KeysOf(r) = {r.id}
    BY DEF KeysOf
  <2> HIDE DEF s, key, credential
  <2>5. /\ s = [x \in StateFields |-> s[x]]
        /\ StateFields = {"id", "name", "config", "constraints", "annotations", "backend", "agent", "credential"}
    BY <2>3 DEF Proper, StateFields
  <2>6. DOMAIN s = StateFields
    BY <2>5
  <2>7. state = [s EXCEPT !.agent = 2, !.credential = credential]
    BY DEF s, credential
  <2> HIDE DEF state, unset, unread
  <2>8. state = [x \in StateFields |-> state[x]] /\ state.id = key /\ state.backend = w.backend
    BY <2>1, <2>5, <2>6, <2>7
  <2>9. unset = [x \in StateFields |-> unset[x]] /\ unset.id = key /\ unset.backend = None
    BY <2>5, <2>8 DEF unset
  <2>10. unread = [x \in StateFields |-> unread[x]] /\ unread.id = key
    BY <2>5, <2>8 DEF unread
  <2> QED BY <2>2, <2>4, <2>8, <2>9, <2>10 DEF Proper
<1>3. /\ a.op = "add_named" /\ a.key = key /\ a.soft = <<>>
      /\ a.val = [name |-> w.name, config |-> w.config, constraints |-> None, annotations |-> None,
                  backend |-> "auto", agent |-> 2, credential |-> credentialOf(w)]
      /\ b.op = "set" /\ b.key = key /\ b.soft = <<>> /\ b.val = [constraints |-> w.constraints]
      /\ n.op = "set" /\ n.key = key /\ n.soft = <<>> /\ n.val = [annotations |-> w.annotations]
      /\ e.op = "see" /\ e.soft = <<unread>>
  BY Singles DEF AddModel, SetModelConstraints, SetAnnotations, soft, see, Call
<1>4. /\ d.op = "set" /\ d.key = key /\ d.soft = <<unset>>
      /\ d.val = [backend |-> IF w.backend = None THEN "auto" ELSE w.backend]
  BY DEF SetModelSecretBackend, soft, set, Call
<1>5. SoundCall(a) /\ SoundCall(b) /\ SoundCall(n)
  BY <1>1, <1>3, SoundMaking, SoundSetting DEF Making, Whole, OneName, FieldsOf, NoneIsNoValue
<1>6. SoundCall(d)
  BY <1>1, <1>2, <1>4 DEF SoundCall, KeepsWhole, ProperCall, Making, Removing, OneName, NoneIsNoValue
<1>7. SoundCall(e)
  BY <1>2, <1>3 DEF SoundCall, KeepsWhole, ProperCall, Making, Removing, Setting
<1>8. notes = IF None = w.annotations THEN <<>> ELSE <<n>>
  BY DEF updateAnnotations
<1>9. Create(w) = made \o <<e, returns(state)>>
  BY DEF Create, ModelCreate, CreateModel
<1>10. /\ \A k, x, v, how : Spares(e, k, x, v, how)
       /\ e.op # "move" /\ a.op # "move" /\ a.op \in Setting
  BY <1>3 DEF Spares, Setting, Making, Renaming
<1>11. /\ limits = <<>> \/ (limits = <<b>> /\ SoundCall(b))
       /\ notes = <<>> \/ (notes = <<n>> /\ SoundCall(n))
  BY <1>5, <1>8
<1>12. backend = <<>> \/ (backend = <<d>> /\ SoundCall(d))
  BY <1>6
<1>13. /\ w.constraints # None => limits # <<>> 
       /\ w.annotations # None => notes # <<>>
       /\ w.backend # None => backend # <<>>
  BY <1>8
<1>14. \A x, v, how : x \in DOMAIN a.val /\ Ok(x, a.val[x], v, how) => Gives(a, key, x, v, how)
  <2>1. a.op \in Setting /\ a.key = key
    BY <1>3 DEF Setting, Making
  <2> HIDE DEF a, key
  <2> QED BY <2>1 DEF Gives
<1>15. /\ \A k, x, v, how : /\ x # "constraints" => Still(limits, k, x, v, how)
                            /\ x # "annotations" => Still(notes, k, x, v, how)
                            /\ x # "backend" => Still(backend, k, x, v, how)
       /\ \A v, how : /\ Ok("constraints", w.constraints, v, how) =>
                          Still(limits, key, "constraints", v, how) /\ (limits # <<>> => Sure(limits, key, "constraints", v, how))
                      /\ Ok("annotations", w.annotations, v, how) =>
                          Still(notes, key, "annotations", v, how) /\ (notes # <<>> => Sure(notes, key, "annotations", v, how))
                      /\ Ok("backend", IF w.backend = None THEN "auto" ELSE w.backend, v, how) =>
                          Still(backend, key, "backend", v, how) /\ (backend # <<>> => Sure(backend, key, "backend", v, how))
       /\ SoundCalls(limits) /\ SoundCalls(notes) /\ SoundCalls(backend) /\ Unmoved(limits) /\ Unmoved(notes) /\ Unmoved(backend)
  <2>1. /\ b.op = "set" /\ b.key = key /\ DOMAIN b.val = {"constraints"} /\ b.val["constraints"] = w.constraints
        /\ n.op = "set" /\ n.key = key /\ DOMAIN n.val = {"annotations"} /\ n.val["annotations"] = w.annotations
        /\ d.op = "set" /\ d.key = key /\ DOMAIN d.val = {"backend"}
        /\ d.val["backend"] = IF w.backend = None THEN "auto" ELSE w.backend
    BY <1>3, <1>4
  <2> HIDE DEF a, b, n, d, e, limits, notes, backend, key
  <2>2. /\ SoundCalls(limits) /\ Unmoved(limits)
        /\ \A k, x, v, how : b.key # k \/ x \notin DOMAIN b.val => Still(limits, k, x, v, how)
        /\ \A x, v, how : x \in DOMAIN b.val /\ Ok(x, b.val[x], v, how) =>
              Still(limits, b.key, x, v, how) /\ (limits # <<>> => Sure(limits, b.key, x, v, how))
    BY <1>11, <2>1, MaybeSets
  <2>3. /\ SoundCalls(notes) /\ Unmoved(notes)
        /\ \A k, x, v, how : n.key # k \/ x \notin DOMAIN n.val => Still(notes, k, x, v, how)
        /\ \A x, v, how : x \in DOMAIN n.val /\ Ok(x, n.val[x], v, how) =>
              Still(notes, n.key, x, v, how) /\ (notes # <<>> => Sure(notes, n.key, x, v, how))
    BY <1>11, <2>1, MaybeSets
  <2>4. /\ SoundCalls(backend) /\ Unmoved(backend)
        /\ \A k, x, v, how : d.key # k \/ x \notin DOMAIN d.val => Still(backend, k, x, v, how)
        /\ \A x, v, how : x \in DOMAIN d.val /\ Ok(x, d.val[x], v, how) =>
              Still(backend, d.key, x, v, how) /\ (backend # <<>> => Sure(backend, d.key, x, v, how))
    BY <1>12, <2>1, MaybeSets
  <2> QED BY <2>1, <2>2, <2>3, <2>4
<1>16. /\ SoundCalls(<<a>>) /\ Unmoved(<<a>>) /\ ToSet(<<a>>) = {a}
       /\ SoundCalls(<<e>>) /\ Unmoved(<<e>>) /\ \A k, x, v, how : Still(<<e>>, k, x, v, how)
       /\ \A x, v, how : x \in DOMAIN a.val /\ Ok(x, a.val[x], v, how) => Sure(<<a>>, key, x, v, how)
  <2> HIDE DEF a, e
  <2>1. SoundCalls(<<a>>) /\ Unmoved(<<a>>) /\ ToSet(<<a>>) = {a} /\ SoundCalls(<<e>>) /\ Unmoved(<<e>>)
    BY <1>5, <1>7, <1>10, SoundTuples, SetsOfTuples, SureTuples
  <2>2. \A k, x, v, how : Still(<<e>>, k, x, v, how)
    BY <1>10, SureTuples
  <2>3. \A x, v, how : x \in DOMAIN a.val /\ Ok(x, a.val[x], v, how) => Sure(<<a>>, key, x, v, how)
    BY <1>14, SureTuples
  <2> QED BY <2>1, <2>2, <2>3
<1>17. /\ DOMAIN a.val = FieldsOf /\ a.val["name"] = w.name /\ a.val["config"] = w.config
       /\ a.val["constraints"] = None /\ a.val["annotations"] = None /\ a.val["backend"] = "auto" /\ a.val["agent"] = 2
       /\ a.val["credential"] = credentialOf(w)
  BY <1>3 DEF FieldsOf
<1>18. e.op = "see" /\ d.soft = <<unset>> /\ a.soft = <<>> /\ b.soft = <<>> /\ n.soft = <<>> /\ a.op = "add_named"
  BY <1>3, <1>4
<1>19. /\ ToSet(limits) \subseteq {b} /\ ToSet(notes) \subseteq {n}
       /\ ToSet(backend) \subseteq {d} /\ (w.backend = None => ToSet(backend) = {})
  <2> HIDE DEF b, n, d, notes
  <2>1. \/ notes = <<>> \/ notes = <<n>>
    BY <1>8
  <2> QED BY <2>1, SetsOfTuples
<1> HIDE DEF a, b, n, d, e, limits, notes, backend, key, state, unset, unread
<1> DEFINE one == <<a>> \o limits
           two == one \o notes
           three == two \o backend
<1>20. /\ SoundCalls(one) /\ Unmoved(one) /\ ToSet(one) = {a} \cup ToSet(limits)
       /\ \A x, v, how : x \in FieldsOf \ {"constraints"} /\ Ok(x, a.val[x], v, how) => Sure(one, key, x, v, how)
       /\ \A v, how : Ok("constraints", w.constraints, v, how) => Sure(one, key, "constraints", v, how)
  <2>1. /\ SoundCalls(one) /\ Unmoved(one) /\ ToSet(one) = {a} \cup ToSet(limits)
        /\ \A k, x, v, how : /\ Sure(limits, k, x, v, how) => Sure(one, k, x, v, how)
                             /\ Sure(<<a>>, k, x, v, how) /\ Still(limits, k, x, v, how) => Sure(one, k, x, v, how)
    BY <1>15, <1>16, SoundTogether
  <2> HIDE DEF one
  <2>2. ASSUME NEW x, NEW v, NEW how, x \in FieldsOf \ {"constraints"}, Ok(x, a.val[x], v, how)
        PROVE  Sure(one, key, x, v, how)
    <3>1. x \in DOMAIN a.val /\ x # "constraints"
      BY <1>17, <2>2
    <3>2. Sure(<<a>>, key, x, v, how)
      BY <1>16, <2>2, <3>1
    <3>3. Still(limits, key, x, v, how)
      BY <1>15, <3>1
    <3> QED BY <2>1, <3>2, <3>3
  <2>3. ASSUME NEW v, NEW how, Ok("constraints", w.constraints, v, how) PROVE Sure(one, key, "constraints", v, how)
    <3>1. CASE w.constraints # None
      BY <1>13, <1>15, <2>1, <2>3, <3>1
    <3>2. CASE w.constraints = None
      <4>1. Sure(<<a>>, key, "constraints", v, how)
        BY <1>16, <1>17, <2>3, <3>2 DEF FieldsOf
      <4> QED BY <1>15, <2>1, <2>3, <4>1
    <3> QED BY <3>1, <3>2
  <2> QED BY <2>1, <2>2, <2>3
<1>21. /\ SoundCalls(two) /\ Unmoved(two) /\ ToSet(two) = {a} \cup ToSet(limits) \cup ToSet(notes)
       /\ \A x, v, how : x \in FieldsOf \ {"constraints", "annotations"} /\ Ok(x, a.val[x], v, how) => Sure(two, key, x, v, how)
       /\ \A v, how : Ok("constraints", w.constraints, v, how) => Sure(two, key, "constraints", v, how)
       /\ \A v, how : Ok("annotations", w.annotations, v, how) => Sure(two, key, "annotations", v, how)
  <2> HIDE DEF one
  <2>1. /\ SoundCalls(two) /\ Unmoved(two) /\ ToSet(two) = {a} \cup ToSet(limits) \cup ToSet(notes)
        /\ \A k, x, v, how : /\ Sure(notes, k, x, v, how) => Sure(two, k, x, v, how)
                             /\ Sure(one, k, x, v, how) /\ Still(notes, k, x, v, how) => Sure(two, k, x, v, how)
    BY <1>15, <1>20, SoundTogether
  <2> HIDE DEF two
  <2>2. ASSUME NEW x, NEW v, NEW how, x \in FieldsOf \ {"constraints", "annotations"}, Ok(x, a.val[x], v, how)
        PROVE  Sure(two, key, x, v, how)
    BY <1>15, <1>20, <2>1, <2>2
  <2>3. ASSUME NEW v, NEW how, Ok("constraints", w.constraints, v, how) PROVE Sure(two, key, "constraints", v, how)
    BY <1>15, <1>20, <2>1, <2>3
  <2>4. ASSUME NEW v, NEW how, Ok("annotations", w.annotations, v, how) PROVE Sure(two, key, "annotations", v, how)
    <3>1. CASE w.annotations # None
      BY <1>13, <1>15, <2>1, <2>4, <3>1
    <3>2. CASE w.annotations = None
      <4>1. Sure(one, key, "annotations", v, how)
        BY <1>17, <1>20, <2>4, <3>2 DEF FieldsOf
      <4> QED BY <1>15, <2>1, <2>4, <4>1
    <3> QED BY <3>1, <3>2
  <2> QED BY <2>1, <2>2, <2>3, <2>4
<1>22. /\ SoundCalls(three) /\ Unmoved(three) /\ ToSet(three) = {a} \cup ToSet(limits) \cup ToSet(notes) \cup ToSet(backend)
       /\ \A x, v, how : x \in {"name", "config", "agent", "credential"} /\ Ok(x, a.val[x], v, how) => Sure(three, key, x, v, how)
       /\ \A v, how : Ok("constraints", w.constraints, v, how) => Sure(three, key, "constraints", v, how)
       /\ \A v, how : Ok("annotations", w.annotations, v, how) => Sure(three, key, "annotations", v, how)
       /\ \A v, how : Ok("backend", IF w.backend = None THEN "auto" ELSE w.backend, v, how) => Sure(three, key, "backend", v, how)
  <2> HIDE DEF two
  <2>1. /\ SoundCalls(three) /\ Unmoved(three) /\ ToSet(three) = {a} \cup ToSet(limits) \cup ToSet(notes) \cup ToSet(backend)
        /\ \A k, x, v, how : /\ Sure(backend, k, x, v, how) => Sure(three, k, x, v, how)
                             /\ Sure(two, k, x, v, how) /\ Still(backend, k, x, v, how) => Sure(three, k, x, v, how)
    BY <1>15, <1>21, SoundTogether
  <2> HIDE DEF three
  <2>2. ASSUME NEW x, NEW v, NEW how, x \in {"name", "config", "agent", "credential"}, Ok(x, a.val[x], v, how)
        PROVE  Sure(three, key, x, v, how)
    <3>1. x \in FieldsOf \ {"constraints", "annotations"} /\ x # "backend"
      BY <2>2 DEF FieldsOf
    <3> QED BY <1>15, <1>21, <2>1, <2>2, <3>1
  <2>3. ASSUME NEW v, NEW how, Ok("constraints", w.constraints, v, how) PROVE Sure(three, key, "constraints", v, how)
    BY <1>15, <1>21, <2>1, <2>3
  <2>4. ASSUME NEW v, NEW how, Ok("annotations", w.annotations, v, how) PROVE Sure(three, key, "annotations", v, how)
    BY <1>15, <1>21, <2>1, <2>4
  <2>5. ASSUME NEW v, NEW how, Ok("backend", IF w.backend = None THEN "auto" ELSE w.backend, v, how)
        PROVE Sure(three, key, "backend", v, how)
    <3>1. CASE w.backend # None
      BY <1>13, <1>15, <2>1, <2>5, <3>1
    <3>2. CASE w.backend = None
      <4>1. Sure(two, key, "backend", v, how)
        BY <1>17, <1>21, <2>5, <3>2 DEF FieldsOf
      <4> QED BY <1>15, <2>1, <2>5, <4>1
    <3> QED BY <3>1, <3>2
  <2> QED BY <2>1, <2>2, <2>3, <2>4, <2>5
<1>23. made = three
  OBVIOUS
<1> HIDE DEF three, made
<1>24. /\ SoundCalls(body) /\ Unmoved(body) /\ ToSet(body) = ToSet(three) \cup ToSet(<<e>>)
       /\ \A x, v, how : Sure(three, key, x, v, how) => Sure(body, key, x, v, how)
  BY <1>16, <1>22, <1>23, SoundTogether
<1> HIDE DEF body
<1>25. /\ DOMAIN Asked(w) \subseteq FieldsOf
       /\ \A x \in DOMAIN Asked(w) :
             /\ x \in {"name", "config", "agent", "credential"} => Ok(x, a.val[x], Asked(w)[x], "exactly")
             /\ x = "constraints" => Ok("constraints", w.constraints, Asked(w)[x], "exactly")
             /\ x = "annotations" => Ok("annotations", w.annotations, Asked(w)[x], "exactly")
             /\ x = "backend" => Ok("backend", IF w.backend = None THEN "auto" ELSE w.backend, Asked(w)[x], "exactly")
  <2> DEFINE computed == {x \in {"agent", "credential"} : w[x] = None}
             p == [x \in DOMAIN w \ computed |-> w[x]]
  <2>1. Asked(w) = [p EXCEPT !.backend = IF @ = None THEN "auto" ELSE @]
    BY DEF Asked, PlannedModel, Without
  <2>2. DOMAIN p = FieldsOf \ computed
    BY <1>1 DEF FieldsOf
  <2>3. \A x \in DOMAIN p : p[x] = w[x]
    OBVIOUS
  <2>4. "agent" \notin computed => w.agent = 2
    BY <1>1
  <2>5. "credential" \notin computed => w.credential = credentialOf(w)
    BY DEF credentialOf
  <2> HIDE DEF p, computed
  <2>6. /\ DOMAIN Asked(w) = FieldsOf \ computed
        /\ \A x \in DOMAIN Asked(w) : Asked(w)[x] = IF x = "backend" /\ w[x] = None THEN "auto" ELSE w[x]
    BY <2>1, <2>2, <2>3
  <2> QED BY <1>17, <2>4, <2>5, <2>6 DEF Ok
<1>26. /\ HiddenFields = {"config", "annotations", "constraints", "backend"}
       /\ \A x \in HiddenFields :
             /\ x = "config" => Ok(x, a.val[x], w[In(x)], "allowed")
             /\ x = "constraints" => Ok("constraints", w.constraints, w[In(x)], "allowed")
             /\ x = "annotations" => Ok("annotations", w.annotations, w[In(x)], "allowed")
             /\ x = "backend" => Ok("backend", IF w.backend = None THEN "auto" ELSE w.backend, w[In(x)], "allowed")
  <2>1. HiddenFields = {"config", "annotations", "constraints", "backend"} /\ \A x \in HiddenFields : In(x) = x
    BY DEF HiddenFields, In
  <2>2. \A v, y, x : Ok(x, y, v, "allowed") = Allows(x, v, y)
    BY DEF Ok
  <2>3. ASSUME NEW v PROVE Allows("config", v, v) /\ Allows("constraints", v, v) /\ Allows("annotations", v, v)
    <3>1. Allows("config", v, v)
      BY DEF Allows
    <3>2. Allows("constraints", v, v)
      BY DEF Allows
    <3>3. Allows("annotations", v, v)
      BY DEF Allows
    <3> QED BY <3>1, <3>2, <3>3
  <2>4. ASSUME NEW v PROVE Allows("backend", v, IF v = None THEN "auto" ELSE v)
    <3>1. v = None => Allows("backend", v, "auto")
      BY DEF Allows
    <3>2. v # None => Allows("backend", v, v)
      BY DEF Allows
    <3> QED BY <3>1, <3>2
  <2> QED BY <1>17, <2>1, <2>2, <2>3, <2>4
<1>27. Create(w) = body \o <<returns(state)>>
  BY <1>9, <1>22, <1>23, SoundLastTwo DEF body
<1>28. /\ \A x \in DOMAIN Asked(w) : Sure(body, key, x, Asked(w)[x], "exactly")
       /\ \A x \in HiddenFields : Sure(body, key, x, w[In(x)], "allowed")
  <2>1. ASSUME NEW x \in DOMAIN Asked(w) PROVE Sure(three, key, x, Asked(w)[x], "exactly")
    <3>1. x \in {"name", "config", "agent", "credential"} \/ x = "constraints" \/ x = "annotations" \/ x = "backend"
      BY <1>25 DEF FieldsOf
    <3> QED BY <1>22, <1>25, <3>1
  <2>2. ASSUME NEW x \in HiddenFields PROVE Sure(three, key, x, w[In(x)], "allowed")
    <3>1. x = "config" \/ x = "constraints" \/ x = "annotations" \/ x = "backend"
      BY <1>26
    <3> QED BY <1>22, <1>26, <3>1
  <2> QED BY <1>24, <2>1, <2>2
<1>29. Gets(Create(w), there, w) /\ Keeps(Create(w), there, w)
  <2>1. a \in ToSet(body) /\ a.op \in Setting /\ a.key = key
    <3>1. a.key = key
      BY <1>3 DEF a, key
    <3> QED BY <1>10, <1>22, <1>24, <3>1
  <2> QED BY <1>2, <1>24, <1>27, <1>28, <2>1, HandlerGets DEF Lands
<1>30. SoundCalls(Create(w))
  BY <1>2, <1>24, <1>27, Handler
<1>31. SoftLast(Create(w))
  <2> DEFINE r == returns(state)
             t == <<e, r>>
             cs == made \o t
  <2>1. cs = Create(w)
    BY <1>9
  <2>2. r.op = "returns" /\ r.val = state /\ r.soft = <<>>
    BY Singles
  <2> HIDE DEF r
  <2>3. t \in Seq(ToSet(t)) /\ DOMAIN t = {1, 2} /\ t[1] = e /\ t[2] = r
    BY SetsOfTuples
  <2> HIDE DEF t
  <2>4. /\ Len(made) \in Nat /\ DOMAIN made = 1..Len(made)
        /\ \A i \in DOMAIN cs : \/ i \in DOMAIN made /\ cs[i] = made[i]
                                \/ i - Len(made) \in DOMAIN t /\ cs[i] = t[i - Len(made)] /\ i > Len(made)
    <3>1. made \in Seq(ToSet(made))
      BY <1>22, <1>23 DEF SoundCalls
    <3> QED BY <2>3, <3>1, SetsTogether
  <2> HIDE DEF cs
  <2>5. \A i \in DOMAIN cs : \/ i \in 1..Len(made) /\ cs[i] \in ToSet(made)
                             \/ i > Len(made) /\ cs[i] \in {e, r}
    BY <2>3, <2>4 DEF ToSet
  <2>6. Plain(e) /\ Plain(r)
    BY <1>2, <1>18, <2>2 DEF Plain, Good, Off, Setting, Making, Renaming
  <2>7. \A c \in ToSet(made) : c.soft # <<>> => Off(c.soft[1])
    <3>1. ASSUME NEW c \in ToSet(made), c.soft # <<>> PROVE w.backend # None /\ c = d
      BY <1>18, <1>19, <1>22, <1>23, <3>1
    <3>2. w.backend # None => Off(unset)
      BY <1>2 DEF Off
    <3> QED BY <1>18, <3>1, <3>2
  <2>8. ASSUME NEW i \in DOMAIN cs, cs[i].soft # <<>>
        PROVE  Off(cs[i].soft[1]) \/ \A j \in DOMAIN cs : j >= i => Plain(cs[j])
    <3>1. CASE i \in 1..Len(made) /\ cs[i] \in ToSet(made)
      BY <2>7, <2>8, <3>1
    <3>2. CASE i > Len(made)
      <4>1. \A j \in DOMAIN cs : j \in Int
        BY <2>4, <2>5 DEF cs, t
      <4> QED BY <2>4, <2>5, <2>6, <3>2, <4>1
    <3> QED BY <2>5, <3>1, <3>2
  <2> QED BY <2>1, <2>8 DEF SoftLast
<1> QED BY <1>29, <1>30, <1>31 DEF Creates

\* The calls of Create, of every kind, are whole; those that may fail without
\* failing it come last.  Made to the end they leave every field that the
\* configuration asks for as asked (Gets), and every field that Read does not see as
\* the configuration allows (Keeps).
THEOREM HandlersCreate ==
  ASSUME NoneIsNoValue, kind \in AllKinds, pc = "create", ThereInv, NEW w \in Configs, w = wanted
  PROVE  Creates(w)
<1>1. CASE kind \in {"user", "cloud", "storage_pool", "ssh_key", "space", "secret_backend"}
  BY <1>1, UserCreates, CloudCreates, StoragePoolCreates, SSHKeyCreates, SpaceCreates, SecretBackendCreates
<1>2. CASE kind \in {"offer", "jaas_controller", "group", "role", "secret", "controller", "application"}
  BY <1>2, OfferCreates, JAASControllerCreates, GroupCreates, SecretCreates, ControllerCreates, ApplicationCreates
     DEF NamedKinds
<1>3. CASE kind \in {"kubernetes_cloud", "subnet", "credential", "machine", "model"}
  BY <1>3, KubernetesCloudCreates, SubnetCreates, CredentialCreates, MachineCreates, ModelCreates
<1> QED BY <1>1, <1>2, <1>3 DEF AllKinds

-----------------------------------------------------------------------------
(* What Update of every kind makes.                                        *)

\* What is known of the objects of a state: what Read has found, what is as the
\* configuration has it, and which endpoints an application has.
Seeing(s) ==
  \A k \in KeysOf(s) : (kind # "credential" => there[k] # None) /\ (there[k] # None => Visible(s, there[k]))
Holding(s, w) == \A k \in KeysOf(s) : there[k] # None => Holds(s, w, there[k])
NewKnown(s) ==
  kind = "application" /\ "unseen" \notin touched =>
    \A k \in KeysOf(s) : there[k] # None => AppWhole(there[k]) /\ (s.revision # 2 => there[k].new = None)

Informed(s, w) == Seeing(s) /\ (kind \in Hiding => Holding(s, w))
Updates(s, w) ==
  LET cs == Update(s, Plan(s, w)) IN
  /\ SoundCalls(cs) /\ SoftLast(cs)
  /\ AtWork(cs) /\ Informed(s, w) /\ "unseen" \notin touched => Gets(cs, there, w)
  /\ Sighted /\ Holding(s, w) =>
       /\ AtWork(cs) => Keeps(cs, there, w)
       /\ \A c \in ToSet(cs) : Heeds(c, s, w)
  /\ kind = "application" /\ "unseen" \notin touched =>
       \A k \in KeysOf(s) : there[k] # None => HasNew(cs, there[k])
  /\ kind = "application" => \A c \in ToSet(cs) : c.op \notin Making
  /\ kind \in {"user", "secret_backend"} =>
       \A c \in ToSet(cs) : c.op = "returns" => \A x \in HiddenFields : c.val[In(x)] = w[In(x)]

\* What one call that sets fields does not give is there already.
Meets(c, at, w) ==
  \A x \in DOMAIN Asked(w) : IF x \in DOMAIN c.val THEN c.val[x] = Asked(w)[x] ELSE Is(at, c.key, x, Asked(w)[x], "exactly")
MeetsHidden(c, at, w) ==
  \A x \in HiddenFields : IF x \in DOMAIN c.val THEN Allows(x, w[In(x)], c.val[x]) ELSE Is(at, c.key, x, w[In(x)], "allowed")
LEMMA SettingGets ==
  ASSUME NEW body, SoundCalls(body), Unmoved(body), NEW c \in ToSet(body), c.op \in Setting,
         \A k, x, v, how : Gives(c, k, x, v, how) => Sure(body, k, x, v, how),
         \A k, x, v, how : Spares(c, k, x, v, how) => Still(body, k, x, v, how),
         NEW state, Proper(state), KeysOf(state) = {c.key}, NEW at, NEW w
  PROVE  LET cs == body \o <<returns(state)>> IN
         /\ SoundCalls(cs) /\ ToSet(cs) = ToSet(body) \cup {returns(state)}
         /\ kind # "model" => SoftLast(cs)
         /\ Meets(c, at, w) => Gets(cs, at, w)
         /\ MeetsHidden(c, at, w) => Keeps(cs, at, w)
<1>1. \A x, v, how : x \in DOMAIN c.val /\ Ok(x, c.val[x], v, how) => Sure(body, c.key, x, v, how)
  BY SettingCalls
<1>2. \A x, v, how : x \notin DOMAIN c.val => Still(body, c.key, x, v, how)
  BY SettingCalls
<1>3. Meets(c, at, w) =>
        \A k \in KeysOf(state) : \A x \in DOMAIN Asked(w) : Lands(body, at, k, x, Asked(w)[x], "exactly")
  BY <1>1, <1>2 DEF Lands, Ok, Meets
<1>4. MeetsHidden(c, at, w) =>
        \A k \in KeysOf(state) : \A x \in HiddenFields : Lands(body, at, k, x, w[In(x)], "allowed")
  BY <1>1, <1>2 DEF Lands, Ok, MeetsHidden
<1> QED BY <1>3, <1>4, Handler, HandlerGets

LEMMA SetsOne ==
  ASSUME NEW c, c.op \in Setting, SoundCall(c),
         NEW state, Proper(state), KeysOf(state) = {c.key}, NEW at, NEW w
  PROVE  LET cs == <<c, returns(state)>> IN
         /\ SoundCalls(cs) /\ ToSet(cs) = {c, returns(state)}
         /\ kind # "model" => SoftLast(cs)
         /\ Meets(c, at, w) => Gets(cs, at, w)
         /\ MeetsHidden(c, at, w) => Keeps(cs, at, w)
<1> DEFINE body == <<c>>
<1>1. SoundCalls(body) /\ ToSet(body) = {c}
  BY SoundTuples, SetsOfTuples
<1>2. /\ Unmoved(body)
      /\ \A k, x, v, how : Gives(c, k, x, v, how) => Sure(body, k, x, v, how)
      /\ \A k, x, v, how : Spares(c, k, x, v, how) => Still(body, k, x, v, how)
  BY SureTuples DEF Setting, Making
<1>3. body \o <<returns(state)>> = <<c, returns(state)>>
  BY Tuples
<1> HIDE DEF body
<1>4. LET cs == body \o <<returns(state)>> IN
     /\ SoundCalls(cs) /\ ToSet(cs) = ToSet(body) \cup {returns(state)}
     /\ kind # "model" => SoftLast(cs)
     /\ Meets(c, at, w) => Gets(cs, at, w)
     /\ MeetsHidden(c, at, w) => Keeps(cs, at, w)
  <2>1. c \in ToSet(body)
    BY <1>1
  <2> QED BY <1>1, <1>2, <2>1, SettingGets
<1> QED BY <1>1, <1>3, <1>4

LEMMA SetsOneAndSees ==
  ASSUME NEW c, c.op \in Setting, SoundCall(c), NEW d, d.op = "see", d.soft = <<>>,
         NEW state, Proper(state), KeysOf(state) = {c.key}, NEW at, NEW w
  PROVE  LET cs == <<c, d, returns(state)>> IN
         /\ SoundCalls(cs) /\ ToSet(cs) = {c, d, returns(state)}
         /\ kind # "model" => SoftLast(cs)
         /\ Meets(c, at, w) => Gets(cs, at, w)
         /\ MeetsHidden(c, at, w) => Keeps(cs, at, w)
<1> DEFINE body == <<c, d>>
<1>1. SoundCall(d) /\ \A k, x, v, how : Spares(d, k, x, v, how)
  BY IdleCalls DEF Idle
<1>2. SoundCalls(body) /\ ToSet(body) = {c, d}
  BY <1>1, SoundTuples, SetsOfTuples
<1>3. /\ Unmoved(body)
      /\ \A k, x, v, how : Gives(c, k, x, v, how) => Sure(body, k, x, v, how)
      /\ \A k, x, v, how : Spares(c, k, x, v, how) => Still(body, k, x, v, how)
  BY <1>1, SureTuples DEF Setting, Making
<1>4. body \o <<returns(state)>> = <<c, d, returns(state)>>
  BY Tuples
<1> HIDE DEF body
<1>5. LET cs == body \o <<returns(state)>> IN
     /\ SoundCalls(cs) /\ ToSet(cs) = ToSet(body) \cup {returns(state)}
     /\ kind # "model" => SoftLast(cs)
     /\ Meets(c, at, w) => Gets(cs, at, w)
     /\ MeetsHidden(c, at, w) => Keeps(cs, at, w)
  <2>1. c \in ToSet(body)
    BY <1>2
  <2> QED BY <1>2, <1>3, <2>1, SettingGets
<1> QED BY <1>2, <1>4, <1>5

\* It only returns.
LEMMA ReturnsOnly ==
  ASSUME NEW state, Proper(state), NEW at, NEW w
  PROVE  LET cs == <<returns(state)>> IN
         /\ SoundCalls(cs) /\ ToSet(cs) = {returns(state)} /\ SoftLast(cs) /\ Ends(cs) = KeysOf(state)
         /\ (\A k \in KeysOf(state) : at[k] # None /\ \A x \in DOMAIN Asked(w) : at[k][x] = Asked(w)[x])
              => Gets(cs, at, w)
         /\ (\A k \in KeysOf(state) : at[k] # None => \A x \in HiddenFields : Allows(x, w[In(x)], at[k][x]))
              => Keeps(cs, at, w)
<1> DEFINE cs == <<returns(state)>>
<1>1. SoundCall(returns(state))
  BY Singles, IdleCalls DEF Idle
<1>2. /\ \A k, x, v, how : Still(cs, k, x, v, how)
      /\ Unmoved(cs) /\ DOMAIN cs = {1} /\ cs[1].soft = <<>>
      /\ ToSet(cs) = {returns(state)} /\ Ends(cs) = KeysOf(state)
  BY ReturnsSpare
<1>3. SoundCalls(cs)
  BY <1>1, SoundTuples
<1> HIDE DEF cs
<1>4. SoftLast(cs)
  BY <1>2 DEF SoftLast
<1>5. (\A k \in KeysOf(state) : at[k] # None /\ \A x \in DOMAIN Asked(w) : at[k][x] = Asked(w)[x])
              => Gets(cs, at, w)
  BY <1>2 DEF Gets, There, Comes, Is, Ok
<1>6. (\A k \in KeysOf(state) : at[k] # None => \A x \in HiddenFields : Allows(x, w[In(x)], at[k][x]))
              => Keeps(cs, at, w)
  BY <1>2 DEF Keeps, Comes, Is, Ok
<1> QED BY <1>2, <1>3, <1>4, <1>5, <1>6 DEF cs

LEMMA FailsOnly ==
  LET cs == <<fails>> IN
  SoundCalls(cs) /\ ToSet(cs) = {fails} /\ SoftLast(cs) /\ ~AtWork(cs)
<1> DEFINE cs == <<fails>>
<1>1. SoundCall(fails) /\ fails.op = "fails" /\ fails.soft = <<>>
  BY Singles, IdleCalls DEF Idle
<1>2. ToSet(cs) = {fails} /\ DOMAIN cs = {1} /\ cs[1] = fails
  BY SetsOfTuples
<1>3. SoundCalls(cs)
  BY <1>1, SoundTuples
<1> HIDE DEF cs
<1>4. SoftLast(cs)
  BY <1>1, <1>2 DEF SoftLast
<1> QED BY <1>1, <1>2, <1>3, <1>4 DEF AtWork, Good, cs

\* The state after an Update of an object that stays under its name.
LEMMA StaysNamed ==
  ASSUME kind \in ByName, NEW w \in Configs, NEW s, IsState(s), s.name = w.name
  PROVE  LET state == StateOf(s.id, w) IN
         /\ s.id = w.name /\ KeysOf(s) = {w.name} /\ Proper(state) /\ KeysOf(state) = {w.name}
         /\ \A x \in DOMAIN w : state[x] = w[x]
<1>1. s.id = w.name
  BY DEF IsState
<1>2. KeysOf(s) = {w.name}
  BY NamedKeys
<1> QED BY <1>1, <1>2, ProperNamed

LEMMA UserUpdates ==
  ASSUME kind = "user", ThereInv, NEW w \in Configs, NEW s, IsState(s), Proper(s), ~Replaced(s, w)
  PROVE  Updates(s, w)
<1> DEFINE c == UpdateUser(w.name, w.password)
           state == StateOf(s.id, w)
<1>1. w \in UserConfigs /\ kind \in ByName /\ Plan(s, w) = w /\ s.name = w.name
  BY DEF Configs, ByName, AllKinds, Plan, Replaced, UserReplaced
<1>2. /\ s.id = w.name /\ KeysOf(s) = {w.name} /\ Proper(state) /\ KeysOf(state) = {w.name}
      /\ state.password = w.password
  BY <1>1, StaysNamed DEF UserConfigs
<1>3. HiddenFields = {"password"} /\ In("password") = "password" /\ \A v, y : Allows("password", v, y) <=> y = v
  BY DEF HiddenFields, In, Allows
<1>4. DOMAIN Asked(w) = {"name", "password"} /\ Asked(w).name = w.name /\ Asked(w).password = w.password
  BY DEF Asked, Only
<1>5. there[w.name] # None => there[w.name].name = w.name
  BY <1>1, ConfigNames DEF ThereInv
<1>6. CASE w.password = s.password
  <2>1. Update(s, Plan(s, w)) = <<returns(s)>>
    BY <1>1, <1>6 DEF Update, UserUpdate
  <2>2. /\ SoundCalls(Update(s, w)) /\ ToSet(Update(s, w)) = {returns(s)} /\ SoftLast(Update(s, w))
        /\ Informed(s, w) => Gets(Update(s, w), there, w)
        /\ Holding(s, w) => Keeps(Update(s, w), there, w)
    <3>1. Holding(s, w) /\ there[w.name] # None => there[w.name].password = w.password
      BY <1>2, <1>3, <1>6 DEF Holding, Holds
    <3>2. Seeing(s) => there[w.name] # None
      BY <1>2 DEF Seeing
    <3> QED BY <1>1, <1>2, <1>3, <1>4, <1>5, <2>1, <3>1, <3>2, ReturnsOnly DEF Informed, Hiding
  <2> QED BY <1>1, <1>3, <1>6, <2>2, Singles DEF Updates, Heeds, Setting, Making
<1>7. CASE w.password # s.password
  <2>1. Update(s, Plan(s, w)) = <<c, returns(state)>>
    BY <1>1, <1>2, <1>7 DEF Update, UserUpdate
  <2>2. c.op = "set" /\ c.key = w.name /\ c.val = [password |-> w.password] /\ c.soft = <<>>
    BY Singles DEF UpdateUser
  <2>3. SoundCall(c)
    BY <2>2, SoundSetting DEF OneName
  <2>4. Meets(c, there, w) /\ MeetsHidden(c, there, w)
    BY <1>3, <1>4, <1>5, <2>2 DEF Meets, MeetsHidden, Is, Ok
  <2>5. c.op \in Setting /\ KeysOf(state) = {c.key} /\ kind # "model"
    BY <1>2, <2>2 DEF Setting
  <2>6. Heeds(c, s, w)
    BY <1>3, <2>2 DEF Heeds
  <2> HIDE DEF c, state
  <2>7. /\ SoundCalls(Update(s, w)) /\ ToSet(Update(s, w)) = {c, returns(state)} /\ SoftLast(Update(s, w))
        /\ Gets(Update(s, w), there, w) /\ Keeps(Update(s, w), there, w)
    BY <1>1, <1>2, <2>1, <2>3, <2>4, <2>5, SetsOne
  <2>8. c.op # "returns"
    BY <2>2
  <2> QED BY <1>1, <1>2, <1>3, <2>6, <2>7, <2>8, Singles DEF Updates, Heeds, Setting, Making
<1> QED BY <1>6, <1>7

\* The kinds that Read sees all of: what Update has to get.
LEMMA SeenUpdates ==
  ASSUME kind \notin Hiding, NEW s, NEW w,
         LET cs == Update(s, Plan(s, w)) IN
         SoundCalls(cs) /\ SoftLast(cs) /\ (AtWork(cs) /\ Seeing(s) => Gets(cs, there, w))
  PROVE  Updates(s, w)
BY DEF Updates, Informed, Hiding, Sighted

LEMMA CloudUpdates ==
  ASSUME kind = "cloud", ThereInv, NEW w \in Configs, NEW s, IsState(s), Proper(s), ~Replaced(s, w)
  PROVE  Updates(s, w)
<1> DEFINE c == UpdateCloud(w)
           state == StateOf(s.id, w)
<1>1. w \in CloudConfigs /\ kind \in ByName /\ Plan(s, w) = w /\ s.name = w.name
      /\ (w.storage = None => s.storage = None)
  BY DEF Configs, ByName, AllKinds, Plan, Replaced, CloudReplaced, replaceIfUnset
<1>2. KeysOf(s) = {w.name} /\ Proper(state) /\ KeysOf(state) = {w.name}
  BY <1>1, StaysNamed
<1>3. Asked(w) = w /\ DOMAIN w = {"name", "storage", "regions", "cacerts"}
  BY <1>1 DEF Asked, CloudConfigs
<1>4. Update(s, Plan(s, w)) = <<c, returns(state)>>
  BY <1>1 DEF Update, CloudUpdate
<1>5. /\ c.op = "set" /\ c.key = w.name /\ c.soft = <<>>
      /\ DOMAIN c.val = IF w.storage = None THEN {"name", "regions", "cacerts"} ELSE DOMAIN w
      /\ \A x \in DOMAIN c.val : c.val[x] = w[x]
  <2>1. /\ c.op = "set" /\ c.key = w.name /\ c.soft = <<>>
        /\ c.val = IF w.storage = None THEN Without(w, {"storage"}) ELSE w
    BY Singles DEF UpdateCloud
  <2>2. /\ DOMAIN Without(w, {"storage"}) = {"name", "regions", "cacerts"}
        /\ \A x \in DOMAIN Without(w, {"storage"}) : Without(w, {"storage"})[x] = w[x]
    BY <1>3 DEF Without
  <2> HIDE DEF c
  <2> QED BY <2>1, <2>2
<1>6. SoundCall(c)
  BY <1>5, SoundSetting DEF OneName
<1>7. Seeing(s) => Meets(c, there, w)
  BY <1>1, <1>2, <1>3, <1>5 DEF Meets, Is, Ok, Seeing, Visible
<1>8. c.op \in Setting /\ KeysOf(state) = {c.key} /\ kind # "model"
  BY <1>2, <1>5 DEF Setting
<1> HIDE DEF c, state
<1>9. SoundCalls(Update(s, w)) /\ SoftLast(Update(s, w)) /\ (Seeing(s) => Gets(Update(s, w), there, w))
  BY <1>1, <1>2, <1>4, <1>6, <1>7, <1>8, SetsOne
<1> QED BY <1>1, <1>9, SeenUpdates DEF Hiding

LEMMA KubernetesCloudUpdates ==
  ASSUME kind = "kubernetes_cloud", ThereInv, NEW w \in Configs, NEW s, IsState(s), Proper(s), ~Replaced(s, w)
  PROVE  Updates(s, w)
<1> DEFINE c == UpdateKubernetesCloud(w)
           state == StateOf(s.id, w)
<1>1. kind \in ByName /\ Plan(s, w) = w /\ s.name = w.name
  BY DEF ByName, AllKinds, Plan, Replaced, KubernetesCloudReplaced
<1>2. KeysOf(s) = {w.name} /\ Proper(state) /\ KeysOf(state) = {w.name}
  BY <1>1, StaysNamed
<1>3. DOMAIN Asked(w) = {"name", "config"} /\ Asked(w).name = w.name /\ Asked(w).config = w.config
  BY DEF Asked, Only
<1>4. there[w.name] # None => there[w.name].name = w.name
  BY <1>1, ConfigNames DEF ThereInv
<1>5. /\ setting.jaas => Update(s, Plan(s, w)) = <<fails>>
      /\ ~setting.jaas => Update(s, Plan(s, w)) = <<c, returns(state)>>
  BY <1>1 DEF Update, KubernetesCloudUpdate
<1>6. c.op = "set" /\ c.key = w.name /\ c.soft = <<>> /\ c.val = [config |-> w.config]
  BY Singles DEF UpdateKubernetesCloud
<1>7. SoundCall(c)
  BY <1>6, SoundSetting DEF OneName
<1>8. Meets(c, there, w)
  BY <1>3, <1>4, <1>6 DEF Meets, Is, Ok
<1>9. c.op \in Setting /\ KeysOf(state) = {c.key} /\ kind # "model"
  BY <1>2, <1>6 DEF Setting
<1> HIDE DEF c, state
<1>10. CASE setting.jaas
  BY <1>5, <1>10, FailsOnly, SeenUpdates DEF Hiding
<1>11. CASE ~setting.jaas
  <2>1. SoundCalls(Update(s, w)) /\ SoftLast(Update(s, w)) /\ Gets(Update(s, w), there, w)
    BY <1>1, <1>2, <1>5, <1>7, <1>8, <1>9, <1>11, SetsOne
  <2> QED BY <1>1, <2>1, SeenUpdates DEF Hiding
<1> QED BY <1>10, <1>11

LEMMA OfferUpdates ==
  ASSUME kind = "offer", ThereInv, NEW w \in Configs, NEW s, IsState(s), Proper(s), ~Replaced(s, w)
  PROVE  Updates(s, w)
<1> DEFINE state == StateOf(s.id, w)
<1>1. kind \in ByName /\ Plan(s, w) = w /\ s.name = w.name /\ s.endpoints = w.endpoints
  BY DEF ByName, AllKinds, Plan, Replaced, OfferReplaced
<1>2. KeysOf(s) = {w.name} /\ Proper(state) /\ KeysOf(state) = {w.name}
  BY <1>1, StaysNamed
<1>3. DOMAIN Asked(w) = {"name", "endpoints"} /\ Asked(w).name = w.name /\ Asked(w).endpoints = w.endpoints
  BY DEF Asked, Only
<1>4. there[w.name] # None => there[w.name].name = w.name
  BY <1>1, ConfigNames DEF ThereInv
<1>5. Update(s, Plan(s, w)) = <<returns(state)>>
  BY <1>1 DEF Update, OfferUpdate
<1>6. Seeing(s) => there[w.name] # None /\ there[w.name].endpoints = w.endpoints
  BY <1>1, <1>2 DEF Seeing, Visible
<1> HIDE DEF state
<1>7. SoundCalls(Update(s, w)) /\ SoftLast(Update(s, w)) /\ (Seeing(s) => Gets(Update(s, w), there, w))
  BY <1>1, <1>2, <1>3, <1>4, <1>5, <1>6, ReturnsOnly
<1> QED BY <1>1, <1>7, SeenUpdates DEF Hiding

LEMMA StoragePoolUpdates ==
  ASSUME kind = "storage_pool", ThereInv, NEW w \in Configs, NEW s, IsState(s), Proper(s), ~Replaced(s, w)
  PROVE  Updates(s, w)
<1> DEFINE c == UpdatePool(s.name, w.attrs)
           d == see(s.name, [attrs |-> w.attrs])
           state == StateOf(s.id, w)
<1>1. w \in StoragePoolConfigs /\ kind \in ByName /\ Plan(s, w) = w /\ s.name = w.name /\ s.provider = w.provider
  BY DEF Configs, ByName, AllKinds, Plan, Replaced, StoragePoolReplaced
<1>2. KeysOf(s) = {w.name} /\ Proper(state) /\ KeysOf(state) = {w.name}
  BY <1>1, StaysNamed
<1>3. Asked(w) = w /\ DOMAIN w = {"name", "provider", "attrs"}
  BY <1>1 DEF Asked, StoragePoolConfigs
<1>4. there[w.name] # None => there[w.name].name = w.name
  BY <1>1, ConfigNames DEF ThereInv
<1>5. Update(s, Plan(s, w)) = <<c, d, returns(state)>>
  BY <1>1 DEF Update, StoragePoolUpdate
<1>6. c.op = "set" /\ c.key = w.name /\ c.soft = <<>> /\ c.val = [attrs |-> w.attrs] /\ d.op = "see" /\ d.soft = <<>>
  BY <1>1, Singles DEF UpdatePool
<1>7. SoundCall(c)
  BY <1>6, SoundSetting DEF OneName
<1>8. Seeing(s) => Meets(c, there, w)
  <2>1. Seeing(s) => there[w.name] # None /\ there[w.name].provider = w.provider
    BY <1>1, <1>2 DEF Seeing, Visible
  <2> QED BY <1>3, <1>4, <1>6, <2>1 DEF Meets, Is, Ok
<1>9. c.op \in Setting /\ KeysOf(state) = {c.key} /\ kind # "model"
  BY <1>2, <1>6 DEF Setting
<1> HIDE DEF c, d, state
<1>10. SoundCalls(Update(s, w)) /\ SoftLast(Update(s, w)) /\ (Seeing(s) => Gets(Update(s, w), there, w))
  <2>1. d.op = "see" /\ d.soft = <<>>
    BY <1>6
  <2>2. LET cs == <<c, d, returns(state)>> IN SoundCalls(cs) /\ SoftLast(cs) /\ (Meets(c, there, w) => Gets(cs, there, w))
    BY <1>2, <1>7, <1>9, <2>1, SetsOneAndSees
  <2>3. Plan(s, w) = w
    BY <1>1
  <2> QED BY <1>5, <1>8, <2>2, <2>3
<1> QED BY <1>1, <1>10, SeenUpdates DEF Hiding

LEMMA SSHKeyUpdates ==
  ASSUME kind = "ssh_key", ThereInv, NEW w \in Configs, NEW s, IsState(s), Proper(s), ~Replaced(s, Plan(s, w))
  PROVE  Updates(s, w)
<1>1. w \in SSHKeyConfigs /\ kind \in ByName
  BY DEF Configs, ByName, AllKinds
<1>2. s.name = w.name
  BY <1>1 DEF Replaced, SSHKeyReplaced, Plan, SSHKeyCommentInsensitive, SSHKeyConfigs
<1>3. KeysOf(s) = {w.name}
  BY <1>1, <1>2, StaysNamed
<1>4. DOMAIN Asked(w) = {"name"} /\ Asked(w).name = w.name
  BY DEF Asked, Only
<1>5. there[w.name] # None => there[w.name].name = w.name
  BY <1>1, ConfigNames DEF ThereInv
<1>6. Update(s, Plan(s, w)) = <<returns(s)>>
  BY DEF Update, SSHKeyUpdate
<1>7. Seeing(s) => there[w.name] # None
  BY <1>3 DEF Seeing
<1>8. LET cs == Update(s, Plan(s, w)) IN SoundCalls(cs) /\ SoftLast(cs) /\ (Seeing(s) => Gets(cs, there, w))
  BY <1>3, <1>4, <1>5, <1>6, <1>7, ReturnsOnly
<1> QED BY <1>8, SeenUpdates DEF Hiding

LEMMA RefusedUpdates ==
  ASSUME kind \in {"jaas_controller", "space"}, NEW w, NEW s
  PROVE  Updates(s, w)
<1>1. Update(s, Plan(s, w)) = <<fails>>
  BY DEF Update, JAASControllerUpdate, SpaceUpdate
<1> QED BY <1>1, FailsOnly, SeenUpdates DEF Hiding

LEMMA SubnetUpdates ==
  ASSUME kind = "subnet", ThereInv, NEW w \in Configs, NEW s
  PROVE  Updates(s, w)
<1> DEFINE body == MovedTo(w.name, w.space)
           state == StateOf(w.name, w)
<1>1. Proper(state) /\ KeysOf(state) = {w.name}
  BY ProperNamed DEF ByName, AllKinds
<1>2. Update(s, Plan(s, w)) = body \o <<returns(state)>>
  BY DEF Update, SubnetUpdate, Plan
<1>3. /\ SoundCalls(body) /\ Unmoved(body) /\ \E c \in ToSet(body) : c.op \in Setting /\ c.key = w.name
      /\ Asked(w) = w /\ DOMAIN w = {"name", "space"}
      /\ Sure(body, w.name, "space", w.space, "exactly")
      /\ Still(body, w.name, "name", w.name, "exactly") /\ Is(there, w.name, "name", w.name, "exactly")
  BY MovingSubnets
<1> HIDE DEF body, state
<1>4. LET cs == Update(s, Plan(s, w)) IN Gets(cs, there, w)
  BY <1>1, <1>2, <1>3, HandlerGets DEF Lands
<1>5. LET cs == Update(s, Plan(s, w)) IN SoundCalls(cs) /\ SoftLast(cs)
  BY <1>1, <1>2, <1>3, Handler
<1> QED BY <1>4, <1>5, SeenUpdates DEF Hiding

LEMMA CredentialUpdates ==
  ASSUME kind = "credential", NEW w \in Configs, NEW s
  PROVE  Updates(s, w)
<1>1. Update(s, Plan(s, w)) = CreateCredential(w) \o <<returns(StateOf(newCredentialID(w), w))>>
  BY CredentialCalls DEF Update, CredentialUpdate, Plan
<1> QED BY <1>1, CredentialComes, SeenUpdates DEF Hiding

LEMMA MachineUpdates ==
  ASSUME kind = "machine", NEW w \in Configs, NEW s, Shaped(s), Proper(s), ~Replaced(s, w)
  PROVE  Updates(s, w)
<1> DEFINE key == modelMachineIDAndName(s.id).machine
           c == SetAnnotations(key, w.annotations)
           notes == updateAnnotations(key, s.annotations, w.annotations)
           state == [s EXCEPT !.name = w.name, !.annotations = w.annotations, !.id = newMachineID(key, w.name)]
<1>1. Plan(s, w) = w /\ w \in MachineConfigs /\ s.constraints = w.constraints
  BY DEF Plan, Configs, Replaced, MachineReplaced
<1>2. KeysOf(s) = {key} /\ key \in Keys /\ StateFields = DOMAIN s /\ "id" \in DOMAIN s
  <2>1. KeysOf(s) = {key}
    BY DEF KeysOf
  <2>2. StateFields = DOMAIN s /\ KeysOf(s) \subseteq Keys
    BY DEF Proper
  <2>3. "id" \in StateFields
    BY DEF StateFields
  <2> QED BY <2>1, <2>2, <2>3
<1>3. state.id = <<key, w.name>> /\ DOMAIN state = StateFields /\ state = [x \in DOMAIN state |-> state[x]]
  BY <1>2 DEF newMachineID
<1>4. Proper(state) /\ KeysOf(state) = {key}
  <2> HIDE DEF key, state
  <2>1. KeysOf(state) = {key}
    BY <1>3 DEF KeysOf, modelMachineIDAndName
  <2> QED BY <1>2, <1>3, <2>1 DEF Proper
<1>5. c.op = "set" /\ c.key = key /\ c.soft = <<>> /\ c.val = [annotations |-> w.annotations]
  BY Singles DEF SetAnnotations
<1>6. SoundCall(c)
  BY <1>5, SoundSetting DEF OneName
<1>7. notes = IF s.annotations = w.annotations THEN <<>> ELSE <<c>>
  BY DEF updateAnnotations
<1>8. Update(s, Plan(s, w)) = notes \o <<returns(state)>>
  BY <1>1 DEF Update, MachineUpdate
<1>9. DOMAIN Asked(w) = {"constraints", "annotations"} /\ \A x \in DOMAIN Asked(w) : Asked(w)[x] = w[x]
  BY DEF Asked, Only
<1>10. DOMAIN c.val = {"annotations"} /\ c.val["annotations"] = w.annotations /\ Ok("annotations", c.val["annotations"], w.annotations, "exactly")
  BY <1>5 DEF Ok
<1> HIDE DEF c, notes, state, key
<1>11. /\ SoundCalls(notes) /\ Unmoved(notes)
       /\ Still(notes, key, "constraints", w.constraints, "exactly")
       /\ Still(notes, key, "annotations", w.annotations, "exactly")
       /\ notes # <<>> => Sure(notes, key, "annotations", w.annotations, "exactly")
  <2>1. notes = <<>> \/ (notes = <<c>> /\ SoundCall(c))
    BY <1>6, <1>7
  <2>2. /\ SoundCalls(notes) /\ Unmoved(notes)
        /\ \A k, x, v, how : c.key # k \/ x \notin DOMAIN c.val => Still(notes, k, x, v, how)
        /\ \A x, v, how : x \in DOMAIN c.val /\ Ok(x, c.val[x], v, how) =>
             Still(notes, c.key, x, v, how) /\ (notes # <<>> => Sure(notes, c.key, x, v, how))
    BY <1>5, <2>1, MaybeSets
  <2> QED BY <1>5, <1>10, <2>2
<1>12. Seeing(s) => /\ there[key] # None
                    /\ Is(there, key, "constraints", w.constraints, "exactly")
                    /\ s.annotations = w.annotations => Is(there, key, "annotations", w.annotations, "exactly")
  BY <1>1, <1>2 DEF Seeing, Visible, Is, Ok
<1>13. notes = <<>> => s.annotations = w.annotations
  BY <1>7
<1>14. LET cs == Update(s, Plan(s, w)) IN Seeing(s) => Gets(cs, there, w)
  <2> SUFFICES ASSUME Seeing(s) PROVE Gets(notes \o <<returns(state)>>, there, w)
    BY <1>8
  <2>1. Lands(notes, there, key, "constraints", w.constraints, "exactly")
    BY <1>11, <1>12 DEF Lands
  <2>2. Lands(notes, there, key, "annotations", w.annotations, "exactly")
    BY <1>11, <1>12, <1>13 DEF Lands
  <2>3. \A k \in KeysOf(state) : \A x \in DOMAIN Asked(w) : Lands(notes, there, k, x, Asked(w)[x], "exactly")
    BY <1>4, <1>9, <2>1, <2>2
  <2> QED BY <1>4, <1>11, <1>12, <2>3, HandlerGets
<1>15. LET cs == Update(s, Plan(s, w)) IN SoundCalls(cs) /\ SoftLast(cs)
  BY <1>4, <1>8, <1>11, Handler
<1> QED BY <1>14, <1>15, SeenUpdates DEF Hiding

LEMMA GroupUpdates ==
  ASSUME kind \in NamedKinds, NEW w \in Configs, NEW s, IsNamed(s), Proper(s), NamesAt(there)
  PROVE  Updates(s, w)
<1> DEFINE c == renameNamed(s.name, w.name)
           state == [s EXCEPT !.name = w.name]
           r == returns(state)
           cs == <<c, r>>
<1>1. Plan(s, w) = w /\ Asked(w) = w /\ DOMAIN w = {"name"} /\ kind \notin Hiding
      /\ kind \notin {"user", "secret_backend", "application", "model"} \cup OneName
  BY DEF Plan, Asked, Configs, GroupConfigs, NamedKinds, Hiding, OneName
<1>2. KeysOf(s) = {s.id} /\ s.id \in Keys
  BY DEF KeysOf, NamedKinds, Proper
<1>3. StateFields = {"id", "name"} /\ s = [x \in StateFields |-> s[x]]
  BY DEF StateFields, NamedKinds, Proper
<1>4. state.id = s.id /\ state = [x \in StateFields |-> state[x]]
  BY <1>3
<1>5. Proper(state) /\ KeysOf(state) = {s.id}
  <2> HIDE DEF state
  <2>1. KeysOf(state) = {s.id}
    BY <1>4 DEF KeysOf, NamedKinds
  <2> QED BY <1>2, <1>4, <2>1 DEF Proper
<1>6. Update(s, Plan(s, w)) = cs
  BY <1>1 DEF Update, GroupUpdate, RoleUpdate, RenameGroup, RenameRole, NamedKinds
<1>7. c.op = "rename_named" /\ c.key = s.name /\ c.val = w.name /\ c.soft = <<>>
  BY Singles
<1>8. SoundCall(c) /\ c.op # "move"
  BY <1>1, <1>7 DEF SoundCall, KeepsWhole, ProperCall, Making, Removing
<1>9. SoundCall(r) /\ r.op = "returns" /\ r.op # "move"
  BY <1>5, Singles, IdleCalls DEF Idle
<1>10. \A k, x, v, how : Still(<<r>>, k, x, v, how)
  BY ReturnsSpare
<1>11. Ends(cs) = {s.id}
  <2>1. Len(cs) = 2 /\ cs[2] = r
    OBVIOUS
  <2>2. r.val = state
    BY Singles
  <2> HIDE DEF cs, r, state
  <2> QED BY <1>5, <1>9, <2>1, <2>2 DEF Ends
<1> HIDE DEF c, r, state
<1>12. SoundCalls(cs) /\ Unmoved(cs) /\ cs[1] = c /\ Tail(cs) = <<r>>
  <2>1. Tail(cs) = <<r>> /\ cs[1] = c
    OBVIOUS
  <2> QED BY <1>8, <1>9, <2>1, SoundTuples, SureTuples
<1> HIDE DEF cs
<1>13. SoftLast(cs)
  BY <1>1, <1>12, NotSoft
<1>14. ASSUME Seeing(s) PROVE Gets(cs, there, w)
  <2>1. there[s.id] # None /\ there[s.id].name = s.name
    BY <1>2, <1>14 DEF Seeing, Visible, NamedKinds
  <2>2. HoldersOf(s.name, there) = {s.id}
    BY <1>2, <2>1 DEF HoldersOf, NamesAt
  <2>3. Target(c, there) = s.id
    BY <1>7, <2>2 DEF Target
  <2>4. Comes(cs, there, s.id, "name", w.name, "exactly")
    BY <1>7, <1>10, <1>12, <2>3 DEF Comes
  <2>5. There(cs, there, s.id)
    BY <1>12, <2>1 DEF There
  <2> QED BY <1>1, <1>11, <2>4, <2>5 DEF Gets
<1> QED BY <1>1, <1>6, <1>12, <1>13, <1>14, SeenUpdates

LEMMA SecretBackendUpdates ==
  ASSUME kind = "secret_backend", NEW w \in Configs, NEW s, IsState(s), Proper(s)
  PROVE  Updates(s, w)
<1> DEFINE fields == {"name"} \cup (IF w.interval # None THEN {"interval"} ELSE {})
                         \cup (IF w.version # s.version THEN {"content"} ELSE {})
           val == [x \in fields |-> SecretBackendOf(w)[x]]
           c == UpdateSecretBackend(s.name, val)
           state == StateOf(w.name, w)
           r == returns(state)
           cs == <<c, r>>
<1>1. Plan(s, w) = w /\ w \in SecretBackendConfigs /\ kind \in ByName
  BY DEF Plan, Configs, ByName, AllKinds
<1>2. KeysOf(s) = {s.name} /\ s.name \in Keys
  BY <1>1, NamedKeys DEF Proper
<1>3. Proper(state) /\ KeysOf(state) = {w.name} /\ state.version = w.version
  BY <1>1, ProperNamed DEF SecretBackendConfigs
<1>4. Update(s, Plan(s, w)) = cs
  BY <1>1 DEF Update, SecretBackendUpdate
<1>5. /\ SecretBackendOf(w).name = w.name /\ SecretBackendOf(w).content = w.version
      /\ DOMAIN Asked(w) = {"name", "content"} \cup (IF w.interval # None THEN {"interval"} ELSE {})
      /\ \A x \in DOMAIN Asked(w) : Asked(w)[x] = SecretBackendOf(w)[x]
  BY DEF SecretBackendOf, Asked, Only, SetIn
<1>6. HiddenFields = {"content"} /\ In("content") = "version" /\ \A v, y : Allows("content", v, y) <=> y = v
  BY DEF HiddenFields, In, Allows
<1>7. c.op = "move" /\ c.key = s.name /\ c.val = val /\ c.soft = <<>>
  BY Singles DEF UpdateSecretBackend
<1>8. /\ "name" \in DOMAIN val /\ val.name = w.name /\ \A x \in DOMAIN val : val[x] = SecretBackendOf(w)[x]
      /\ w.interval # None => "interval" \in DOMAIN val
      /\ "content" \in DOMAIN val <=> w.version # s.version
  BY <1>5
<1> HIDE DEF val, fields
<1>9. SoundCall(c)
  BY <1>2, <1>7 DEF SoundCall, KeepsWhole, ProperCall, Making, Removing, OneName
<1>10. SoundCall(r) /\ r.op = "returns" /\ r.op # "move" /\ r.val = state
  BY <1>3, Singles, IdleCalls DEF Idle
<1>11. (\A k, x, v, how : Still(<<r>>, k, x, v, how)) /\ Unmoved(<<r>>)
  BY ReturnsSpare
<1>12. Ends(cs) = {w.name}
  <2>1. Len(cs) = 2 /\ cs[2] = r
    OBVIOUS
  <2> HIDE DEF cs, r, state
  <2> QED BY <1>3, <1>10, <2>1 DEF Ends
<1> HIDE DEF c, r, state
<1>13. SoundCalls(cs) /\ ToSet(cs) = {c, r} /\ cs[1] = c /\ Tail(cs) = <<r>>
  <2>1. Tail(cs) = <<r>> /\ cs[1] = c
    OBVIOUS
  <2> QED BY <1>9, <1>10, <2>1, SoundTuples, SetsOfTuples
<1> HIDE DEF cs
<1>14. SoftLast(cs)
  BY <1>13, NotSoft
<1>15. Holding(s, w) /\ w.version = s.version /\ there[s.name] # None => there[s.name].content = w.version
  BY <1>2, <1>6 DEF Holding, Holds
<1>15a. /\ cs[1].op = "move" /\ cs[1].val = val /\ cs[1].key = s.name /\ cs[1].val.name = w.name
       /\ \A k, x, v, how : Still(Tail(cs), k, x, v, how)
  BY <1>7, <1>8, <1>11, <1>13
<1>15b. \A x, v, how : (IF x \in DOMAIN val THEN Ok(x, val[x], v, how) ELSE Is(there, s.name, x, v, how))
                        => Comes(cs, there, w.name, x, v, how)
  BY <1>15a DEF Comes
<1>16. Holding(s, w) => Comes(cs, there, w.name, "content", w.version, "exactly")
                        /\ Comes(cs, there, w.name, "content", w.version, "allowed")
  <2>1. \A y : y = w.version => Ok("content", y, w.version, "exactly") /\ Ok("content", y, w.version, "allowed")
    BY <1>6 DEF Ok
  <2>2. "content" \in DOMAIN val => val["content"] = w.version
    BY <1>5, <1>8
  <2>3. Holding(s, w) /\ "content" \notin DOMAIN val =>
          Is(there, s.name, "content", w.version, "exactly") /\ Is(there, s.name, "content", w.version, "allowed")
    BY <1>8, <1>15, <2>1 DEF Is
  <2> QED BY <1>15b, <2>1, <2>2, <2>3
<1>17. \A x \in DOMAIN Asked(w) \ {"content"} : Comes(cs, there, w.name, x, Asked(w)[x], "exactly")
  <2>1. \A x \in DOMAIN Asked(w) \ {"content"} : x \in DOMAIN val /\ Ok(x, val[x], Asked(w)[x], "exactly")
    BY <1>5, <1>8 DEF Ok
  <2> QED BY <1>15b, <2>1
<1>18. There(cs, there, w.name)
  BY <1>7, <1>8, <1>11, <1>13 DEF There
<1>19. Informed(s, w) => Gets(cs, there, w)
  BY <1>5, <1>12, <1>16, <1>17, <1>18 DEF Gets, Informed, Hiding
<1>20. Holding(s, w) => Keeps(cs, there, w)
  BY <1>6, <1>12, <1>16 DEF Keeps
<1>21. Heeds(c, s, w) /\ Heeds(r, s, w)
  BY <1>6, <1>7, <1>8, <1>10 DEF Heeds, Setting, Making
<1> QED BY <1>3, <1>4, <1>6, <1>7, <1>10, <1>13, <1>14, <1>19, <1>20, <1>21 DEF Updates, r

LEMMA SecretUpdates ==
  ASSUME NoneIsNoValue, kind = "secret", NEW w \in Configs, NEW s, Proper(s)
  PROVE  Updates(s, w)
<1> DEFINE changed == {x \in {"name", "info"} : s[x] # w[x]} \cup (IF contentChanged(s, w) THEN {"content"} ELSE {})
           f == [x \in changed |-> IF x = "content" THEN resolveSecretValue(w) ELSE w[x]]
           val == [x \in {x \in DOMAIN f : f[x] # None} |-> f[x]]
           c == UpdateSecret(s.id, f)
           state == StateOf(s.id, w)
<1>1. w \in SecretConfigs /\ Plan(s, w) = w /\ kind \in AllKinds \ {"controller"}
  BY DEF Plan, Configs, AllKinds
<1>2. KeysOf(s) = {s.id} /\ s.id \in Keys
  BY DEF KeysOf, Proper
<1>3. Proper(state) /\ KeysOf(state) = {s.id}
  <2>1. state.id = s.id
    BY StateOfID
  <2> HIDE DEF state
  <2>2. KeysOf(state) = {s.id}
    BY <2>1 DEF KeysOf
  <2> QED BY <1>1, <1>2, <2>2, ProperState DEF state
<1>4. Update(s, Plan(s, w)) = <<c, returns(state)>>
  BY <1>1 DEF Update, SecretUpdate
<1>5. c.op = "set" /\ c.key = s.id /\ c.val = val /\ c.soft = <<>>
  BY Singles DEF UpdateSecret
<1>6. resolveSecretValue(w) # None /\ IsContent(resolveSecretValue(w))
  <2>1. resolveSecretValue(w) \in {"plain", "wo"} \X {1, 2}
    BY <1>1 DEF resolveSecretValue, SecretConfigs
  <2> QED BY <2>1 DEF NoneIsNoValue, IsContent
<1>7. \A x \in {"name", "info"} :
        /\ x \in DOMAIN val <=> s[x] # w[x] /\ w[x] # None
        /\ x \in DOMAIN val => val[x] = w[x]
  OBVIOUS
<1>8. /\ "content" \in DOMAIN val <=> contentChanged(s, w)
      /\ contentChanged(s, w) => val.content = resolveSecretValue(w)
  BY <1>6
<1> HIDE DEF val, f, changed
<1>9. SoundCall(c)
  BY <1>5, <1>6, <1>8, SoundSetting DEF OneName
<1>10. /\ DOMAIN Asked(w) = SetIn(w, {"name", "info"}) \cup {"content"}
       /\ \A x \in SetIn(w, {"name", "info"}) : Asked(w)[x] = w[x] /\ x \in {"name", "info"} /\ w[x] # None
       /\ Asked(w).content = resolveSecretValue(w)
  BY DEF Asked, SetIn
<1>11. /\ HiddenFields = {"content"} /\ In("content") = "version"
       /\ \A v, y : Allows("content", v, y) <=> (v # None => y = <<"wo", v>>)
  BY DEF HiddenFields, In, Allows
<1>12. Seeing(s) => /\ there[s.id] # None
                    /\ \A x \in {"name", "info"} : s[x] # None => there[s.id][x] = s[x]
                    /\ s.value \notin {None, 0} => there[s.id].content = <<"plain", s.value>>
  BY <1>2 DEF Seeing, Visible
<1>13. Holding(s, w) /\ there[s.id] # None /\ s.version = w.version /\ w.version # None
         => there[s.id].content = <<"wo", w.version>>
  BY <1>2, <1>11 DEF Holding, Holds
<1>14. ~contentChanged(s, w) => IF w.version # None THEN s.version = w.version /\ resolveSecretValue(w) = <<"wo", w.version>>
                                ELSE s.value = w.value /\ w.value \notin {None, 0} /\ resolveSecretValue(w) = <<"plain", s.value>>
  BY <1>1 DEF contentChanged, resolveSecretValue, SecretConfigs
<1>15. Informed(s, w) => Meets(c, there, w)
  <2> SUFFICES ASSUME Seeing(s), Holding(s, w) PROVE Meets(c, there, w)
    BY DEF Informed, Hiding
  <2>1. ASSUME NEW x \in SetIn(w, {"name", "info"}), x \notin DOMAIN val
        PROVE  there[s.id][x] = w[x]
    BY <1>7, <1>10, <1>12, <2>1
  <2>2. ASSUME "content" \notin DOMAIN val PROVE there[s.id].content = resolveSecretValue(w)
    BY <1>8, <1>12, <1>13, <1>14, <2>2
  <2> QED BY <1>5, <1>7, <1>8, <1>10, <2>1, <2>2 DEF Meets, Is, Ok
<1>16. contentChanged(s, w) => (w.version # None => resolveSecretValue(w) = <<"wo", w.version>> /\ s.version # w.version)
  BY DEF contentChanged, resolveSecretValue
<1>17. Holding(s, w) => MeetsHidden(c, there, w)
  BY <1>5, <1>8, <1>11, <1>13, <1>14, <1>16 DEF MeetsHidden, Is, Ok
<1>18. Heeds(c, s, w)
  BY <1>5, <1>8, <1>11, <1>16 DEF Heeds
<1>19. c.op \in Setting /\ KeysOf(state) = {c.key} /\ kind # "model"
  BY <1>3, <1>5 DEF Setting
<1> HIDE DEF c, state
<1>20. /\ SoundCalls(Update(s, w)) /\ ToSet(Update(s, w)) = {c, returns(state)} /\ SoftLast(Update(s, w))
       /\ Informed(s, w) => Gets(Update(s, w), there, w)
       /\ Holding(s, w) => Keeps(Update(s, w), there, w)
  <2>1. LET cs == <<c, returns(state)>> IN
        /\ SoundCalls(cs) /\ ToSet(cs) = {c, returns(state)} /\ SoftLast(cs)
        /\ Informed(s, w) => Gets(cs, there, w)
        /\ Holding(s, w) => Keeps(cs, there, w)
    BY <1>3, <1>9, <1>15, <1>17, <1>19, SetsOne
  <2>2. Plan(s, w) = w
    BY <1>1
  <2> QED BY <1>4, <2>1, <2>2
<1>21. Heeds(returns(state), s, w)
  BY Singles DEF Heeds, Setting, Making
<1> QED BY <1>1, <1>18, <1>20, <1>21 DEF Updates

\* A field that is changed when it is to be, by one of several calls.
LEMMA ControllerUpdates ==
  ASSUME kind = "controller", WholeAt(there), NEW w \in Configs, NEW s, Proper(s)
  PROVE  Updates(s, w)
<1> DEFINE key == s.uuid
           a == set(key, [config |-> w.config])
           b == set(key, [modelconfig |-> w.modelconfig])
           e == set(key, [version |-> w.version])
           config == IF w.config \in {None, s.config} THEN <<>> ELSE <<a>>
           more == IF s.modelconfig = w.modelconfig THEN <<>> ELSE <<b>>
           version == IF s.version = w.version THEN <<>> ELSE <<e>>
           both == config \o more
           body == both \o version
           state == StateWith(s.id, key, w)
<1>1. Plan(s, w) = w /\ w.name = "a" /\ DOMAIN w \cup {"id", "uuid"} = StateFields
  BY ConfigShape DEF Plan, AllKinds, OneName
<1>2. KeysOf(s) = {key} /\ key \in Keys
  BY DEF KeysOf, Proper
<1>3. Proper(state) /\ KeysOf(state) = {key}
  <2>1. state = [x \in StateFields |-> state[x]] /\ state.uuid = key
    BY <1>1 DEF StateWith
  <2> HIDE DEF key, state
  <2>2. KeysOf(state) = {key}
    BY <2>1 DEF KeysOf
  <2> QED BY <1>2, <2>1, <2>2 DEF Proper
<1>4. Update(s, Plan(s, w)) = body \o <<returns(state)>>
  BY <1>1 DEF Update, ControllerUpdate, UpdateConfig, UpgradeController
<1>5. /\ a.op = "set" /\ a.key = key /\ a.soft = <<>> /\ a.val = [config |-> w.config]
      /\ b.op = "set" /\ b.key = key /\ b.soft = <<>> /\ b.val = [modelconfig |-> w.modelconfig]
      /\ e.op = "set" /\ e.key = key /\ e.soft = <<>> /\ e.val = [version |-> w.version]
  BY Singles
<1>6. SoundCall(a) /\ SoundCall(b) /\ SoundCall(e)
  BY <1>5, SoundSetting DEF OneName
<1>7. /\ HiddenFields = {"config", "modelconfig"} /\ In("config") = "config" /\ In("modelconfig") = "modelconfig"
      /\ \A v, y : Allows("config", v, y) <=> (v # None => y # None)
      /\ \A v, y : Allows("modelconfig", v, y) <=> ((v = None) <=> (y = None))
  BY DEF HiddenFields, In, Allows
<1>8. /\ DOMAIN Asked(w) = {"name", "version", "modelconfig"} \cup SetIn(w, {"config"})
      /\ \A x \in DOMAIN Asked(w) : Asked(w)[x] = w[x]
      /\ \A x \in DOMAIN Asked(w) : x \in {"name", "version", "modelconfig"} \/ (x = "config" /\ w.config # None)
  BY DEF Asked, Only, SetIn
<1>9. \A v : /\ Ok("config", v, v, "exactly") /\ Ok("config", v, v, "allowed")
             /\ Ok("modelconfig", v, v, "exactly") /\ Ok("modelconfig", v, v, "allowed")
             /\ Ok("version", v, v, "exactly")
  BY <1>7 DEF Ok
<1>10. /\ DOMAIN a.val = {"config"} /\ a.val["config"] = w.config
       /\ DOMAIN b.val = {"modelconfig"} /\ b.val["modelconfig"] = w.modelconfig
       /\ DOMAIN e.val = {"version"} /\ e.val["version"] = w.version
  BY <1>5
<1>11. /\ a.op = "set" /\ b.op = "set" /\ e.op = "set" /\ a.key = key /\ b.key = key /\ e.key = key
       /\ config = <<>> \/ (config = <<a>> /\ SoundCall(a))
       /\ more = <<>> \/ (more = <<b>> /\ SoundCall(b))
       /\ version = <<>> \/ (version = <<e>> /\ SoundCall(e))
       /\ config = <<>> => w.config \in {None, s.config}
       /\ more = <<>> => s.modelconfig = w.modelconfig
       /\ version = <<>> => s.version = w.version
       /\ config = <<>> \/ (config = <<a>> /\ s.config # w.config)
       /\ more = <<>> \/ (more = <<b>> /\ s.modelconfig # w.modelconfig)
  BY <1>5, <1>6
<1>12. \A x \in HiddenFields : /\ x \in DOMAIN a.val => x = "config" /\ a.val[x] = w.config
                               /\ x \in DOMAIN b.val => x = "modelconfig" /\ b.val[x] = w.modelconfig
                               /\ x \notin DOMAIN e.val
  BY <1>7, <1>10
<1> HIDE DEF key, a, b, e, config, more, version, state
<1>13. /\ SoundCalls(config) /\ Unmoved(config)
       /\ \A x, v, how : x # "config" => Still(config, key, x, v, how)
       /\ \A how \in {"exactly", "allowed"} :
            Still(config, key, "config", w.config, how) /\ (config # <<>> => Sure(config, key, "config", w.config, how))
  <2>1. /\ SoundCalls(config) /\ Unmoved(config)
        /\ \A k, x, v, how : a.key # k \/ x \notin DOMAIN a.val => Still(config, k, x, v, how)
        /\ \A x, v, how : x \in DOMAIN a.val /\ Ok(x, a.val[x], v, how) =>
             Still(config, a.key, x, v, how) /\ (config # <<>> => Sure(config, a.key, x, v, how))
    BY <1>11, MaybeSets
  <2> QED BY <1>9, <1>10, <1>11, <2>1
<1>14. /\ SoundCalls(more) /\ Unmoved(more)
       /\ \A x, v, how : x # "modelconfig" => Still(more, key, x, v, how)
       /\ \A how \in {"exactly", "allowed"} :
            Still(more, key, "modelconfig", w.modelconfig, how) /\ (more # <<>> => Sure(more, key, "modelconfig", w.modelconfig, how))
  <2>1. /\ SoundCalls(more) /\ Unmoved(more)
        /\ \A k, x, v, how : b.key # k \/ x \notin DOMAIN b.val => Still(more, k, x, v, how)
        /\ \A x, v, how : x \in DOMAIN b.val /\ Ok(x, b.val[x], v, how) =>
             Still(more, b.key, x, v, how) /\ (more # <<>> => Sure(more, b.key, x, v, how))
    BY <1>11, MaybeSets
  <2> QED BY <1>9, <1>10, <1>11, <2>1
<1>15. /\ SoundCalls(version) /\ Unmoved(version)
       /\ \A x, v, how : x # "version" => Still(version, key, x, v, how)
       /\ Still(version, key, "version", w.version, "exactly")
       /\ version # <<>> => Sure(version, key, "version", w.version, "exactly")
  <2>1. /\ SoundCalls(version) /\ Unmoved(version)
        /\ \A k, x, v, how : e.key # k \/ x \notin DOMAIN e.val => Still(version, k, x, v, how)
        /\ \A x, v, how : x \in DOMAIN e.val /\ Ok(x, e.val[x], v, how) =>
             Still(version, e.key, x, v, how) /\ (version # <<>> => Sure(version, e.key, x, v, how))
    BY <1>11, MaybeSets
  <2> QED BY <1>9, <1>10, <1>11, <2>1
<1>16. /\ SoundCalls(both) /\ Unmoved(both) /\ ToSet(both) = ToSet(config) \cup ToSet(more)
       /\ \A x, v, how : x \notin {"config", "modelconfig"} => Still(both, key, x, v, how)
       /\ \A how \in {"exactly", "allowed"} :
            /\ Still(both, key, "config", w.config, how)
            /\ config # <<>> => Sure(both, key, "config", w.config, how)
            /\ Still(both, key, "modelconfig", w.modelconfig, how)
            /\ more # <<>> => Sure(both, key, "modelconfig", w.modelconfig, how)
  BY <1>13, <1>14, SoundTogether
<1> HIDE DEF both
<1>17. /\ SoundCalls(body) /\ Unmoved(body) /\ ToSet(body) = ToSet(config) \cup ToSet(more) \cup ToSet(version)
       /\ \A v, how : Still(body, key, "name", v, how)
       /\ Still(body, key, "version", w.version, "exactly")
       /\ version # <<>> => Sure(body, key, "version", w.version, "exactly")
       /\ \A how \in {"exactly", "allowed"} :
            /\ Still(body, key, "config", w.config, how)
            /\ config # <<>> => Sure(body, key, "config", w.config, how)
            /\ Still(body, key, "modelconfig", w.modelconfig, how)
            /\ more # <<>> => Sure(body, key, "modelconfig", w.modelconfig, how)
  BY <1>15, <1>16, SoundTogether
<1> HIDE DEF body
<1>18. ASSUME Informed(s, w) PROVE Gets(body \o <<returns(state)>>, there, w)
  <2> DEFINE obj == there[key]
  <2>1. /\ obj # None /\ s.version = obj.version
        /\ s.config = None \/ obj.config = None \/ s.config = obj.config
        /\ s.modelconfig = None \/ obj.modelconfig = None \/ s.modelconfig = obj.modelconfig
    BY <1>2, <1>18 DEF Informed, Seeing, Visible
  <2>2. /\ s.config = w.config /\ w.config # None => obj.config # None
        /\ s.modelconfig = w.modelconfig => ((w.modelconfig = None) <=> (obj.modelconfig = None))
    BY <1>2, <1>7, <1>18, <2>1 DEF Informed, Hiding, Holding, Holds
  <2>3. obj.name = w.name
    BY <1>1, <1>2, <2>1 DEF WholeAt, Whole, OneName
  <2>4. Lands(body, there, key, "name", w.name, "exactly")
    BY <1>17, <2>3 DEF Lands, Is, Ok
  <2>5. Lands(body, there, key, "version", w.version, "exactly")
    BY <1>11, <1>17, <2>1 DEF Lands, Is, Ok
  <2>6. Lands(body, there, key, "modelconfig", w.modelconfig, "exactly")
    BY <1>11, <1>17, <2>1, <2>2 DEF Lands, Is, Ok
  <2>7. w.config # None => Lands(body, there, key, "config", w.config, "exactly")
    BY <1>11, <1>17, <2>1, <2>2 DEF Lands, Is, Ok
  <2>8. ASSUME NEW x \in DOMAIN Asked(w) PROVE Lands(body, there, key, x, Asked(w)[x], "exactly")
    <3>1. Asked(w)[x] = w[x] /\ (x = "name" \/ x = "version" \/ x = "modelconfig" \/ (x = "config" /\ w.config # None))
      BY <1>8
    <3> QED BY <2>4, <2>5, <2>6, <2>7, <3>1
  <2> QED BY <1>3, <1>17, <2>1, <2>8, HandlerGets
<1>19. ASSUME Holding(s, w) PROVE Keeps(body \o <<returns(state)>>, there, w)
  <2> DEFINE obj == there[key]
  <2>1. /\ obj # None /\ s.config = w.config /\ w.config # None => obj.config # None
        /\ obj # None /\ s.modelconfig = w.modelconfig => ((w.modelconfig = None) <=> (obj.modelconfig = None))
    BY <1>2, <1>7, <1>19 DEF Holding, Holds
  <2>2. Lands(body, there, key, "config", w.config, "allowed")
    BY <1>7, <1>11, <1>17, <2>1 DEF Lands, Is, Ok
  <2>3. Lands(body, there, key, "modelconfig", w.modelconfig, "allowed")
    BY <1>7, <1>11, <1>17, <2>1 DEF Lands, Is, Ok
  <2> QED BY <1>3, <1>7, <1>17, <2>2, <2>3, HandlerGets
<1>20. LET cs == body \o <<returns(state)>> IN
       SoundCalls(cs) /\ ToSet(cs) = ToSet(body) \cup {returns(state)} /\ SoftLast(cs)
  BY <1>3, <1>17, Handler
<1>21. \A c \in ToSet(body) : (c = a /\ s.config # w.config) \/ (c = b /\ s.modelconfig # w.modelconfig) \/ c = e
  <2>1. /\ \A c \in ToSet(config) : c = a /\ s.config # w.config
        /\ \A c \in ToSet(more) : c = b /\ s.modelconfig # w.modelconfig
        /\ \A c \in ToSet(version) : c = e
    BY <1>11, SetsOfTuples
  <2> QED BY <1>17, <2>1
<1>22. /\ s.config # w.config => Heeds(a, s, w)
       /\ s.modelconfig # w.modelconfig => Heeds(b, s, w)
       /\ Heeds(e, s, w)
  BY <1>7, <1>12 DEF Heeds
<1>23. Heeds(returns(state), s, w)
  BY Singles DEF Heeds, Setting, Making
<1> QED BY <1>4, <1>18, <1>19, <1>20, <1>21, <1>22, <1>23 DEF Updates

\* Calls that are not soft.
NeverSoft(cs) == \A c \in ToSet(cs) : c.soft = <<>>
LEMMA NeverIsSoftLast ==
  ASSUME NEW cs, NeverSoft(cs)
  PROVE  SoftLast(cs)
BY DEF NeverSoft, SoftLast, ToSet

LEMMA PlannedModels ==
  ASSUME kind = "model", NEW w \in Configs, NEW s, s # None
  PROVE  LET plan == Plan(s, w) IN
         /\ DOMAIN plan = {"name", "config", "constraints", "annotations", "backend", "agent", "credential"}
         /\ DOMAIN w = DOMAIN plan /\ w.name = "a"
         /\ plan.name = w.name /\ plan.config = w.config /\ plan.constraints = w.constraints
         /\ plan.annotations = w.annotations /\ plan.backend = w.backend
         /\ w.agent # None => plan.agent = w.agent
         /\ w.credential # None => plan.credential = w.credential
         /\ w.backend \in {None, "b"}
<1>1. /\ w \in ModelConfigs /\ w.name = "a" /\ w.backend \in {None, "b"}
      /\ DOMAIN w = {"name", "config", "constraints", "annotations", "backend", "agent", "credential"}
  BY DEF Configs, ModelConfigs
<1>2. Plan(s, w) = [x \in DOMAIN w |-> IF x \in {"agent", "credential"} /\ w[x] = None THEN s[x] ELSE w[x]]
  BY DEF Plan, PlannedModel
<1> QED BY <1>1, <1>2

LEMMA ModelAsked ==
  ASSUME kind = "model", NEW w \in Configs
  PROVE  /\ \A x \in DOMAIN Asked(w) : x \in {"name", "config", "constraints", "annotations", "backend"}
                                       \/ (x = "agent" /\ w.agent # None) \/ (x = "credential" /\ w.credential # None)
         /\ \A x \in DOMAIN Asked(w) : Asked(w)[x] = IF x = "backend" /\ w.backend = None THEN "auto" ELSE w[x]
<1>1. DOMAIN w = {"name", "config", "constraints", "annotations", "backend", "agent", "credential"}
  BY DEF Configs, ModelConfigs
<1> DEFINE computed == {x \in {"agent", "credential"} : w[x] = None}
           plan == Without(w, computed)
<1>2. DOMAIN plan = DOMAIN w \ computed /\ \A x \in DOMAIN plan : plan[x] = w[x]
  BY DEF Without
<1>3. Asked(w) = [plan EXCEPT !.backend = IF @ = None THEN "auto" ELSE @]
  BY DEF Asked, PlannedModel
<1>4. "backend" \in DOMAIN plan
  BY <1>1, <1>2
<1> HIDE DEF plan
<1>5. DOMAIN Asked(w) = DOMAIN plan /\ \A x \in DOMAIN plan : Asked(w)[x] = IF x = "backend" /\ plan.backend = None THEN "auto" ELSE plan[x]
  BY <1>3, <1>4
<1> QED BY <1>1, <1>2, <1>4, <1>5

LEMMA ModelUpdates ==
  ASSUME NoneIsNoValue, kind = "model", WholeAt(there), NEW w \in Configs, NEW s, s # None, Proper(s)
  PROVE  Updates(s, w)
<1> DEFINE plan == Plan(s, w)
           key == s.id
           a == SetAnnotations(key, plan.annotations)
           b == set(key, [config |-> plan.config])
           c == SetModelConstraints(key, plan.constraints)
           d == SetModelSecretBackend(key, plan.backend)
           e == UpgradeModel(key, plan.agent)
           notes == updateAnnotations(key, s.annotations, plan.annotations)
           config == IF s.config = plan.config THEN <<>> ELSE <<b>>
           credential == IF s.credential = plan.credential THEN <<>> ELSE <<ChangeModelCredential>>
           backend == IF s.backend = plan.backend THEN <<>> ELSE <<d>>
           agent == IF s.agent = plan.agent THEN <<>> ELSE <<e>>
           limits == config \o <<c>>
           some == limits \o credential
           same == \A x \in {"config", "constraints", "credential"} : s[x] = plan[x]
           update == UpdateModel(s, plan)
           one == notes \o update
           two == one \o backend
           body == two \o agent
           state == StateOf(key, plan)
           back == IF w.backend = None THEN "auto" ELSE w.backend
<1>1. /\ DOMAIN plan = {"name", "config", "constraints", "annotations", "backend", "agent", "credential"}
      /\ DOMAIN w = DOMAIN plan /\ w.name = "a"
      /\ plan.name = w.name /\ plan.config = w.config /\ plan.constraints = w.constraints
      /\ plan.annotations = w.annotations /\ plan.backend = w.backend
      /\ w.agent # None => plan.agent = w.agent
      /\ w.credential # None => plan.credential = w.credential
      /\ w.backend \in {None, "b"}
  BY PlannedModels
<1> HIDE DEF plan
<1>2. KeysOf(s) = {key} /\ key \in Keys
  BY DEF KeysOf, Proper
<1>3. Proper(state) /\ KeysOf(state) = {key}
  <2>1. DOMAIN plan \cup {"id"} = StateFields
    BY <1>1 DEF StateFields
  <2>2. state = [x \in StateFields |-> state[x]] /\ state.id = key
    BY <2>1 DEF StateOf
  <2> HIDE DEF key, state
  <2>3. KeysOf(state) = {key}
    BY <2>2 DEF KeysOf
  <2> QED BY <1>2, <2>2, <2>3 DEF Proper
<1>4. Update(s, Plan(s, w)) = body \o <<returns(state)>>
  BY DEF Update, ModelUpdate, plan
<1>5. /\ a.op = "set" /\ a.key = key /\ a.soft = <<>> /\ a.val = [annotations |-> plan.annotations]
      /\ b.op = "set" /\ b.key = key /\ b.soft = <<>> /\ b.val = [config |-> plan.config]
      /\ c.op = "set" /\ c.key = key /\ c.soft = <<>> /\ c.val = [constraints |-> plan.constraints]
      /\ d.op = "set" /\ d.key = key /\ d.soft = <<>> /\ d.val = [backend |-> IF plan.backend = None THEN "auto" ELSE plan.backend]
      /\ e.op = "set" /\ e.key = key /\ e.soft = <<>> /\ e.val = [agent |-> plan.agent]
  BY Singles DEF SetAnnotations, SetModelConstraints, SetModelSecretBackend, UpgradeModel
<1>6. /\ DOMAIN a.val = {"annotations"} /\ a.val["annotations"] = w.annotations
      /\ DOMAIN b.val = {"config"} /\ b.val["config"] = w.config
      /\ DOMAIN c.val = {"constraints"} /\ c.val["constraints"] = w.constraints
      /\ DOMAIN d.val = {"backend"} /\ d.val["backend"] = back /\ back # None
      /\ DOMAIN e.val = {"agent"} /\ e.val["agent"] = plan.agent
  BY <1>1, <1>5 DEF NoneIsNoValue
<1>7. SoundCall(a) /\ SoundCall(b) /\ SoundCall(c) /\ SoundCall(d) /\ SoundCall(e)
  BY <1>5, <1>6, SoundSetting DEF OneName
<1>8. /\ HiddenFields = {"config", "annotations", "constraints", "backend"} /\ \A x \in HiddenFields : In(x) = x
      /\ \A v, y : Allows("config", v, y) <=> ((v = None) <=> (y = None))
      /\ \A v, y : Allows("annotations", v, y) <=> (v # None => y # None)
      /\ \A v, y : Allows("constraints", v, y) <=> (v = None => y = None)
      /\ \A v, y : Allows("backend", v, y) <=> (v = None => y = "auto")
  <2>1. HiddenFields = {"config", "annotations", "constraints", "backend"} /\ \A x \in HiddenFields : In(x) = x
    BY DEF HiddenFields, In
  <2>2. \A v, y : Allows("config", v, y) <=> ((v = None) <=> (y = None))
    BY DEF Allows
  <2>3. \A v, y : Allows("annotations", v, y) <=> (v # None => y # None)
    BY DEF Allows
  <2>4. \A v, y : Allows("constraints", v, y) <=> (v = None => y = None)
    BY DEF Allows
  <2>5. \A v, y : Allows("backend", v, y) <=> (v = None => y = "auto")
    BY DEF Allows
  <2> QED BY <2>1, <2>2, <2>3, <2>4, <2>5
<1>9. /\ \A v, x : Ok(x, v, v, "exactly")
      /\ \A v : Ok("config", v, v, "allowed") /\ Ok("annotations", v, v, "allowed") /\ Ok("constraints", v, v, "allowed")
      /\ Ok("backend", back, back, "exactly") /\ Ok("backend", back, w.backend, "allowed")
  <2>1. Allows("backend", w.backend, back)
    BY <1>8
  <2>2. \A v : Allows("config", v, v) /\ Allows("annotations", v, v) /\ Allows("constraints", v, v)
    BY <1>8
  <2> QED BY <2>1, <2>2 DEF Ok
<1>10. /\ a.op = "set" /\ b.op = "set" /\ c.op = "set" /\ d.op = "set" /\ e.op = "set"
       /\ a.key = key /\ b.key = key /\ c.key = key /\ d.key = key /\ e.key = key
       /\ a.soft = <<>> /\ b.soft = <<>> /\ c.soft = <<>> /\ d.soft = <<>> /\ e.soft = <<>>
       /\ notes = IF s.annotations = w.annotations THEN <<>> ELSE <<a>>
       /\ config = IF s.config = w.config THEN <<>> ELSE <<b>>
       /\ backend = IF s.backend = w.backend THEN <<>> ELSE <<d>>
       /\ agent = IF s.agent = plan.agent THEN <<>> ELSE <<e>>
       /\ credential = IF s.credential = plan.credential THEN <<>> ELSE <<fails>>
  BY <1>1, <1>5 DEF updateAnnotations, ChangeModelCredential
<1>11. update = IF same THEN <<>> ELSE some
  BY DEF UpdateModel
<1>12. ASSUME NEW x \in HiddenFields
       PROVE  /\ x \in DOMAIN a.val => x = "annotations"
              /\ x \in DOMAIN b.val => x = "config"
              /\ x \in DOMAIN c.val => x = "constraints"
              /\ x \in DOMAIN d.val => x = "backend"
              /\ x \notin DOMAIN e.val
  BY <1>6, <1>8
<1>13. same => s.config = w.config /\ s.constraints = w.constraints /\ s.credential = plan.credential
  BY <1>1
<1> HIDE DEF key, a, b, c, d, e, notes, config, backend, agent, credential, state, update, back, same
<1>14. ASSUME NEW call, NEW cs, call.op = "set", SoundCall(call), call.key = key, call.soft = <<>>, NEW cond \in BOOLEAN,
              cs = IF cond THEN <<>> ELSE <<call>>
       PROVE  /\ SoundCalls(cs) /\ Unmoved(cs) /\ NeverSoft(cs)
              /\ \A x, v, how : x \notin DOMAIN call.val => Still(cs, key, x, v, how)
              /\ \A x, v, how : x \in DOMAIN call.val /\ Ok(x, call.val[x], v, how) =>
                   Still(cs, key, x, v, how) /\ (~cond => Sure(cs, key, x, v, how))
              /\ \A f \in ToSet(cs) : f = call /\ ~cond
  <2>1. cs = <<>> \/ (cs = <<call>> /\ SoundCall(call))
    BY <1>14
  <2>2. /\ SoundCalls(cs) /\ Unmoved(cs)
        /\ \A k, x, v, how : call.key # k \/ x \notin DOMAIN call.val => Still(cs, k, x, v, how)
        /\ \A x, v, how : x \in DOMAIN call.val /\ Ok(x, call.val[x], v, how) =>
             Still(cs, call.key, x, v, how) /\ (cs # <<>> => Sure(cs, call.key, x, v, how))
    BY <1>14, <2>1, MaybeSets
  <2>3. ~cond => cs # <<>>
    BY <1>14
  <2>4. \A f \in ToSet(cs) : f = call /\ ~cond
    BY <1>14, SetsOfTuples
  <2> QED BY <1>14, <2>2, <2>3, <2>4 DEF NeverSoft
<1>15. /\ SoundCalls(notes) /\ Unmoved(notes) /\ NeverSoft(notes)
       /\ \A x, v, how : x # "annotations" => Still(notes, key, x, v, how)
       /\ \A how \in {"exactly", "allowed"} : /\ Still(notes, key, "annotations", w.annotations, how)
                                              /\ s.annotations # w.annotations => Sure(notes, key, "annotations", w.annotations, how)
       /\ \A f \in ToSet(notes) : f = a /\ s.annotations # w.annotations
  <2> DEFINE cond == (s.annotations = w.annotations)
  <2>1. cond \in BOOLEAN /\ notes = IF cond THEN <<>> ELSE <<a>>
    BY <1>10
  <2> HIDE DEF cond
  <2>2. /\ SoundCalls(notes) /\ Unmoved(notes) /\ NeverSoft(notes)
        /\ \A x, v, how : x \notin DOMAIN a.val => Still(notes, key, x, v, how)
        /\ \A x, v, how : x \in DOMAIN a.val /\ Ok(x, a.val[x], v, how) =>
             Still(notes, key, x, v, how) /\ (~cond => Sure(notes, key, x, v, how))
        /\ \A f \in ToSet(notes) : f = a /\ ~cond
    BY <1>7, <1>10, <1>14, <2>1
  <2> QED BY <1>6, <1>9, <2>2 DEF cond
<1>16. /\ SoundCalls(config) /\ Unmoved(config) /\ NeverSoft(config)
       /\ \A x, v, how : x # "config" => Still(config, key, x, v, how)
       /\ \A how \in {"exactly", "allowed"} : /\ Still(config, key, "config", w.config, how)
                                              /\ s.config # w.config => Sure(config, key, "config", w.config, how)
       /\ \A f \in ToSet(config) : f = b /\ s.config # w.config
  <2> DEFINE cond == (s.config = w.config)
  <2>1. cond \in BOOLEAN /\ config = IF cond THEN <<>> ELSE <<b>>
    BY <1>10
  <2> HIDE DEF cond
  <2>2. /\ SoundCalls(config) /\ Unmoved(config) /\ NeverSoft(config)
        /\ \A x, v, how : x \notin DOMAIN b.val => Still(config, key, x, v, how)
        /\ \A x, v, how : x \in DOMAIN b.val /\ Ok(x, b.val[x], v, how) =>
             Still(config, key, x, v, how) /\ (~cond => Sure(config, key, x, v, how))
        /\ \A f \in ToSet(config) : f = b /\ ~cond
    BY <1>7, <1>10, <1>14, <2>1
  <2> QED BY <1>6, <1>9, <2>2 DEF cond
<1>17. /\ SoundCalls(backend) /\ Unmoved(backend) /\ NeverSoft(backend)
       /\ \A x, v, how : x # "backend" => Still(backend, key, x, v, how)
       /\ Still(backend, key, "backend", back, "exactly") /\ Still(backend, key, "backend", w.backend, "allowed")
       /\ s.backend # w.backend => Sure(backend, key, "backend", back, "exactly") /\ Sure(backend, key, "backend", w.backend, "allowed")
       /\ \A f \in ToSet(backend) : f = d /\ s.backend # w.backend
  <2> DEFINE cond == (s.backend = w.backend)
  <2>1. cond \in BOOLEAN /\ backend = IF cond THEN <<>> ELSE <<d>>
    BY <1>10
  <2> HIDE DEF cond
  <2>2. /\ SoundCalls(backend) /\ Unmoved(backend) /\ NeverSoft(backend)
        /\ \A x, v, how : x \notin DOMAIN d.val => Still(backend, key, x, v, how)
        /\ \A x, v, how : x \in DOMAIN d.val /\ Ok(x, d.val[x], v, how) =>
             Still(backend, key, x, v, how) /\ (~cond => Sure(backend, key, x, v, how))
        /\ \A f \in ToSet(backend) : f = d /\ ~cond
    BY <1>7, <1>10, <1>14, <2>1
  <2> QED BY <1>6, <1>9, <2>2 DEF cond
<1>18. /\ SoundCalls(agent) /\ Unmoved(agent) /\ NeverSoft(agent)
       /\ \A x, v, how : x # "agent" => Still(agent, key, x, v, how)
       /\ Still(agent, key, "agent", plan.agent, "exactly")
       /\ s.agent # plan.agent => Sure(agent, key, "agent", plan.agent, "exactly")
       /\ \A f \in ToSet(agent) : f = e
  <2> DEFINE cond == (s.agent = plan.agent)
  <2>1. cond \in BOOLEAN /\ agent = IF cond THEN <<>> ELSE <<e>>
    BY <1>10
  <2> HIDE DEF cond
  <2>2. /\ SoundCalls(agent) /\ Unmoved(agent) /\ NeverSoft(agent)
        /\ \A x, v, how : x \notin DOMAIN e.val => Still(agent, key, x, v, how)
        /\ \A x, v, how : x \in DOMAIN e.val /\ Ok(x, e.val[x], v, how) =>
             Still(agent, key, x, v, how) /\ (~cond => Sure(agent, key, x, v, how))
        /\ \A f \in ToSet(agent) : f = e /\ ~cond
    BY <1>7, <1>10, <1>14, <2>1
  <2> QED BY <1>6, <1>9, <2>2 DEF cond
<1>19. /\ SoundCalls(<<c>>) /\ Unmoved(<<c>>) /\ NeverSoft(<<c>>)
       /\ \A x, v, how : x # "constraints" => Still(<<c>>, key, x, v, how)
       /\ \A how \in {"exactly", "allowed"} : /\ Still(<<c>>, key, "constraints", w.constraints, how)
                                              /\ Sure(<<c>>, key, "constraints", w.constraints, how)
       /\ \A f \in ToSet(<<c>>) : f = c
  <2> DEFINE cs == <<c>>
             cond == FALSE
  <2>1. cond \in BOOLEAN /\ cs = IF cond THEN <<>> ELSE <<c>>
    OBVIOUS
  <2> HIDE DEF cs
  <2> HIDE DEF cond
  <2>2. /\ SoundCalls(cs) /\ Unmoved(cs) /\ NeverSoft(cs)
        /\ \A x, v, how : x \notin DOMAIN c.val => Still(cs, key, x, v, how)
        /\ \A x, v, how : x \in DOMAIN c.val /\ Ok(x, c.val[x], v, how) =>
             Still(cs, key, x, v, how) /\ (~cond => Sure(cs, key, x, v, how))
        /\ \A f \in ToSet(cs) : f = c /\ ~cond
    BY <1>7, <1>10, <1>14, <2>1
  <2>3. ~cond
    BY DEF cond
  <2> QED BY <1>6, <1>9, <2>2, <2>3 DEF cs
<1>20. /\ SoundCalls(credential) /\ Unmoved(credential) /\ NeverSoft(credential)
       /\ \A x, v, how : Still(credential, key, x, v, how)
       /\ \A f \in ToSet(credential) : f = fails
       /\ s.credential # plan.credential => fails \in ToSet(credential)
  <2>1. SoundCall(fails) /\ fails.op = "fails" /\ fails.soft = <<>> /\ \A k, x, v, how : Spares(fails, k, x, v, how)
    BY Singles, IdleCalls DEF Idle
  <2>2. CASE s.credential = plan.credential
    <3>1. credential = <<>>
      BY <1>10, <2>2
    <3> QED BY <2>2, <3>1, SoundTuples, SureTuples, SetsOfTuples DEF NeverSoft
  <2>3. CASE s.credential # plan.credential
    <3>1. credential = <<fails>>
      BY <1>10, <2>3
    <3> QED BY <2>1, <3>1, SoundTuples, SureTuples, SetsOfTuples DEF NeverSoft
  <2> QED BY <2>2, <2>3
<1>21. ASSUME NEW l, NEW r, SoundCalls(l), SoundCalls(r), Unmoved(l), Unmoved(r), NeverSoft(l), NeverSoft(r)
       PROVE  /\ SoundCalls(l \o r) /\ Unmoved(l \o r) /\ NeverSoft(l \o r) /\ ToSet(l \o r) = ToSet(l) \cup ToSet(r)
              /\ \A k, x, v, how : /\ Still(l, k, x, v, how) /\ Still(r, k, x, v, how) => Still(l \o r, k, x, v, how)
                                   /\ Sure(r, k, x, v, how) => Sure(l \o r, k, x, v, how)
                                   /\ Sure(l, k, x, v, how) /\ Still(r, k, x, v, how) => Sure(l \o r, k, x, v, how)
  BY <1>21, SoundTogether DEF NeverSoft
<1>22. /\ SoundCalls(limits) /\ Unmoved(limits) /\ NeverSoft(limits)
       /\ \A x, v, how : x \notin {"config", "constraints"} => Still(limits, key, x, v, how)
       /\ \A how \in {"exactly", "allowed"} : /\ Still(limits, key, "config", w.config, how)
                                              /\ s.config # w.config => Sure(limits, key, "config", w.config, how)
                                              /\ Sure(limits, key, "constraints", w.constraints, how)
                                              /\ Still(limits, key, "constraints", w.constraints, how)
       /\ \A f \in ToSet(limits) : (f = b /\ s.config # w.config) \/ f = c
  BY <1>16, <1>19, <1>21
<1> HIDE DEF limits
<1>23. /\ SoundCalls(some) /\ Unmoved(some) /\ NeverSoft(some)
       /\ \A x, v, how : x \notin {"config", "constraints"} => Still(some, key, x, v, how)
       /\ \A how \in {"exactly", "allowed"} : /\ Still(some, key, "config", w.config, how)
                                              /\ s.config # w.config => Sure(some, key, "config", w.config, how)
                                              /\ Sure(some, key, "constraints", w.constraints, how)
                                              /\ Still(some, key, "constraints", w.constraints, how)
       /\ \A f \in ToSet(some) : (f = b /\ s.config # w.config) \/ f = c \/ f = fails
       /\ s.credential # plan.credential => fails \in ToSet(some)
  BY <1>20, <1>21, <1>22
<1> HIDE DEF some
<1>24. /\ SoundCalls(update) /\ Unmoved(update) /\ NeverSoft(update)
       /\ \A x, v, how : x \notin {"config", "constraints"} => Still(update, key, x, v, how)
       /\ \A how \in {"exactly", "allowed"} : /\ Still(update, key, "config", w.config, how)
                                              /\ s.config # w.config => Sure(update, key, "config", w.config, how)
                                              /\ Still(update, key, "constraints", w.constraints, how)
                                              /\ s.constraints # w.constraints => Sure(update, key, "constraints", w.constraints, how)
       /\ \A f \in ToSet(update) : (f = b /\ s.config # w.config) \/ f = c \/ f = fails
       /\ s.credential # plan.credential => fails \in ToSet(update)
  <2>1. CASE same
    <3>1. update = <<>>
      BY <1>11, <2>1
    <3>2. ToSet(update) = {} /\ SoundCalls(update) /\ Unmoved(update) /\ \A k, x, v, how : Still(update, k, x, v, how)
      BY <3>1, SoundTuples, SetsOfTuples, SureTuples
    <3> QED BY <1>13, <2>1, <3>2 DEF NeverSoft
  <2>2. CASE ~same
    <3>1. update = some
      BY <1>11, <2>2
    <3> QED BY <1>23, <3>1
  <2> QED BY <2>1, <2>2
<1>25. /\ SoundCalls(one) /\ Unmoved(one) /\ NeverSoft(one)
       /\ \A x, v, how : x \notin {"config", "constraints", "annotations"} => Still(one, key, x, v, how)
       /\ \A how \in {"exactly", "allowed"} : /\ Still(one, key, "config", w.config, how)
                                              /\ s.config # w.config => Sure(one, key, "config", w.config, how)
                                              /\ Still(one, key, "constraints", w.constraints, how)
                                              /\ s.constraints # w.constraints => Sure(one, key, "constraints", w.constraints, how)
                                              /\ Still(one, key, "annotations", w.annotations, how)
                                              /\ s.annotations # w.annotations => Sure(one, key, "annotations", w.annotations, how)
       /\ \A f \in ToSet(one) : \/ f = a /\ s.annotations # w.annotations
                                \/ f = b /\ s.config # w.config
                                \/ f = c \/ f = fails
       /\ s.credential # plan.credential => fails \in ToSet(one)
  BY <1>15, <1>21, <1>24
<1> HIDE DEF one
<1>26. /\ SoundCalls(two) /\ Unmoved(two) /\ NeverSoft(two)
       /\ \A x, v, how : x \notin {"config", "constraints", "annotations", "backend"} => Still(two, key, x, v, how)
       /\ \A how \in {"exactly", "allowed"} : /\ Still(two, key, "config", w.config, how)
                                              /\ s.config # w.config => Sure(two, key, "config", w.config, how)
                                              /\ Still(two, key, "constraints", w.constraints, how)
                                              /\ s.constraints # w.constraints => Sure(two, key, "constraints", w.constraints, how)
                                              /\ Still(two, key, "annotations", w.annotations, how)
                                              /\ s.annotations # w.annotations => Sure(two, key, "annotations", w.annotations, how)
       /\ Still(two, key, "backend", back, "exactly") /\ Still(two, key, "backend", w.backend, "allowed")
       /\ s.backend # w.backend => Sure(two, key, "backend", back, "exactly") /\ Sure(two, key, "backend", w.backend, "allowed")
       /\ \A f \in ToSet(two) : \/ f = a /\ s.annotations # w.annotations
                                \/ f = b /\ s.config # w.config
                                \/ f = c \/ f = fails
                                \/ f = d /\ s.backend # w.backend
       /\ s.credential # plan.credential => fails \in ToSet(two)
  BY <1>17, <1>21, <1>25
<1> HIDE DEF two
<1>27. /\ SoundCalls(body) /\ Unmoved(body) /\ NeverSoft(body)
       /\ \A v, how : Still(body, key, "name", v, how) /\ Still(body, key, "credential", v, how)
       /\ \A how \in {"exactly", "allowed"} : /\ Still(body, key, "config", w.config, how)
                                              /\ s.config # w.config => Sure(body, key, "config", w.config, how)
                                              /\ Still(body, key, "constraints", w.constraints, how)
                                              /\ s.constraints # w.constraints => Sure(body, key, "constraints", w.constraints, how)
                                              /\ Still(body, key, "annotations", w.annotations, how)
                                              /\ s.annotations # w.annotations => Sure(body, key, "annotations", w.annotations, how)
       /\ Still(body, key, "backend", back, "exactly") /\ Still(body, key, "backend", w.backend, "allowed")
       /\ s.backend # w.backend => Sure(body, key, "backend", back, "exactly") /\ Sure(body, key, "backend", w.backend, "allowed")
       /\ Still(body, key, "agent", plan.agent, "exactly")
       /\ s.agent # plan.agent => Sure(body, key, "agent", plan.agent, "exactly")
       /\ \A f \in ToSet(body) : \/ f = a /\ s.annotations # w.annotations
                                 \/ f = b /\ s.config # w.config
                                 \/ f = c \/ f = fails
                                 \/ f = d /\ s.backend # w.backend
                                 \/ f = e
       /\ s.credential # plan.credential => fails \in ToSet(body)
  BY <1>18, <1>21, <1>26
<1> HIDE DEF body
<1>28. ASSUME Informed(s, w), AtWork(body \o <<returns(state)>>) PROVE Gets(body \o <<returns(state)>>, there, w)
  <2> DEFINE obj == there[key]
  <2>1. /\ obj # None
        /\ s.config = None \/ obj.config = None \/ s.config = obj.config
        /\ obj.annotations # None => s.annotations = obj.annotations
        /\ s.constraints # None => s.constraints = (IF obj.constraints = None THEN 0 ELSE obj.constraints)
        /\ s.backend # None => s.backend = obj.backend
        /\ s.agent = obj.agent /\ s.credential = obj.credential
    BY <1>2, <1>28 DEF Informed, Seeing, Visible
  <2>2. Holds(s, w, obj)
    BY <1>2, <1>28, <2>1 DEF Informed, Hiding, Holding
  <2>3. /\ s.config = w.config => ((w.config = None) <=> (obj.config = None))
        /\ s.annotations = w.annotations => (w.annotations # None => obj.annotations # None)
        /\ s.constraints = w.constraints => (w.constraints = None => obj.constraints = None)
        /\ s.backend = w.backend => (w.backend = None => obj.backend = "auto")
    BY <1>8, <2>2 DEF Holds
  <2>4. obj.name = w.name
    BY <1>1, <1>2, <2>1 DEF WholeAt, Whole, OneName
  <2>5. s.credential = plan.credential
    <3>1. ToSet(body \o <<returns(state)>>) = ToSet(body) \cup {returns(state)}
      BY <1>3, <1>27, Handler
    <3>2. ~Good(fails)
      BY Singles DEF Good
    <3> QED BY <1>27, <1>28, <3>1, <3>2 DEF AtWork
  <2>6. w.constraints \in {None, 1}
    BY DEF Configs, ModelConfigs
  <2> HIDE DEF obj
  <2>7. Is(there, key, "name", w.name, "exactly")
    BY <2>4 DEF Is, Ok, obj
  <2>8. s.config = w.config => Is(there, key, "config", w.config, "exactly")
    BY <2>1, <2>3 DEF Is, Ok, obj
  <2>9. s.annotations = w.annotations => Is(there, key, "annotations", w.annotations, "exactly")
    BY <2>1, <2>3 DEF Is, Ok, obj
  <2>10. s.constraints = w.constraints => Is(there, key, "constraints", w.constraints, "exactly")
    BY <2>1, <2>3, <2>6 DEF Is, Ok, obj
  <2>11. s.backend = w.backend => Is(there, key, "backend", back, "exactly")
    BY <2>1, <2>3 DEF Is, Ok, obj, back
  <2>12. s.agent = plan.agent => Is(there, key, "agent", plan.agent, "exactly")
    BY <2>1 DEF Is, Ok, obj
  <2>13. Is(there, key, "credential", plan.credential, "exactly")
    BY <2>1, <2>5 DEF Is, Ok, obj
  <2>14. /\ Lands(body, there, key, "name", w.name, "exactly")
         /\ Lands(body, there, key, "config", w.config, "exactly")
         /\ Lands(body, there, key, "annotations", w.annotations, "exactly")
         /\ Lands(body, there, key, "constraints", w.constraints, "exactly")
         /\ Lands(body, there, key, "backend", back, "exactly")
         /\ Lands(body, there, key, "agent", plan.agent, "exactly")
         /\ Lands(body, there, key, "credential", plan.credential, "exactly")
    BY <1>27, <2>7, <2>8, <2>9, <2>10, <2>11, <2>12, <2>13 DEF Lands
  <2>15. ASSUME NEW x \in DOMAIN Asked(w) PROVE Lands(body, there, key, x, Asked(w)[x], "exactly")
    <3>1. x \in {"name", "config", "constraints", "annotations", "backend"}
          \/ (x = "agent" /\ w.agent # None) \/ (x = "credential" /\ w.credential # None)
      BY ModelAsked
    <3>2. Asked(w)[x] = IF x = "backend" /\ w.backend = None THEN "auto" ELSE w[x]
      BY ModelAsked
    <3>3. x = "backend" => Asked(w)[x] = back
      BY <3>2 DEF back
    <3> QED BY <1>1, <2>14, <3>1, <3>2, <3>3
  <2>16. there[key] # None
    BY <2>1 DEF obj
  <2> QED BY <1>3, <1>27, <2>15, <2>16, HandlerGets
<1>29. ASSUME Holding(s, w) PROVE Keeps(body \o <<returns(state)>>, there, w)
  <2> DEFINE obj == there[key]
  <2>1. obj # None => Holds(s, w, obj)
    BY <1>2, <1>29 DEF Holding
  <2>2. ASSUME NEW x \in HiddenFields, s[x] = w[x] PROVE Is(there, key, x, w[x], "allowed")
    BY <1>8, <2>1, <2>2 DEF Holds, Is, Ok
  <2> HIDE DEF obj
  <2>3. /\ s.config = w.config => Is(there, key, "config", w.config, "allowed")
        /\ s.annotations = w.annotations => Is(there, key, "annotations", w.annotations, "allowed")
        /\ s.constraints = w.constraints => Is(there, key, "constraints", w.constraints, "allowed")
        /\ s.backend = w.backend => Is(there, key, "backend", w.backend, "allowed")
    BY <1>8, <2>2
  <2>4. /\ Lands(body, there, key, "config", w.config, "allowed")
        /\ Lands(body, there, key, "annotations", w.annotations, "allowed")
        /\ Lands(body, there, key, "constraints", w.constraints, "allowed")
        /\ Lands(body, there, key, "backend", w.backend, "allowed")
    BY <1>27, <2>3 DEF Lands
  <2>5. \A x \in HiddenFields : Lands(body, there, key, x, w[In(x)], "allowed")
    BY <1>8, <2>4
  <2> QED BY <1>3, <1>27, <2>5, HandlerGets
<1>30. LET cs == body \o <<returns(state)>> IN
       SoundCalls(cs) /\ ToSet(cs) = ToSet(body) \cup {returns(state)} /\ SoftLast(cs)
  <2> DEFINE cs == body \o <<returns(state)>>
  <2>1. SoundCalls(cs) /\ ToSet(cs) = ToSet(body) \cup {returns(state)}
    BY <1>3, <1>27, Handler
  <2> HIDE DEF cs
  <2>2. NeverSoft(cs)
    BY <1>27, <2>1, Singles DEF NeverSoft
  <2> QED BY <2>1, <2>2, NeverIsSoftLast DEF cs
<1>31. /\ s.annotations # w.annotations => Heeds(a, s, w)
       /\ s.config # w.config => Heeds(b, s, w)
       /\ Heeds(c, s, w)
       /\ s.backend # w.backend => Heeds(d, s, w)
       /\ Heeds(e, s, w) /\ Heeds(fails, s, w) /\ Heeds(returns(state), s, w)
  <2>1. s.annotations # w.annotations => Heeds(a, s, w)
    BY <1>8, <1>12 DEF Heeds
  <2>2. s.config # w.config => Heeds(b, s, w)
    BY <1>8, <1>12 DEF Heeds
  <2>3. Heeds(c, s, w)
    BY <1>6, <1>8, <1>12 DEF Heeds
  <2>4. s.backend # w.backend => Heeds(d, s, w)
    BY <1>8, <1>12 DEF Heeds
  <2>5. Heeds(e, s, w)
    BY <1>12 DEF Heeds
  <2>6. Heeds(fails, s, w) /\ Heeds(returns(state), s, w)
    BY Singles DEF Heeds, Setting, Making
  <2> QED BY <2>1, <2>2, <2>3, <2>4, <2>5, <2>6
<1>32. \A f \in ToSet(body) \cup {returns(state)} : Heeds(f, s, w)
  BY <1>27, <1>31
<1> DEFINE cs == body \o <<returns(state)>>
<1>33. /\ SoundCalls(cs) /\ SoftLast(cs)
       /\ AtWork(cs) /\ Informed(s, w) => Gets(cs, there, w)
       /\ Holding(s, w) => Keeps(cs, there, w)
       /\ \A f \in ToSet(cs) : Heeds(f, s, w)
  BY <1>28, <1>29, <1>30, <1>32
<1>34. Update(s, Plan(s, w)) = cs
  BY <1>4
<1> HIDE DEF cs
<1> QED BY <1>33, <1>34 DEF Updates

-----------------------------------------------------------------------------
(* The Update of an application.                                           *)

\* The endpoint of field x is bound by the configuration.
Bound(w, x) == w.bindings # None /\ EndpointOf(x) \in DOMAIN w.bindings

LEMMA AppShape ==
  ASSUME kind = "application", NoneIsNoValue, NEW w \in Configs
  PROVE  /\ DOMAIN w = {"name", "revision", "config", "resource", "bindings"}
         /\ w.revision \in {1, 2} /\ (w.revision = 1 => w.config = None)
         /\ w.bindings # None => DOMAIN w.bindings \subseteq {"db", others, "new"} /\ \A e \in DOMAIN w.bindings : w.bindings[e] = "s1"
         /\ w.revision = 1 => ~Bound(w, "new")
         /\ "s1" # None
         /\ HiddenFields = {"config", "default", "db", "new"}
         /\ In("config") = "config" /\ In("default") = "bindings" /\ In("db") = "bindings" /\ In("new") = "bindings"
         /\ \A v, y : Allows("config", v, y) <=> (v # None => y # None)
         /\ \A x \in {"default", "db", "new"} : \A y : Allows(x, w.bindings, y) <=> (Bound(w, x) => y = w.bindings[EndpointOf(x)])
         /\ DOMAIN Asked(w) \subseteq {"name", "revision", "config", "resource", "default", "db", "new"}
         /\ \A x \in DOMAIN Asked(w) : \/ x \in {"name", "revision", "config"} /\ Asked(w)[x] = w[x]
                                       \/ x = "resource" /\ w.resource # None /\ Asked(w)[x] = w[x]
                                       \/ x \in {"default", "db", "new"} /\ Bound(w, x) /\ Asked(w)[x] = w.bindings[EndpointOf(x)]
<1>1. /\ w \in AppConfigs /\ DOMAIN w = {"name", "revision", "config", "resource", "bindings"}
  BY DEF Configs, AppConfigs
<1>2. "s1" # None
  BY DEF NoneIsNoValue
<1>3. w.revision \in {1, 2} /\ (w.revision = 1 => w.config = None)
  BY <1>1 DEF AppConfigs
<1>4. w.bindings # None => DOMAIN w.bindings \subseteq {"db", others, "new"} /\ \A e \in DOMAIN w.bindings : w.bindings[e] = "s1"
  BY <1>1 DEF AppConfigs
<1>5. w.revision = 1 => ~Bound(w, "new")
  BY <1>1 DEF AppConfigs, Bound, EndpointOf
<1>6. /\ HiddenFields = {"config", "default", "db", "new"}
      /\ In("config") = "config" /\ In("default") = "bindings" /\ In("db") = "bindings" /\ In("new") = "bindings"
  BY DEF HiddenFields, In
<1>7. \A v, y : Allows("config", v, y) <=> (v # None => y # None)
  BY DEF Allows
<1>8. ASSUME NEW x \in {"default", "db", "new"}, NEW y
      PROVE  Allows(x, w.bindings, y) <=> (Bound(w, x) => y = w.bindings[EndpointOf(x)])
  <2>1. x # "config"
    OBVIOUS
  <2> QED BY <2>1 DEF Allows, Bound
<1> DEFINE bound == IF w.bindings = None THEN {} ELSE {FieldOf(e) : e \in DOMAIN w.bindings}
<1>9. /\ DOMAIN Asked(w) = {"name", "revision", "config"} \cup (IF w.resource = None THEN {} ELSE {"resource"}) \cup bound
      /\ \A x \in DOMAIN Asked(w) : Asked(w)[x] = IF x \in bound THEN w.bindings[EndpointOf(x)] ELSE w[x]
  BY DEF Asked, AppAsked
<1>10. \A x \in bound : x \in {"default", "db", "new"} /\ Bound(w, x)
  BY <1>4 DEF FieldOf, EndpointOf, others, Bound
<1> HIDE DEF bound
<1>11. \A x \in DOMAIN Asked(w) : \/ x \in bound
                                  \/ x \notin bound /\ x \in {"name", "revision", "config"}
                                  \/ x \notin bound /\ x = "resource" /\ w.resource # None
  BY <1>9
<1>12. \A x \in DOMAIN Asked(w) : \/ x \in {"name", "revision", "config"} /\ Asked(w)[x] = w[x]
                                  \/ x = "resource" /\ w.resource # None /\ Asked(w)[x] = w[x]
                                  \/ x \in {"default", "db", "new"} /\ Bound(w, x) /\ Asked(w)[x] = w.bindings[EndpointOf(x)]
  BY <1>9, <1>10, <1>11
<1>13. DOMAIN Asked(w) \subseteq {"name", "revision", "config", "resource", "default", "db", "new"}
  BY <1>12
<1> QED BY <1>1, <1>2, <1>3, <1>4, <1>5, <1>6, <1>7, <1>8, <1>12, <1>13

LEMMA AppAllows ==
  ASSUME kind = "application", NoneIsNoValue, NEW w \in Configs
  PROVE  \A x \in {"default", "db", "new"} : \A y : Allows(x, w.bindings, y) <=> (Bound(w, x) => y = w.bindings[EndpointOf(x)])
BY AppShape

\* The call that sets the charm, and the one that binds the endpoints.
Recharms(c, s, w, app) ==
  /\ c.op = "set" /\ c.key = w.name /\ c.soft = <<>>
  /\ "resource" \in DOMAIN c.val /\ (w.resource # None => c.val["resource"] = w.resource)
  /\ DOMAIN c.val \subseteq {"resource", "revision", "config", "new"}
  /\ s.revision = w.revision => DOMAIN c.val = {"resource"}
  /\ s.revision # w.revision => /\ DOMAIN c.val = {"resource", "revision", "config", "new"}
                                /\ c.val["revision"] = w.revision
                                /\ c.val["config"] = (IF w.revision = 2 THEN app.config ELSE None)
                                /\ c.val["new"] = (IF w.revision = 2 THEN app.default ELSE None)
LEMMA AppRecharms ==
  ASSUME NEW s, NEW w, NEW app
  PROVE  LET a == UpdateCharmAndResources(s, w, app) IN
         \/ a = <<>> /\ s.revision = w.revision /\ w.resource = None
         \/ \E c : a = <<c>> /\ Recharms(c, s, w, app)
<1> DEFINE refreshed == [resource |-> IF w.resource = None THEN 0 ELSE w.resource,
                         revision |-> w.revision,
                         new      |-> IF w.revision = 2 THEN app.default ELSE None,
                         config   |-> IF w.revision = 2 THEN app.config ELSE None]
           val == IF s.revision = w.revision THEN [resource |-> refreshed.resource] ELSE refreshed
           c == set(w.name, val)
           a == UpdateCharmAndResources(s, w, app)
<1>1. a = IF s.revision = w.revision /\ s.resource = None /\ w.resource = None THEN <<>> ELSE <<c>>
  BY DEF UpdateCharmAndResources
<1>2. c.op = "set" /\ c.key = w.name /\ c.soft = <<>> /\ c.val = val
  BY Singles
<1>3. s.revision = w.revision => DOMAIN val = {"resource"} /\ val["resource"] = refreshed.resource
  OBVIOUS
<1>4. s.revision # w.revision => /\ DOMAIN val = {"resource", "revision", "config", "new"} /\ val["resource"] = refreshed.resource
                                 /\ val["revision"] = w.revision
                                 /\ val["config"] = (IF w.revision = 2 THEN app.config ELSE None)
                                 /\ val["new"] = (IF w.revision = 2 THEN app.default ELSE None)
  OBVIOUS
<1>5. w.resource # None => refreshed.resource = w.resource
  OBVIOUS
<1> HIDE DEF refreshed, val, c, a
<1>6. Recharms(c, s, w, app)
  BY <1>2, <1>3, <1>4, <1>5 DEF Recharms
<1>7. (a = <<>> /\ s.revision = w.revision /\ w.resource = None) \/ (a = <<c>> /\ Recharms(c, s, w, app))
  BY <1>1, <1>6
<1> QED BY <1>7 DEF a

Rebinds(c, s, w, app) ==
  /\ c.op = "set" /\ c.key = w.name /\ c.soft = <<>>
  /\ s.bindings # w.bindings
  /\ DOMAIN c.val \subseteq {"default", "db", "new"}
  /\ \A x \in {"default", "db", "new"} : Bound(w, x) => x \in DOMAIN c.val /\ c.val[x] = w.bindings[EndpointOf(x)]
  /\ AppWhole(app) => \A x \in DOMAIN c.val \cap {"default", "new"} : c.val[x] # None
  /\ AppWhole(app) /\ "new" \in DOMAIN c.val => app.new # None
  /\ "new" \in DOMAIN c.val => w.revision = 2
LEMMA AppRebinds ==
  ASSUME kind = "application", NoneIsNoValue, NEW w \in Configs, NEW s, NEW app
  PROVE  LET d == UpdateBindings(s, w, app) IN
         \/ d = <<>> /\ (s.bindings = w.bindings \/ \A x \in {"default", "db", "new"} : ~Bound(w, x))
         \/ d = <<fails>>
         \/ \E c : d = <<c>> /\ Rebinds(c, s, w, app)
<1> DEFINE current == EndpointBindings(app)
           input   == computeEndpointBindingsDeltas(s.bindings, w.bindings)
           updated == computeUpdatedBindings(current, input)
           kept    == DOMAIN current \ ({"new"} \ EndpointsOf(w.revision))
           fields  == {FieldOf(e) : e \in kept}
           val == [f \in fields |-> updated[EndpointOf(f)]]
           c == set(w.name, val)
           d == UpdateBindings(s, w, app)
           default == IF BoundIn(input, others, unbound) = unbound THEN modelDefault ELSE input[others]
<1>1. d = IF s.bindings = w.bindings \/ input = <<>> THEN <<>> ELSE IF ~(DOMAIN input \subseteq DOMAIN current) THEN <<fails>> ELSE <<c>>
  BY DEF UpdateBindings
<1>2. c.op = "set" /\ c.key = w.name /\ c.soft = <<>> /\ c.val = val
  BY Singles
<1>3. /\ DOMAIN current = EndpointsOf(app.revision) \cup {others}
      /\ DOMAIN current \subseteq {"db", "new", others}
      /\ others \in DOMAIN current
      /\ current[others] = app.default
      /\ "new" \in DOMAIN current => app.revision = 2 /\ current["new"] = app.new
  BY DEF EndpointBindings, EndpointsOf, FieldOf, others
<1>4. /\ \A e : w.bindings # None /\ e \in DOMAIN w.bindings => e \in DOMAIN input /\ input[e] = "s1"
      /\ \A e \in DOMAIN input : input[e] = "s1" \/ input[e] = unbound
  BY AppShape DEF computeEndpointBindingsDeltas, BoundIn
<1>5. /\ DOMAIN updated = DOMAIN current
      /\ \A e \in DOMAIN current : updated[e] = (IF e \in DOMAIN input THEN IF input[e] = unbound THEN default ELSE input[e]
                                                 ELSE IF current[e] = current[others] THEN default ELSE current[e])
  BY DEF computeUpdatedBindings
<1> HIDE DEF input, updated, current
<1>6. default = "alpha" \/ default = "s1"
  BY <1>4 DEF BoundIn, modelDefault, unbound
<1>7. "s1" # unbound /\ "s1" # None /\ "alpha" # None
  BY DEF unbound, NoneIsNoValue
<1> HIDE DEF default
<1>8. kept \subseteq {"db", "new", others} /\ kept \subseteq DOMAIN current /\ ("new" \in kept => w.revision = 2 /\ app.revision = 2)
  BY <1>3 DEF EndpointsOf
<1>9. \A e \in DOMAIN current : e # "new" \/ w.revision = 2 => e \in kept
  BY DEF EndpointsOf
<1> HIDE DEF kept
<1>10. /\ DOMAIN val = fields /\ fields \subseteq {"default", "db", "new"}
       /\ \A e \in kept : FieldOf(e) \in fields /\ EndpointOf(FieldOf(e)) = e
       /\ \A x \in fields : EndpointOf(x) \in kept /\ val[x] = updated[EndpointOf(x)]
       /\ \A x \in {"default", "db", "new"} : FieldOf(EndpointOf(x)) = x
  BY <1>8 DEF FieldOf, EndpointOf, others
<1> HIDE DEF fields, val, c, d
<1>11. ASSUME NEW x \in {"default", "db", "new"}, Bound(w, x), DOMAIN input \subseteq DOMAIN current
       PROVE  x \in DOMAIN val /\ val[x] = w.bindings[EndpointOf(x)]
  <2> DEFINE e == EndpointOf(x)
  <2>1. e \in DOMAIN input /\ input[e] = "s1" /\ e \in DOMAIN current /\ w.bindings[e] = "s1"
    BY <1>4, <1>11, AppShape DEF Bound
  <2>2. x = "new" => w.revision = 2
    BY <1>11, AppShape
  <2>3. e = "new" => x = "new"
    BY DEF EndpointOf, others
  <2>4. e \in kept
    BY <1>9, <2>1, <2>2, <2>3
  <2>5. updated[e] = "s1"
    BY <1>5, <1>7, <2>1
  <2>6. x \in fields
    BY <1>10, <2>4
  <2> QED BY <1>10, <2>1, <2>5, <2>6
<1>12. ASSUME AppWhole(app), NEW x \in DOMAIN val \cap {"default", "new"} PROVE val[x] # None
  <2>1. app.default # None /\ (app.revision = 2 => app.new # None)
    BY <1>12 DEF AppWhole
  <2>2. default # None
    BY <1>6, <1>7
  <2>3. ASSUME NEW e \in kept, e = others \/ e = "new" PROVE updated[e] # None
    <3>1. e \in DOMAIN current /\ current[e] # None
      BY <1>3, <1>8, <2>1, <2>3
    <3>2. e \in DOMAIN input => input[e] = "s1" \/ input[e] = unbound
      BY <1>4
    <3> QED BY <1>5, <1>7, <2>2, <3>1, <3>2
  <2>4. EndpointOf(x) = others \/ EndpointOf(x) = "new"
    BY DEF EndpointOf
  <2> QED BY <1>10, <2>3, <2>4
<1>13. "new" \in DOMAIN val => w.revision = 2 /\ app.revision = 2
  BY <1>8, <1>10 DEF EndpointOf
<1>14. ASSUME s.bindings # w.bindings, DOMAIN input \subseteq DOMAIN current PROVE Rebinds(c, s, w, app)
  <2>1. AppWhole(app) /\ "new" \in DOMAIN val => app.new # None
    BY <1>13 DEF AppWhole
  <2> QED BY <1>2, <1>10, <1>11, <1>12, <1>13, <1>14, <2>1 DEF Rebinds
<1>15. ASSUME input = <<>> PROVE \A x \in {"default", "db", "new"} : ~Bound(w, x)
  <2>1. DOMAIN input = {}
    BY <1>15
  <2> QED BY <1>4, <2>1 DEF Bound
<1>16. \/ d = <<>> /\ (s.bindings = w.bindings \/ \A x \in {"default", "db", "new"} : ~Bound(w, x))
       \/ d = <<fails>>
       \/ (d = <<c>> /\ Rebinds(c, s, w, app))
  BY <1>1, <1>14, <1>15
<1> QED BY <1>16 DEF d

LEMMA SetsOfApps ==
  ASSUME kind = "application", NEW c, c.op = "set", c.soft = <<>>, "unseen" \in touched \/ AppCall(c), pc # "create"
  PROVE  SoundCall(c)
BY DEF SoundCall, KeepsWhole, ProperCall, OneName, Making, Removing

LEMMA AppCharms ==
  ASSUME kind = "application", pc # "create", NEW w, NEW s, NEW app, "unseen" \in touched \/ AppWhole(app), NoneIsNoValue
  PROVE  LET a == UpdateCharmAndResources(s, w, app) IN
         /\ SoundCalls(a) /\ Unmoved(a)
         /\ \A x, v, how : x \notin {"resource", "revision", "config", "new"} => Still(a, w.name, x, v, how)
         /\ w.resource # None => Sure(a, w.name, "resource", w.resource, "exactly")
         /\ Still(a, w.name, "revision", w.revision, "exactly")
         /\ s.revision # w.revision => Sure(a, w.name, "revision", w.revision, "exactly")
         /\ \A v, how : Ok("config", IF w.revision = 2 THEN app.config ELSE None, v, how) => Still(a, w.name, "config", v, how)
         /\ \A v, how : s.revision = w.revision \/ Ok("new", IF w.revision = 2 THEN app.default ELSE None, v, how)
                          => Still(a, w.name, "new", v, how)
         /\ \A f \in ToSet(a) : Recharms(f, s, w, app)
<1> DEFINE a == UpdateCharmAndResources(s, w, app)
           option == IF w.revision = 2 THEN app.config ELSE None
           space == IF w.revision = 2 THEN app.default ELSE None
<1> HIDE DEF a
<1>1. \/ a = <<>> /\ s.revision = w.revision /\ w.resource = None
      \/ \E c : a = <<c>> /\ Recharms(c, s, w, app)
  BY AppRecharms DEF a
<1>2. CASE a = <<>> /\ s.revision = w.revision /\ w.resource = None
  BY <1>2, SoundTuples, SureTuples, SetsOfTuples DEF a
<1>3. CASE \E c : a = <<c>> /\ Recharms(c, s, w, app)
  <2>1. PICK c : a = <<c>> /\ Recharms(c, s, w, app)
    BY <1>3
  <2> HIDE DEF option, space
  <2>2. /\ c.op = "set" /\ c.key = w.name /\ c.soft = <<>> /\ "resource" \in DOMAIN c.val
        /\ w.resource # None => c.val["resource"] = w.resource
        /\ DOMAIN c.val \subseteq {"resource", "revision", "config", "new"}
        /\ s.revision = w.revision => DOMAIN c.val = {"resource"}
        /\ s.revision # w.revision => /\ DOMAIN c.val = {"resource", "revision", "config", "new"}
                                      /\ c.val["revision"] = w.revision /\ c.val["config"] = option /\ c.val["new"] = space
    BY <2>1 DEF Recharms, option, space
  <2>3. SoundCall(c)
    <3>1. ASSUME AppWhole(app) PROVE AppCall(c)
      <4>1. app.default # None
        BY <3>1 DEF AppWhole
      <4>2. s.revision # w.revision => ((c.val.new = None) <=> (c.val.revision # 2))
        BY <2>2, <4>1 DEF space
      <4> QED BY <2>2, <4>2 DEF AppCall, Renaming, Making
    <3> QED BY <2>2, <3>1, SetsOfApps
  <2>4. /\ \A k, x, v, how : c.key # k \/ x \notin DOMAIN c.val => Spares(c, k, x, v, how)
        /\ \A x, v, how : x \in DOMAIN c.val /\ Ok(x, c.val[x], v, how) =>
             Gives(c, c.key, x, v, how) /\ Spares(c, c.key, x, v, how)
        /\ c.op # "move"
    BY <2>2, SettingCalls DEF Setting
  <2>5. SoundCalls(a) /\ Unmoved(a) /\ ToSet(a) = {c}
    BY <2>1, <2>3, <2>4, SoundTuples, SureTuples, SetsOfTuples
  <2>6. /\ \A k, x, v, how : Spares(c, k, x, v, how) => Still(a, k, x, v, how)
        /\ \A k, x, v, how : Gives(c, k, x, v, how) => Sure(a, k, x, v, how)
    BY <2>1, SureTuples
  <2>7. \A x, v, how : /\ x \notin DOMAIN c.val => Still(a, w.name, x, v, how)
                       /\ x \in DOMAIN c.val /\ Ok(x, c.val[x], v, how) => Still(a, w.name, x, v, how) /\ Sure(a, w.name, x, v, how)
    BY <2>2, <2>4, <2>6
  <2>8. \A x, v : Ok(x, v, v, "exactly")
    BY DEF Ok
  <2>9. \A x, v, how : x \notin {"resource", "revision", "config", "new"} => Still(a, w.name, x, v, how)
    BY <2>2, <2>7
  <2>10. w.resource # None => Sure(a, w.name, "resource", w.resource, "exactly")
    BY <2>2, <2>7, <2>8
  <2>11. /\ Still(a, w.name, "revision", w.revision, "exactly")
         /\ s.revision # w.revision => Sure(a, w.name, "revision", w.revision, "exactly")
    BY <2>2, <2>7, <2>8
  <2>12. \A v, how : Ok("config", option, v, how) => Still(a, w.name, "config", v, how)
    BY <2>2, <2>7
  <2>13. \A v, how : s.revision = w.revision \/ Ok("new", space, v, how) => Still(a, w.name, "new", v, how)
    BY <2>2, <2>7
  <2>14. \A f \in ToSet(a) : Recharms(f, s, w, app)
    BY <2>1, <2>5
  <2> QED BY <2>5, <2>9, <2>10, <2>11, <2>12, <2>13, <2>14 DEF a, option, space
<1> QED BY <1>1, <1>2, <1>3

\* The calls that set the option.
Sets(f, w) == f.op = "set" /\ f.key = w.name /\ f.soft = <<>> /\ DOMAIN f.val = {"config"} /\ f.val["config"] = w.config
LEMMA AppOptions ==
  ASSUME kind = "application", pc # "create", NEW w, NEW s
  PROVE  LET b == UpdateConfigOf(s, w) IN
         /\ SoundCalls(b) /\ Unmoved(b)
         /\ \A x, v, how : x # "config" => Still(b, w.name, x, v, how)
         /\ \A v, how : Ok("config", w.config, v, how) =>
              Still(b, w.name, "config", v, how) /\ (s.config # w.config => Sure(b, w.name, "config", v, how))
         /\ \A f \in ToSet(b) : s.config # w.config /\ (f.op = "check" \/ Sets(f, w))
<1> DEFINE b == UpdateConfigOf(s, w)
           c == set(w.name, [config |-> w.config])
           d == check(w.name, [revision |-> 2])
<1>1. \/ b = <<>> /\ s.config = w.config
      \/ b = <<c>> /\ s.config # w.config
      \/ b = <<d, c>> /\ s.config # w.config
  BY DEF UpdateConfigOf
<1>2. Sets(c, w) /\ d.op = "check" /\ d.soft = <<>>
  BY Singles DEF Sets
<1> HIDE DEF b, c, d
<1>3. SoundCall(c)
  <2>1. AppCall(c)
    BY <1>2 DEF AppCall, Sets, Renaming, Making
  <2> QED BY <1>2, <2>1, SetsOfApps DEF Sets
<1>4. SoundCall(d) /\ (\A k, x, v, how : Spares(d, k, x, v, how)) /\ d.op # "move"
  BY <1>2, IdleCalls DEF Idle
<1>5. /\ \A k, x, v, how : c.key # k \/ x \notin DOMAIN c.val => Spares(c, k, x, v, how)
      /\ \A x, v, how : x \in DOMAIN c.val /\ Ok(x, c.val[x], v, how) =>
           Gives(c, c.key, x, v, how) /\ Spares(c, c.key, x, v, how)
      /\ c.op # "move"
  BY <1>2, SettingCalls DEF Setting, Sets
<1>6. /\ \A x, v, how : x # "config" => Spares(c, w.name, x, v, how)
      /\ \A v, how : Ok("config", w.config, v, how) => Gives(c, w.name, "config", v, how) /\ Spares(c, w.name, "config", v, how)
  BY <1>2, <1>5 DEF Sets
<1>7. CASE b = <<>> /\ s.config = w.config
  BY <1>7, SoundTuples, SureTuples, SetsOfTuples DEF b
<1>8. CASE b = <<c>> /\ s.config # w.config
  <2>1. SoundCalls(b) /\ Unmoved(b) /\ ToSet(b) = {c}
    BY <1>3, <1>5, <1>8, SoundTuples, SureTuples, SetsOfTuples
  <2>2. /\ \A k, x, v, how : Spares(c, k, x, v, how) => Still(b, k, x, v, how)
        /\ \A k, x, v, how : Gives(c, k, x, v, how) => Sure(b, k, x, v, how)
    BY <1>8, SureTuples
  <2> QED BY <1>2, <1>6, <1>8, <2>1, <2>2 DEF b
<1>9. CASE b = <<d, c>> /\ s.config # w.config
  <2>1. SoundCalls(b) /\ Unmoved(b) /\ ToSet(b) = {c, d}
    BY <1>3, <1>4, <1>5, <1>9, SoundTuples, SureTuples, SetsOfTuples
  <2>2. /\ \A k, x, v, how : Spares(c, k, x, v, how) => Still(b, k, x, v, how)
        /\ \A k, x, v, how : Gives(c, k, x, v, how) => Sure(b, k, x, v, how)
    BY <1>4, <1>9, SureTuples
  <2> QED BY <1>2, <1>6, <1>9, <2>1, <2>2 DEF b
<1> QED BY <1>1, <1>7, <1>8, <1>9

LEMMA AppBindings ==
  ASSUME kind = "application", pc # "create", NoneIsNoValue, NEW w \in Configs, NEW s, NEW app, "unseen" \in touched \/ AppWhole(app)
  PROVE  LET d == UpdateBindings(s, w, app) IN
         /\ SoundCalls(d) /\ Unmoved(d)
         /\ \A x, v, how : x \notin {"default", "db", "new"} => Still(d, w.name, x, v, how)
         /\ \A x \in {"default", "db", "new"} :
              Bound(w, x) /\ fails \notin ToSet(d) =>
                /\ Still(d, w.name, x, w.bindings[EndpointOf(x)], "exactly")
                /\ s.bindings # w.bindings => Sure(d, w.name, x, w.bindings[EndpointOf(x)], "exactly")
         /\ \A f \in ToSet(d) : Rebinds(f, s, w, app) \/ (f = fails /\ ToSet(d) = {fails} /\ d = <<fails>>)
<1> DEFINE d == UpdateBindings(s, w, app)
<1> HIDE DEF d
<1>1. \/ d = <<>> /\ (s.bindings = w.bindings \/ \A x \in {"default", "db", "new"} : ~Bound(w, x))
      \/ d = <<fails>>
      \/ \E c : d = <<c>> /\ Rebinds(c, s, w, app)
  BY AppRebinds DEF d
<1>2. CASE d = <<>> /\ (s.bindings = w.bindings \/ \A x \in {"default", "db", "new"} : ~Bound(w, x))
  BY <1>2, SoundTuples, SureTuples, SetsOfTuples DEF d
<1>3. CASE d = <<fails>>
  <2>1. SoundCall(fails) /\ fails.op = "fails" /\ fails.soft = <<>> /\ \A k, x, v, how : Spares(fails, k, x, v, how)
    BY Singles, IdleCalls DEF Idle
  <2>2. SoundCalls(d) /\ Unmoved(d) /\ ToSet(d) = {fails} /\ \A k, x, v, how : Still(d, k, x, v, how)
    BY <1>3, <2>1, SoundTuples, SureTuples, SetsOfTuples
  <2> QED BY <1>3, <2>2 DEF d
<1>4. CASE \E c : d = <<c>> /\ Rebinds(c, s, w, app)
  <2>1. PICK c : d = <<c>> /\ Rebinds(c, s, w, app)
    BY <1>4
  <2>2. /\ c.op = "set" /\ c.key = w.name /\ c.soft = <<>>
        /\ DOMAIN c.val \subseteq {"default", "db", "new"}
        /\ \A x \in {"default", "db", "new"} : Bound(w, x) => x \in DOMAIN c.val /\ c.val[x] = w.bindings[EndpointOf(x)]
        /\ AppWhole(app) => \A x \in DOMAIN c.val \cap {"default", "new"} : c.val[x] # None
    BY <2>1 DEF Rebinds
  <2>3. SoundCall(c)
    <3>1. ASSUME AppWhole(app) PROVE AppCall(c)
      BY <2>2, <3>1 DEF AppCall, Renaming, Making
    <3> QED BY <2>2, <3>1, SetsOfApps
  <2>4. /\ \A k, x, v, how : c.key # k \/ x \notin DOMAIN c.val => Spares(c, k, x, v, how)
        /\ \A x, v, how : x \in DOMAIN c.val /\ Ok(x, c.val[x], v, how) =>
             Gives(c, c.key, x, v, how) /\ Spares(c, c.key, x, v, how)
        /\ c.op # "move"
    BY <2>2, SettingCalls DEF Setting
  <2>5. SoundCalls(d) /\ Unmoved(d) /\ ToSet(d) = {c}
    BY <2>1, <2>3, <2>4, SoundTuples, SureTuples, SetsOfTuples
  <2>6. /\ \A k, x, v, how : Spares(c, k, x, v, how) => Still(d, k, x, v, how)
        /\ \A k, x, v, how : Gives(c, k, x, v, how) => Sure(d, k, x, v, how)
    BY <2>1, SureTuples
  <2>7. \A x, v : Ok(x, v, v, "exactly")
    BY DEF Ok
  <2>8. \A x, v, how : x \notin {"default", "db", "new"} => Still(d, w.name, x, v, how)
    BY <2>2, <2>4, <2>6
  <2>9. \A x \in {"default", "db", "new"} : Bound(w, x) =>
                /\ Still(d, w.name, x, w.bindings[EndpointOf(x)], "exactly")
                /\ Sure(d, w.name, x, w.bindings[EndpointOf(x)], "exactly")
    BY <2>2, <2>4, <2>6, <2>7
  <2> QED BY <2>1, <2>5, <2>8, <2>9 DEF d
<1> QED BY <1>1, <1>2, <1>3, <1>4

\* What comes exactly is allowed, where it is; and anything may be.
LEMMA ExactlyAllowed ==
  ASSUME NEW x, NEW v, NEW u, Allows(x, u, v), NEW cs, NEW at, NEW k
  PROVE  /\ Still(cs, k, x, v, "exactly") => Still(cs, k, x, u, "allowed")
         /\ Lands(cs, at, k, x, v, "exactly") => Lands(cs, at, k, x, u, "allowed")
<1>1. \A y : Ok(x, y, v, "exactly") => Ok(x, y, u, "allowed")
  BY DEF Ok
<1>2. \A c : /\ Spares(c, k, x, v, "exactly") => Spares(c, k, x, u, "allowed")
             /\ Gives(c, k, x, v, "exactly") => Gives(c, k, x, u, "allowed")
  BY <1>1 DEF Spares, Gives
<1>3. /\ Still(cs, k, x, v, "exactly") => Still(cs, k, x, u, "allowed")
      /\ Sure(cs, k, x, v, "exactly") => Sure(cs, k, x, u, "allowed")
  BY <1>2 DEF Still, Sure
<1>4. Is(at, k, x, v, "exactly") => Is(at, k, x, u, "allowed")
  BY <1>1 DEF Is
<1> QED BY <1>3, <1>4 DEF Lands

LEMMA AnythingAllowed ==
  ASSUME NEW x, NEW u, \A y : Allows(x, u, y), NEW cs, NEW at, NEW k, NEW z, NEW v, NEW how, Still(cs, k, z, v, how)
  PROVE  Lands(cs, at, k, x, u, "allowed")
<1>1. \A c : Spares(c, k, z, v, how) => Spares(c, k, x, u, "allowed")
  BY DEF Spares, Ok
<1>2. Is(at, k, x, u, "allowed")
  BY DEF Is, Ok
<1> QED BY <1>1, <1>2 DEF Still, Lands

\* What is as the configuration has it, the calls leave so.
LEMMA AppHeeds ==
  ASSUME kind = "application", NoneIsNoValue, NEW w \in Configs, NEW s, NEW app,
         Holds(s, w, app), s.revision # 2 => app.new = None
  PROVE  /\ s.bindings = w.bindings => \A x \in {"default", "db", "new"} : Bound(w, x) => app[x] = w.bindings[EndpointOf(x)]
         /\ s.bindings = w.bindings /\ Bound(w, "new") => s.revision = w.revision
         /\ s.config = w.config /\ w.config # None => app.config # None
         /\ \A c : (Recharms(c, s, w, app) \/ (s.config # w.config /\ Sets(c, w)) \/ Rebinds(c, s, w, app)) => Heeds(c, s, w)
<1>1. s.bindings = w.bindings => \A x \in {"default", "db", "new"} : Bound(w, x) => app[x] = w.bindings[EndpointOf(x)]
  <2> SUFFICES ASSUME s.bindings = w.bindings, NEW x \in {"default", "db", "new"}, Bound(w, x)
               PROVE  app[x] = w.bindings[EndpointOf(x)]
    OBVIOUS
  <2>1. x \in HiddenFields /\ In(x) = "bindings"
    BY AppShape
  <2>2. Allows(x, w.bindings, app[x])
    BY <2>1 DEF Holds
  <2>3. Allows(x, w.bindings, app[x]) <=> (Bound(w, x) => app[x] = w.bindings[EndpointOf(x)])
    BY AppAllows
  <2> QED BY <2>2, <2>3
<1>2. s.bindings = w.bindings /\ Bound(w, "new") => s.revision = w.revision
  <2>1. Bound(w, "new") => w.revision = 2 /\ w.bindings[EndpointOf("new")] = "s1" /\ "s1" # None
    BY AppShape DEF Bound
  <2> QED BY <1>1, <2>1
<1>3. s.config = w.config /\ w.config # None => app.config # None
  BY AppShape DEF Holds
<1>4. ASSUME NEW c, Recharms(c, s, w, app) PROVE Heeds(c, s, w)
  <2>1. CASE s.revision = w.revision
    <3>1. HiddenFields \cap DOMAIN c.val = {}
      BY <1>4, <2>1, AppShape DEF Recharms
    <3> QED BY <3>1 DEF Heeds
  <2>2. CASE s.revision # w.revision
    <3>1. /\ DOMAIN c.val = {"resource", "revision", "config", "new"}
          /\ c.val["config"] = (IF w.revision = 2 THEN app.config ELSE None)
          /\ c.val["new"] = (IF w.revision = 2 THEN app.default ELSE None)
      BY <1>4, <2>2 DEF Recharms
    <3>2. s.config = w.config => Allows("config", w.config, c.val["config"])
      BY <1>3, <3>1, AppShape
    <3>3. s.bindings = w.bindings => Allows("new", w.bindings, c.val["new"])
      BY <1>2, <2>2, AppShape
    <3>4. \A x \in HiddenFields \cap DOMAIN c.val : x = "config" \/ x = "new"
      BY <3>1, AppShape
    <3>5. In("config") = "config" /\ In("new") = "bindings"
      BY AppShape
    <3> QED BY <3>2, <3>3, <3>4, <3>5 DEF Heeds
  <2> QED BY <2>1, <2>2
<1>5. ASSUME NEW c, s.config # w.config, Sets(c, w) PROVE Heeds(c, s, w)
  <2>1. In("config") = "config"
    BY AppShape
  <2> QED BY <1>5, <2>1 DEF Heeds, Sets
<1>6. ASSUME NEW c, Rebinds(c, s, w, app) PROVE Heeds(c, s, w)
  <2>1. In("default") = "bindings" /\ In("db") = "bindings" /\ In("new") = "bindings"
    BY AppShape
  <2> QED BY <1>6, <2>1 DEF Heeds, Rebinds
<1> QED BY <1>1, <1>2, <1>3, <1>4, <1>5, <1>6

LEMMA AppHasNew ==
  ASSUME NEW w, NEW s, NEW app, AppWhole(app), NEW cs,
         \A c \in ToSet(cs) : Recharms(c, s, w, app) \/ Sets(c, w) \/ Rebinds(c, s, w, app) \/ c.op # "set"
  PROVE  HasNew(cs, app)
<1>1. app.default # None
  BY DEF AppWhole
<1>2. \A c : Recharms(c, s, w, app) => ~Binds(c) /\ ("new" \in DOMAIN c.val /\ w.revision = 2 => c.val.new # None)
  <2> SUFFICES ASSUME NEW c, Recharms(c, s, w, app)
               PROVE  ~Binds(c) /\ ("new" \in DOMAIN c.val /\ w.revision = 2 => c.val.new # None)
    OBVIOUS
  <2>1. CASE s.revision = w.revision
    BY <2>1 DEF Recharms, Binds
  <2>2. CASE s.revision # w.revision
    BY <1>1, <2>2 DEF Recharms, Binds
  <2> QED BY <2>1, <2>2
<1>3. \A c : Sets(c, w) => ~Binds(c) /\ "new" \notin DOMAIN c.val
  BY DEF Sets, Binds
<1>4. \A c : Rebinds(c, s, w, app) /\ "new" \in DOMAIN c.val => app.new # None /\ w.revision = 2 /\ c.val.new # None
  BY DEF Rebinds
<1>5. \A c : c.op # "set" => ~Binds(c)
  BY DEF Binds
<1>6. ASSUME NEW c \in ToSet(cs), Binds(c) PROVE app.new # None /\ w.revision = 2
  BY <1>2, <1>3, <1>4, <1>5, <1>6 DEF Binds
<1>7. ASSUME w.revision = 2, NEW c \in ToSet(cs), c.op = "set", "new" \in DOMAIN c.val PROVE c.val.new # None
  BY <1>2, <1>3, <1>4, <1>7
<1> QED BY <1>6, <1>7 DEF HasNew

\* Each of its calls but the last of UpdateApplication.
LEMMA AppUpdateCalls ==
  ASSUME kind = "application", pc # "create", NoneIsNoValue, NEW w \in Configs, NEW s, NEW app, app # None,
         "unseen" \in touched \/ AppWhole(app)
  PROVE  LET update == UpdateApplication(s, w, app) IN
         /\ SoundCalls(update) /\ Unmoved(update)
         /\ \A f \in ToSet(update) : \/ Recharms(f, s, w, app)
                                     \/ s.config # w.config /\ (f.op = "check" \/ Sets(f, w))
                                     \/ Rebinds(f, s, w, app)
                                     \/ f = fails
         /\ \A v, how : Still(update, w.name, "name", v, how)
         /\ w.resource # None => Sure(update, w.name, "resource", w.resource, "exactly")
         /\ Still(update, w.name, "revision", w.revision, "exactly")
         /\ s.revision # w.revision => Sure(update, w.name, "revision", w.revision, "exactly")
         /\ \A v, how : s.config # w.config /\ Ok("config", w.config, v, how) => Sure(update, w.name, "config", v, how)
         /\ \A v, how : (Ok("config", w.config, v, how) /\ Ok("config", IF w.revision = 2 THEN app.config ELSE None, v, how))
                          => Still(update, w.name, "config", v, how)
         /\ \A x \in {"default", "db", "new"} : Bound(w, x) /\ fails \notin ToSet(update) =>
              /\ s.bindings # w.bindings => Sure(update, w.name, x, w.bindings[EndpointOf(x)], "exactly")
              /\ x # "new" \/ s.revision = w.revision => Still(update, w.name, x, w.bindings[EndpointOf(x)], "exactly")
         /\ IF fails \in ToSet(update) THEN update # <<>> /\ update[Len(update)] = fails
            ELSE ~(update # <<>> /\ update[Len(update)] = fails)
<1> DEFINE a == UpdateCharmAndResources(s, w, app)
           b == UpdateConfigOf(s, w)
           d == UpdateBindings(s, w, app)
           both == a \o b
           update == both \o d
           option == IF w.revision = 2 THEN app.config ELSE None
           space == IF w.revision = 2 THEN app.default ELSE None
<1>1. UpdateApplication(s, w, app) = update
  BY DEF UpdateApplication
<1>2. /\ SoundCalls(a) /\ Unmoved(a)
      /\ \A x, v, how : x \notin {"resource", "revision", "config", "new"} => Still(a, w.name, x, v, how)
      /\ w.resource # None => Sure(a, w.name, "resource", w.resource, "exactly")
      /\ Still(a, w.name, "revision", w.revision, "exactly")
      /\ s.revision # w.revision => Sure(a, w.name, "revision", w.revision, "exactly")
      /\ \A v, how : Ok("config", option, v, how) => Still(a, w.name, "config", v, how)
      /\ \A v, how : s.revision = w.revision \/ Ok("new", space, v, how) => Still(a, w.name, "new", v, how)
      /\ \A f \in ToSet(a) : Recharms(f, s, w, app)
  BY AppCharms
<1>3. /\ SoundCalls(b) /\ Unmoved(b)
      /\ \A x, v, how : x # "config" => Still(b, w.name, x, v, how)
      /\ \A v, how : Ok("config", w.config, v, how) =>
           Still(b, w.name, "config", v, how) /\ (s.config # w.config => Sure(b, w.name, "config", v, how))
      /\ \A f \in ToSet(b) : s.config # w.config /\ (f.op = "check" \/ Sets(f, w))
  BY AppOptions
<1>4. /\ SoundCalls(d) /\ Unmoved(d)
      /\ \A x, v, how : x \notin {"default", "db", "new"} => Still(d, w.name, x, v, how)
      /\ \A x \in {"default", "db", "new"} :
           Bound(w, x) /\ fails \notin ToSet(d) =>
             /\ Still(d, w.name, x, w.bindings[EndpointOf(x)], "exactly")
             /\ s.bindings # w.bindings => Sure(d, w.name, x, w.bindings[EndpointOf(x)], "exactly")
      /\ \A f \in ToSet(d) : Rebinds(f, s, w, app) \/ (f = fails /\ ToSet(d) = {fails} /\ d = <<fails>>)
  BY AppBindings
<1> HIDE DEF a, b, d, option, space
<1>5. /\ SoundCalls(both) /\ ToSet(both) = ToSet(a) \cup ToSet(b) /\ Unmoved(both)
      /\ \A k, x, v, how : /\ Still(a, k, x, v, how) /\ Still(b, k, x, v, how) => Still(both, k, x, v, how)
                           /\ Sure(b, k, x, v, how) => Sure(both, k, x, v, how)
                           /\ Sure(a, k, x, v, how) /\ Still(b, k, x, v, how) => Sure(both, k, x, v, how)
  BY <1>2, <1>3, SoundTogether
<1> HIDE DEF both
<1>6. /\ SoundCalls(update) /\ ToSet(update) = ToSet(both) \cup ToSet(d) /\ Unmoved(update)
      /\ \A k, x, v, how : /\ Still(both, k, x, v, how) /\ Still(d, k, x, v, how) => Still(update, k, x, v, how)
                           /\ Sure(d, k, x, v, how) => Sure(update, k, x, v, how)
                           /\ Sure(both, k, x, v, how) /\ Still(d, k, x, v, how) => Sure(update, k, x, v, how)
  BY <1>4, <1>5, SoundTogether
<1>7. /\ Len(update) = Len(both) + Len(d) /\ DOMAIN update = 1..Len(update) /\ Len(update) \in Nat
      /\ \A i \in DOMAIN d : update[Len(both) + i] = d[i]
  <2>1. both \in Seq(ToSet(both)) /\ d \in Seq(ToSet(d))
    BY <1>4, <1>5 DEF SoundCalls
  <2>2. /\ Len(update) = Len(both) + Len(d) /\ DOMAIN update = 1..(Len(both) + Len(d)) /\ Len(both) \in Nat /\ Len(d) \in Nat
        /\ \A i \in DOMAIN d : update[Len(both) + i] = d[i]
    BY <2>1, SetsTogether
  <2> QED BY <2>2
<1> HIDE DEF update
<1>8. \A f \in ToSet(a) \cup ToSet(b) : f # fails
  <2>1. fails.op = "fails"
    BY Singles
  <2>2. \A f : Recharms(f, s, w, app) \/ Sets(f, w) => f.op = "set"
    BY DEF Recharms, Sets
  <2>3. \A f \in ToSet(a) \cup ToSet(b) : f.op = "set" \/ f.op = "check"
    BY <1>2, <1>3, <2>2
  <2> QED BY <2>1, <2>3
<1>9. fails \in ToSet(update) <=> fails \in ToSet(d)
  BY <1>5, <1>6, <1>8
<1>10. \A f \in ToSet(update) : \/ Recharms(f, s, w, app)
                                \/ s.config # w.config /\ (f.op = "check" \/ Sets(f, w))
                                \/ Rebinds(f, s, w, app)
                                \/ f = fails
  BY <1>2, <1>3, <1>4, <1>5, <1>6
<1>11. \A v, how : Still(update, w.name, "name", v, how)
  BY <1>2, <1>3, <1>4, <1>5, <1>6
<1>12. w.resource # None => Sure(update, w.name, "resource", w.resource, "exactly")
  BY <1>2, <1>3, <1>4, <1>5, <1>6
<1>13. /\ Still(update, w.name, "revision", w.revision, "exactly")
       /\ s.revision # w.revision => Sure(update, w.name, "revision", w.revision, "exactly")
  BY <1>2, <1>3, <1>4, <1>5, <1>6
<1>14. \A v, how : s.config # w.config /\ Ok("config", w.config, v, how) => Sure(update, w.name, "config", v, how)
  BY <1>3, <1>4, <1>5, <1>6
<1>15. \A v, how : Ok("config", w.config, v, how) /\ Ok("config", option, v, how) => Still(update, w.name, "config", v, how)
  BY <1>2, <1>3, <1>4, <1>5, <1>6
<1>16. ASSUME NEW x \in {"default", "db", "new"}, Bound(w, x), fails \notin ToSet(update)
       PROVE  /\ s.bindings # w.bindings => Sure(update, w.name, x, w.bindings[EndpointOf(x)], "exactly")
              /\ x # "new" \/ s.revision = w.revision => Still(update, w.name, x, w.bindings[EndpointOf(x)], "exactly")
  <2> DEFINE v == w.bindings[EndpointOf(x)]
  <2>1. /\ Still(d, w.name, x, v, "exactly")
        /\ s.bindings # w.bindings => Sure(d, w.name, x, v, "exactly")
    BY <1>4, <1>9, <1>16
  <2> HIDE DEF v
  <2>2. Still(b, w.name, x, v, "exactly") /\ (x # "new" \/ s.revision = w.revision => Still(a, w.name, x, v, "exactly"))
    BY <1>2, <1>3
  <2> QED BY <1>5, <1>6, <2>1, <2>2 DEF v
<1>17. IF fails \in ToSet(update) THEN update # <<>> /\ update[Len(update)] = fails
       ELSE ~(update # <<>> /\ update[Len(update)] = fails)
  <2>1. CASE fails \in ToSet(update)
    <3>1. d = <<fails>>
      <4>1. fails \in ToSet(d)
        BY <1>9, <2>1
      <4>2. fails.op = "fails"
        BY Singles
      <4>3. ~Rebinds(fails, s, w, app)
        BY <4>2 DEF Rebinds
      <4> QED BY <1>4, <4>1, <4>3
    <3>2. Len(d) = 1 /\ DOMAIN d = {1} /\ d[1] = fails
      BY <3>1
    <3>3. update # <<>>
      <4>1. ToSet(<<>>) = {}
        BY SetsOfTuples
      <4> QED BY <2>1, <4>1
    <3> QED BY <1>7, <2>1, <3>2, <3>3
  <2>2. CASE fails \notin ToSet(update)
    <3>1. ASSUME update # <<>> PROVE update[Len(update)] \in ToSet(update)
      <4>1. Len(update) \in DOMAIN update
        <5>1. update \in Seq(ToSet(update))
          BY <1>6 DEF SoundCalls
        <5>2. Len(update) # 0
          BY <3>1, <5>1
        <5> QED BY <1>7, <5>2
      <4> QED BY <4>1 DEF ToSet
    <3> QED BY <2>2, <3>1
  <2> QED BY <2>1, <2>2
<1>18. \A x \in {"default", "db", "new"} : Bound(w, x) /\ fails \notin ToSet(update) =>
         /\ s.bindings # w.bindings => Sure(update, w.name, x, w.bindings[EndpointOf(x)], "exactly")
         /\ x # "new" \/ s.revision = w.revision => Still(update, w.name, x, w.bindings[EndpointOf(x)], "exactly")
  BY <1>16
<1> QED BY <1>1, <1>6, <1>10, <1>11, <1>12, <1>13, <1>14, <1>15, <1>17, <1>18 DEF option

LEMMA ApplicationUpdates ==
  ASSUME kind = "application", pc # "create", NoneIsNoValue, ThereInv, WholeAt(there),
         NEW w \in Configs, NEW s, IsState(s), Proper(s), ~Replaced(s, w), NewKnown(s)
  PROVE  Updates(s, w)
<1> DEFINE key == w.name
           app == there[key]
           update == UpdateApplication(s, w, app)
           state == StateOf(s.id, w)
           d == see(key, [name |-> key])
           body == update \o <<d>>
           cs == Update(s, Plan(s, w))
<1>1. Plan(s, w) = w /\ kind \in ByName /\ s.name = w.name
  BY DEF Plan, ByName, AllKinds, Replaced, AppReplaced
<1>2. KeysOf(s) = {key} /\ Proper(state) /\ KeysOf(state) = {key} /\ key \in Keys
  BY <1>1, StaysNamed, ProperNamed
<1>3. cs = IF update # <<>> /\ update[Len(update)] = fails THEN update ELSE update \o <<d, returns(state)>>
  BY <1>1 DEF Update, AppUpdate
<1>4. ASSUME "unseen" \notin touched, app # None PROVE AppWhole(app) /\ (s.revision # 2 => app.new = None)
  BY <1>2, <1>4 DEF NewKnown
<1>5. app # None => app.name = key
  BY <1>1, <1>2 DEF ThereInv
<1>6. CASE app = None
  <2>1. update = <<fails>>
    BY <1>6 DEF UpdateApplication
  <2> HIDE DEF update
  <2>2. update # <<>> /\ Len(update) = 1 /\ update[1] = fails
    BY <2>1
  <2>3. cs = <<fails>>
    BY <1>3, <2>1, <2>2
  <2> HIDE DEF cs
  <2>4. SoundCalls(cs) /\ ToSet(cs) = {fails} /\ SoftLast(cs) /\ ~AtWork(cs)
    BY <2>3, FailsOnly
  <2>5. \A c \in ToSet(cs) : Heeds(c, s, w) /\ c.op \notin Making
    BY <2>4, Singles DEF Heeds, Setting, Making
  <2> QED BY <1>2, <1>6, <2>4, <2>5 DEF Updates, cs
<1>7. CASE app # None
  <2>1. "unseen" \in touched \/ AppWhole(app)
    BY <1>4, <1>7
  <2>2. /\ SoundCalls(update) /\ Unmoved(update)
        /\ \A f \in ToSet(update) : \/ Recharms(f, s, w, app)
                                    \/ s.config # w.config /\ (f.op = "check" \/ Sets(f, w))
                                    \/ Rebinds(f, s, w, app)
                                    \/ f = fails
        /\ \A v, how : Still(update, key, "name", v, how)
        /\ w.resource # None => Sure(update, key, "resource", w.resource, "exactly")
        /\ Still(update, key, "revision", w.revision, "exactly")
        /\ s.revision # w.revision => Sure(update, key, "revision", w.revision, "exactly")
        /\ \A v, how : s.config # w.config /\ Ok("config", w.config, v, how) => Sure(update, key, "config", v, how)
        /\ \A v, how : (Ok("config", w.config, v, how) /\ Ok("config", IF w.revision = 2 THEN app.config ELSE None, v, how))
                          => Still(update, key, "config", v, how)
        /\ \A x \in {"default", "db", "new"} : Bound(w, x) /\ fails \notin ToSet(update) =>
             /\ s.bindings # w.bindings => Sure(update, key, x, w.bindings[EndpointOf(x)], "exactly")
             /\ x # "new" \/ s.revision = w.revision => Still(update, key, x, w.bindings[EndpointOf(x)], "exactly")
        /\ IF fails \in ToSet(update) THEN update # <<>> /\ update[Len(update)] = fails
           ELSE ~(update # <<>> /\ update[Len(update)] = fails)
    BY <1>7, <2>1, AppUpdateCalls
  <2>3. d.op = "see" /\ d.soft = <<>> /\ SoundCall(d) /\ \A k, x, v, how : Spares(d, k, x, v, how)
    BY Singles, IdleCalls DEF Idle
  <2> HIDE DEF update, d, state, cs
  <2>4. \A f \in ToSet(update) \cup {d, returns(state)} :
          Recharms(f, s, w, app) \/ Sets(f, w) \/ Rebinds(f, s, w, app) \/ f.op # "set"
    BY <2>2, <2>3, Singles
  <2>0. \A f \in ToSet(update) \cup {d, returns(state)} : f.op \notin Making
    <3>1. \A f \in ToSet(update) : f.op \in {"set", "check", "fails"}
      BY <2>2, Singles DEF Recharms, Sets, Rebinds
    <3> QED BY <2>3, <3>1, Singles DEF Making
  <2>5. ASSUME Holds(s, w, app), "unseen" \notin touched, NEW f \in ToSet(update) \cup {d, returns(state)}
        PROVE  Heeds(f, s, w)
    <3>1. \A c : c.op \notin Setting \cup {"move"} => Heeds(c, s, w)
      BY DEF Heeds
    <3>2. Heeds(fails, s, w) /\ Heeds(d, s, w) /\ Heeds(returns(state), s, w) /\ (f.op = "check" => Heeds(f, s, w))
      BY <2>3, <3>1, Singles DEF Setting, Making
    <3>3. \A c : (Recharms(c, s, w, app) \/ (s.config # w.config /\ Sets(c, w)) \/ Rebinds(c, s, w, app)) => Heeds(c, s, w)
      BY <1>4, <1>7, <2>5, AppHeeds
    <3>4. \/ f = d \/ f = returns(state)
          \/ f \in ToSet(update)
      BY <2>5
    <3>5. f \in ToSet(update) => \/ Recharms(f, s, w, app)
                                 \/ s.config # w.config /\ (f.op = "check" \/ Sets(f, w))
                                 \/ Rebinds(f, s, w, app)
                                 \/ f = fails
      BY <2>2
    <3>6. (Recharms(f, s, w, app) \/ (s.config # w.config /\ Sets(f, w)) \/ Rebinds(f, s, w, app)) => Heeds(f, s, w)
      BY <3>3
    <3>7. f = fails => Heeds(f, s, w)
      BY <3>2
    <3>8. f \in ToSet(update) => Heeds(f, s, w)
      BY <3>2, <3>5, <3>6, <3>7
    <3>9. f = d \/ f = returns(state) => Heeds(f, s, w)
      BY <3>2
    <3> QED BY <3>4, <3>8, <3>9
  <2>6. CASE fails \in ToSet(update)
    <3>1. cs = update
      BY <1>3, <2>2, <2>6
    <3>2. SoftLast(cs) /\ ~AtWork(cs)
      <4>1. ~Good(fails)
        BY Singles DEF Good
      <4> QED BY <2>2, <2>6, <3>1, <4>1, NotSoft DEF AtWork
    <3>3. "unseen" \notin touched => HasNew(cs, app)
      BY <1>4, <1>7, <2>4, <3>1, AppHasNew
    <3>4. Sighted /\ Holding(s, w) => \A c \in ToSet(cs) : Heeds(c, s, w)
      BY <1>2, <1>7, <2>5, <3>1 DEF Sighted, Holding
    <3>5. SoundCalls(cs)
      BY <2>2, <3>1
    <3>6. \A k \in KeysOf(s) : there[k] = app
      BY <1>2
    <3>7. \A c \in ToSet(cs) : c.op \notin Making
      BY <2>0, <3>1
    <3> HIDE DEF app
    <3> QED BY <3>2, <3>3, <3>4, <3>5, <3>6, <3>7 DEF Updates, cs
  <2>7. CASE fails \notin ToSet(update)
    <3>1. cs = body \o <<returns(state)>>
      <4>1. cs = update \o <<d, returns(state)>>
        BY <1>3, <2>2, <2>7
      <4> QED BY <2>2, <4>1, SoundLastTwo
    <3>2. /\ SoundCalls(body) /\ Unmoved(body) /\ ToSet(body) = ToSet(update) \cup {d}
          /\ \A k, x, v, how : /\ Still(update, k, x, v, how) => Still(body, k, x, v, how)
                               /\ Sure(update, k, x, v, how) => Sure(body, k, x, v, how)
      <4> DEFINE end == <<d>>
      <4>1. SoundCalls(end) /\ Unmoved(end) /\ ToSet(end) = {d} /\ \A k, x, v, how : Still(end, k, x, v, how)
        BY <2>3, SoundTuples, SureTuples, SetsOfTuples
      <4> HIDE DEF end
      <4>2. /\ SoundCalls(update \o end) /\ ToSet(update \o end) = ToSet(update) \cup ToSet(end)
            /\ \A k, x, v, how : /\ Still(update, k, x, v, how) /\ Still(end, k, x, v, how) => Still(update \o end, k, x, v, how)
                                 /\ Sure(update, k, x, v, how) /\ Still(end, k, x, v, how) => Sure(update \o end, k, x, v, how)
            /\ Unmoved(update) /\ Unmoved(end) => Unmoved(update \o end)
        BY <2>2, <4>1, SoundTogether
      <4> QED BY <2>2, <4>1, <4>2 DEF end
    <3> HIDE DEF body
    <3>3. SoundCalls(cs) /\ ToSet(cs) = ToSet(update) \cup {d, returns(state)} /\ SoftLast(cs)
      <4>1. LET all == body \o <<returns(state)>> IN
            SoundCalls(all) /\ ToSet(all) = ToSet(body) \cup {returns(state)}
        BY <1>2, <3>2, Handler
      <4>2. SoundCalls(cs) /\ ToSet(cs) = ToSet(update) \cup {d, returns(state)}
        BY <3>1, <3>2, <4>1
      <4>3. kind # "model"
        OBVIOUS
      <4> QED BY <4>2, <4>3, NotSoft
    <3>4. ASSUME Holds(s, w, app), "unseen" \notin touched, NEW x \in {"default", "db", "new"}, Bound(w, x)
          PROVE  Lands(body, there, key, x, w.bindings[EndpointOf(x)], "exactly")
      <4> DEFINE v == w.bindings[EndpointOf(x)]
      <4>1. /\ s.bindings # w.bindings => Sure(update, key, x, v, "exactly")
            /\ x # "new" \/ s.revision = w.revision => Still(update, key, x, v, "exactly")
        BY <2>2, <2>7, <3>4
      <4>2. /\ s.bindings = w.bindings => app[x] = v
            /\ s.bindings = w.bindings /\ x = "new" => s.revision = w.revision
        BY <1>4, <1>7, <3>4, AppHeeds
      <4> HIDE DEF v
      <4>3. s.bindings = w.bindings => Is(there, key, x, v, "exactly") /\ Still(update, key, x, v, "exactly")
        BY <4>1, <4>2 DEF Is, Ok
      <4> QED BY <3>2, <4>1, <4>3 DEF Lands, v
    <3>5. ASSUME Informed(s, w), "unseen" \notin touched PROVE Gets(cs, there, w)
      <4>1. /\ s.revision = app.revision
            /\ app.config # None => s.config = app.config
            /\ Holds(s, w, app)
        BY <1>2, <1>7, <3>5 DEF Informed, Seeing, Visible, Hiding, Holding
      <4>2. Lands(body, there, key, "name", w.name, "exactly")
        BY <1>5, <1>7, <2>2, <3>2 DEF Lands, Is, Ok
      <4>3. Lands(body, there, key, "revision", w.revision, "exactly")
        BY <2>2, <3>2, <4>1 DEF Lands, Is, Ok
      <4>4. w.resource # None => Lands(body, there, key, "resource", w.resource, "exactly")
        BY <2>2, <3>2 DEF Lands
      <4>5. Lands(body, there, key, "config", w.config, "exactly")
        <5>1. \A v : Ok("config", v, v, "exactly")
          BY DEF Ok
        <5>2. CASE s.config # w.config
          BY <2>2, <3>2, <5>1, <5>2 DEF Lands
        <5>3. CASE s.config = w.config
          <6>1. w.config # None => app.config # None
            BY <1>4, <1>7, <3>5, <4>1, <5>3, AppHeeds
          <6>2. app.config = w.config
            BY <4>1, <5>3, <6>1
          <6>3. w.revision # 2 => w.config = None
            BY AppShape
          <6>4. Still(update, key, "config", w.config, "exactly")
            BY <2>2, <6>2, <6>3, <5>1
          <6>5. Is(there, key, "config", w.config, "exactly")
            BY <6>2 DEF Is, Ok
          <6> QED BY <3>2, <6>4, <6>5 DEF Lands
        <5> QED BY <5>2, <5>3
      <4>6. ASSUME NEW x \in DOMAIN Asked(w) PROVE Lands(body, there, key, x, Asked(w)[x], "exactly")
        <5>1. \/ x \in {"name", "revision", "config"} /\ Asked(w)[x] = w[x]
              \/ x = "resource" /\ w.resource # None /\ Asked(w)[x] = w[x]
              \/ x \in {"default", "db", "new"} /\ Bound(w, x) /\ Asked(w)[x] = w.bindings[EndpointOf(x)]
          BY AppShape
        <5>2. CASE x \in {"default", "db", "new"} /\ Bound(w, x) /\ Asked(w)[x] = w.bindings[EndpointOf(x)]
          BY <3>4, <3>5, <4>1, <5>2
        <5>3. CASE x \in {"name", "revision", "config"} /\ Asked(w)[x] = w[x]
          BY <4>2, <4>3, <4>5, <5>3
        <5>4. CASE x = "resource" /\ w.resource # None /\ Asked(w)[x] = w[x]
          BY <4>4, <5>4
        <5> QED BY <5>1, <5>2, <5>3, <5>4
      <4>7. \A k \in KeysOf(state) : there[k] # None
        BY <1>2, <1>7
      <4>8. \A k \in KeysOf(state) : \A x \in DOMAIN Asked(w) : Lands(body, there, k, x, Asked(w)[x], "exactly")
        BY <1>2, <4>6
      <4> QED BY <1>2, <3>1, <3>2, <4>7, <4>8, HandlerGets
    <3>6. ASSUME Holding(s, w), "unseen" \notin touched PROVE Keeps(cs, there, w)
      <4>1. Holds(s, w, app)
        BY <1>2, <1>7, <3>6 DEF Holding
      <4>2. Lands(body, there, key, "config", w.config, "allowed")
        <5>1. \A v, y : Allows("config", v, y) <=> (v # None => y # None)
          BY AppShape
        <5>2. \A y : Ok("config", y, w.config, "allowed") <=> (w.config # None => y # None)
          BY <5>1 DEF Ok
        <5>3. CASE s.config # w.config
          BY <2>2, <3>2, <5>2, <5>3 DEF Lands
        <5>4. CASE s.config = w.config
          <6>1. w.config # None => app.config # None
            BY <1>4, <1>7, <3>6, <4>1, <5>4, AppHeeds
          <6>2. w.revision # 2 => w.config = None
            BY AppShape
          <6>3. Still(update, key, "config", w.config, "allowed")
            BY <2>2, <5>2, <6>1, <6>2
          <6>4. Is(there, key, "config", w.config, "allowed")
            BY <5>2, <6>1 DEF Is
          <6> QED BY <3>2, <6>3, <6>4 DEF Lands
        <5> QED BY <5>3, <5>4
      <4>3. ASSUME NEW x \in {"default", "db", "new"} PROVE Lands(body, there, key, x, w.bindings, "allowed")
        <5>1. \A y : Allows(x, w.bindings, y) <=> (Bound(w, x) => y = w.bindings[EndpointOf(x)])
          BY AppAllows
        <5>2. CASE Bound(w, x)
          <6> DEFINE v == w.bindings[EndpointOf(x)]
          <6>1. Lands(body, there, key, x, v, "exactly") /\ Allows(x, w.bindings, v)
            BY <3>4, <3>6, <4>1, <5>1, <5>2
          <6> HIDE DEF v
          <6> QED BY <6>1, ExactlyAllowed
        <5>3. CASE ~Bound(w, x)
          <6>1. \A y : Allows(x, w.bindings, y)
            BY <5>1, <5>3
          <6>2. Still(body, key, "name", 0, "exactly")
            BY <2>2, <3>2
          <6> QED BY <6>1, <6>2, AnythingAllowed
        <5> QED BY <5>2, <5>3
      <4>4. /\ HiddenFields = {"config", "default", "db", "new"}
            /\ In("config") = "config" /\ In("default") = "bindings" /\ In("db") = "bindings" /\ In("new") = "bindings"
        BY AppShape
      <4>5. \A x \in HiddenFields : Lands(body, there, key, x, w[In(x)], "allowed")
        BY <4>2, <4>3, <4>4
      <4>6. \A k \in KeysOf(state) : \A x \in HiddenFields : Lands(body, there, k, x, w[In(x)], "allowed")
        BY <1>2, <4>5
      <4> QED BY <1>2, <3>1, <3>2, <4>6, HandlerGets
    <3>7. "unseen" \notin touched => HasNew(cs, app)
      BY <1>4, <1>7, <2>4, <3>3, AppHasNew
    <3>8. Holding(s, w) => Holds(s, w, app)
      BY <1>2, <1>7 DEF Holding
    <3>9. Sighted /\ Holding(s, w) => Keeps(cs, there, w) /\ \A c \in ToSet(cs) : Heeds(c, s, w)
      BY <2>5, <3>3, <3>6, <3>8 DEF Sighted
    <3>10. \A k \in KeysOf(s) : there[k] = app
      BY <1>2
    <3>11. \A c \in ToSet(cs) : c.op \notin Making
      BY <2>0, <3>3
    <3> HIDE DEF app
    <3> QED BY <3>3, <3>5, <3>7, <3>9, <3>10, <3>11 DEF Updates, cs
  <2> QED BY <2>6, <2>7
<1> QED BY <1>6, <1>7

\* So do the calls of Update, of every kind and from any state, when the objects are
\* as Read has found them (Seeing) and as the state and the configuration have them,
\* where these agree (Holding); and they change no field in which these agree.
THEOREM HandlersUpdate ==
  ASSUME NoneIsNoValue, kind \in AllKinds, pc = "update", ThereInv, WholeAt(there), NEW w \in Configs,
         NEW s, s # None, IsState(s), Shaped(s), Proper(s), ~Replaced(s, Plan(s, w)), NewKnown(s),
         kind \in NamedKinds => NamesAt(there) /\ IsNamed(s)
  PROVE  Updates(s, w)
<1>1. kind \notin {"ssh_key", "model"} => ~Replaced(s, w)
  BY DEF Plan
<1>2. CASE kind \in {"user", "cloud", "kubernetes_cloud", "offer", "storage_pool"}
  BY <1>1, <1>2, UserUpdates, CloudUpdates, KubernetesCloudUpdates, OfferUpdates, StoragePoolUpdates
<1>3. CASE kind \in {"ssh_key", "jaas_controller", "space", "subnet", "credential", "machine"}
  BY <1>1, <1>3, SSHKeyUpdates, RefusedUpdates, SubnetUpdates, CredentialUpdates, MachineUpdates
<1>4. CASE kind \in {"group", "role", "secret_backend", "secret"}
  BY <1>4, GroupUpdates, SecretBackendUpdates, SecretUpdates DEF NamedKinds
<1>5. CASE kind \in {"controller", "model", "application"}
  BY <1>1, <1>5, ControllerUpdates, ModelUpdates, ApplicationUpdates
<1> QED BY <1>2, <1>3, <1>4, <1>5 DEF AllKinds

-----------------------------------------------------------------------------
(* The calls of Delete.                                                    *)

DeletingCall(c) ==
  \/ c.op \in Idle \cup Removing \cup {"destroy", "doom", "gone"}
  \/ c.op = "set" /\ kind \in {"space", "subnet"}
AllDelete(cs) == cs \in Seq(ToSet(cs)) /\ \A c \in ToSet(cs) : DeletingCall(c)

LEMMA DeletingSingles ==
  /\ \A k : /\ DeletingCall(remove(k)) /\ DeletingCall(removeNamed(k)) /\ DeletingCall(drop(k))
            /\ DeletingCall(destroy(k)) /\ DeletingCall(doom(k)) /\ DeletingCall(gone(k))
  /\ \A k, v : DeletingCall(see(k, v)) /\ (kind \in {"space", "subnet"} => DeletingCall(set(k, v)))
  /\ \A v : DeletingCall(returns(v))
  /\ DeletingCall(fails)
  /\ \A c, skip : DeletingCall(c) => DeletingCall(skippable(c, skip))
<1>1. \A op, k, v : op \in Idle \cup Removing \cup {"destroy", "doom", "gone"} => DeletingCall(Call(op, k, v))
  BY DEF DeletingCall, Call
<1>2. ASSUME NEW c, NEW skip, DeletingCall(c) PROVE DeletingCall(skippable(c, skip))
  <2>1. \A v : [c EXCEPT !.soft = v].op = c.op
    OBVIOUS
  <2> QED BY <1>2, <2>1 DEF DeletingCall, skippable, soft
<1>3. \A k, v : kind \in {"space", "subnet"} => DeletingCall(set(k, v))
  BY DEF DeletingCall, set, Call
<1> QED BY <1>1, <1>2, <1>3
        DEF remove, removeNamed, drop, destroy, doom, gone, see, returns, fails, Idle, Removing

LEMMA DeletingTuples ==
  /\ AllDelete(<<>>)
  /\ \A c : DeletingCall(c) => AllDelete(<<c>>)
  /\ \A c, d : DeletingCall(c) /\ DeletingCall(d) => AllDelete(<<c, d>>)
  /\ \A s, t : AllDelete(s) /\ AllDelete(t) => AllDelete(s \o t)
<1>1. ASSUME NEW s, NEW t, AllDelete(s), AllDelete(t) PROVE AllDelete(s \o t)
  <2>1. s \o t \in Seq(ToSet(s \o t)) /\ ToSet(s \o t) = ToSet(s) \cup ToSet(t)
    BY <1>1, SetsTogether DEF AllDelete
  <2> QED BY <1>1, <2>1 DEF AllDelete
<1> QED BY <1>1, SetsOfTuples DEF AllDelete

LEMMA HandlersDelete ==
  ASSUME kind \in AllKinds, NEW s
  PROVE  AllDelete(Delete(s))
<1>1. ASSUME NEW c, DeletingCall(c) PROVE AllDelete(<<c, returns(None)>>)
  BY <1>1, DeletingSingles, DeletingTuples
<1>2. AllDelete(<<returns(None)>>)
  BY DeletingSingles, DeletingTuples
<1>3. CASE kind \in {"user", "group", "role", "jaas_controller"}
  BY <1>1, <1>3, DeletingSingles
     DEF Delete, UserDelete, DestroyUser, GroupDelete, RemoveGroup, RoleDelete, RemoveRole, JAASControllerDelete, RemoveController
<1>4. CASE kind \in {"cloud", "kubernetes_cloud", "secret_backend", "secret", "ssh_key"}
  BY <1>1, <1>4, DeletingSingles
     DEF Delete, CloudDelete, RemoveCloud, KubernetesCloudDelete, SecretBackendDelete, RemoveSecretBackend,
         SecretDelete, DeleteSecret, SSHKeyDelete, DeleteSSHKey
<1>5. CASE kind = "credential"
  <2>1. AllDelete(IF s.id.controller THEN <<remove("controller")>> ELSE <<>>)
    BY DeletingSingles, DeletingTuples
  <2>2. AllDelete(IF s.id.client THEN <<remove("client")>> ELSE <<>>)
    BY DeletingSingles, DeletingTuples
  <2>3. AllDelete(DestroyCredential(s.id))
    BY <2>1, <2>2, DeletingTuples DEF DestroyCredential
  <2>4. AllDelete(DestroyCredential(s.id) \o <<returns(None)>>)
    BY <1>2, <2>3, DeletingTuples
  <2> QED BY <1>5, <2>4 DEF Delete, CredentialDelete
<1>6. CASE kind = "offer"
  <2>1. \A force : AllDelete(DestroyOffer(s.id, force))
    BY DeletingSingles, DeletingTuples DEF DestroyOffer
  <2>2. AllDelete(DestroyOffer(s.id, s.force = TRUE) \o <<returns(None)>>)
    BY <1>2, <2>1, DeletingTuples
  <2> QED BY <1>6, <2>2 DEF Delete, OfferDelete
<1>7. CASE kind = "space"
  <2>1. AllDelete(moveAllSubnetsToAlpha(s.name, there))
    BY <1>7, DeletingSingles, DeletingTuples DEF moveAllSubnetsToAlpha
  <2>2. AllDelete(<<drop(s.name)>>)
    BY DeletingSingles, DeletingTuples
  <2>3. AllDelete(DeleteSpace(s.name, there))
    BY <2>1, <2>2, DeletingTuples DEF DeleteSpace
  <2>4. AllDelete(<<gone(s.name), returns(None)>>)
    BY <1>1, DeletingSingles
  <2>5. AllDelete(DeleteSpace(s.name, there) \o <<gone(s.name), returns(None)>>)
    BY <2>3, <2>4, DeletingTuples
  <2> QED BY <1>7, <2>5 DEF Delete, SpaceDelete
<1>8. CASE kind = "subnet"
  <2>1. AllDelete(MovedTo(s.name, "alpha"))
    BY <1>8, DeletingSingles, DeletingTuples DEF MovedTo, MoveSubnetToSpace
  <2>2. AllDelete(MovedTo(s.name, "alpha") \o <<returns(None)>>)
    BY <1>2, <2>1, DeletingTuples
  <2> QED BY <1>2, <1>8, <2>2 DEF Delete, SubnetDelete
<1>9. CASE kind \in {"storage_pool", "model", "application"}
  <2>1. ASSUME NEW c, NEW d, DeletingCall(c), DeletingCall(d) PROVE AllDelete(<<c, d, returns(None)>>)
    <3>1. <<c>> \o <<d, returns(None)>> = <<c, d, returns(None)>>
      BY Tuples
    <3>2. AllDelete(<<c>>) /\ AllDelete(<<d, returns(None)>>)
      BY <1>1, <2>1, DeletingTuples
    <3> QED BY <3>1, <3>2, DeletingTuples
  <2> QED BY <1>9, <2>1, DeletingSingles DEF Delete, StoragePoolDelete, RemovePool, ModelDelete, AppDelete
<1>10. CASE kind = "machine"
  <2> DEFINE key == modelMachineIDAndName(s.id).machine
             d == DestroyMachine(key)
             g == skippable(gone(key), setting.skip)
  <2>1. DeletingCall(d) /\ DeletingCall(g)
    BY DeletingSingles DEF DestroyMachine
  <2>2. Delete(s) = <<d, d, g, returns(None)>>
    BY <1>10 DEF Delete, MachineDelete
  <2> HIDE DEF d, g
  <2>3. <<d, d>> \o <<g, returns(None)>> = <<d, d, g, returns(None)>>
    BY TwoTuples, Zenon
  <2>4. AllDelete(<<d, d>>) /\ AllDelete(<<g, returns(None)>>)
    BY <1>1, <2>1, DeletingTuples
  <2> QED BY <2>2, <2>3, <2>4, DeletingTuples
<1>11. CASE kind = "controller"
  <2> DEFINE c == IF checkVersionsMatch(s.binary, s.version) THEN remove(s.uuid) ELSE fails
  <2>1. DeletingCall(c)
    BY DeletingSingles
  <2>2. Delete(s) = <<skippable(c, setting.skip), returns(None)>>
    BY <1>11 DEF Delete, ControllerDelete
  <2> HIDE DEF c
  <2> QED BY <1>1, <2>1, <2>2, DeletingSingles
<1> QED BY <1>3, <1>4, <1>5, <1>6, <1>7, <1>8, <1>9, <1>10, <1>11 DEF AllKinds

LEMMA DeletingIsSound ==
  ASSUME NEW c, DeletingCall(c), pc = "delete"
  PROVE  /\ KeepsWhole(c)
         /\ kind \in Hiding => c.op \notin Setting \cup Renaming
BY DEF DeletingCall, KeepsWhole, Making, Removing, Idle, Setting, Renaming, Hiding, OneName

-----------------------------------------------------------------------------
(* What Read finds.                                                        *)

Finds(s, state, k) ==
  /\ kind # "credential" => there[k] # None
  /\ there[k] # None =>
       /\ Visible(state, there[k])
       /\ \A x \in HiddenFields : state[In(x)] = s[In(x)] \/ Allows(x, state[In(x)], there[k][x])
Shape(s) == s = [x \in StateFields |-> s[x]]

\* A state stays a record of all of its fields.
LEMMA ReadsShape ==
  ASSUME kind \in AllKinds, NEW s, Shape(s), NEW state \in ReadOf(s), state # None
  PROVE  Shape(state) /\ (kind \notin ByName => KeysOf(state) = KeysOf(s))
<1>1. CASE kind \in {"user", "cloud", "kubernetes_cloud", "secret_backend"}
  BY <1>1 DEF ReadOf, UserRead, CloudRead, KubernetesCloudRead, SecretBackendRead, Shape, ByName
<1>2. CASE kind \in {"group", "role", "jaas_controller"}
  BY <1>2 DEF ReadOf, GroupRead, RoleRead, JAASControllerRead, Shape, ByName, KeysOf, AllKinds, StateFields
<1>3. CASE kind \in {"offer", "space", "subnet", "storage_pool", "ssh_key", "application"}
  BY <1>3 DEF ReadOf, OfferRead, SpaceRead, SubnetRead, StoragePoolRead, SSHKeyRead, AppRead, Shape, ByName, AllKinds
<1>4. CASE kind \in {"secret", "model"}
  BY <1>4 DEF ReadOf, SecretRead, ModelRead, Shape, KeysOf, StateFields
<1>5. CASE kind \in {"machine", "controller"}
  BY <1>5 DEF ReadOf, MachineRead, ControllerRead, Shape, KeysOf, StateFields
<1>6. CASE kind = "credential"
  <2>1. PICK c : state = StateOf(s.id, [name |-> c.name, auth |-> c.auth, client |-> s.id.client, controller |-> s.id.controller])
    BY <1>6 DEF ReadOf, CredentialRead
  <2> QED BY <1>6, <2>1 DEF StateOf, Shape, KeysOf, StateFields
<1> QED BY <1>1, <1>2, <1>3, <1>4, <1>5, <1>6 DEF AllKinds

LEMMA NamedFinds ==
  ASSUME kind \in ByName \ {"application", "jaas_controller"}, NEW s, IsState(s), Shape(s),
         NEW state \in ReadOf(s), state # None, NEW k \in KeysOf(s), there[k] # None => Whole(there[k])
  PROVE  Finds(s, state, k)
<1>1. k = s.name /\ s.id = s.name
  BY NamedKeys DEF IsState
<1>2. CASE kind = "user"
  <2>1. there[k] # None /\ state.password = s.password
    BY <1>1, <1>2 DEF ReadOf, UserRead, ReadUser, Shape, StateFields
  <2> QED BY <1>2, <2>1 DEF Finds, Visible, HiddenFields, In
<1>3. CASE kind = "cloud"
  <2>1. there[k] # None /\ state.storage = there[k].storage
    <3> DEFINE out == ReadCloud(s.name, there)
               regions == listed(there[s.name].regions)
    <3>1. out # None /\ state = [s EXCEPT !.storage = out.storage, !.regions = orderedRegions(@, out.regions)]
      BY <1>3 DEF ReadOf, CloudRead
    <3>2. there[s.name] # None /\ out = [there[s.name] EXCEPT !.regions = regions]
      BY <3>1 DEF ReadCloud
    <3>3. out.storage = there[s.name].storage
      <4>1. "storage" \in DOMAIN there[s.name]
        BY <1>1, <1>3, <3>2 DEF Whole, FieldsOf
      <4> HIDE DEF regions
      <4> QED BY <3>2, <4>1
    <3> HIDE DEF out
    <3> QED BY <1>1, <1>3, <3>1, <3>2, <3>3 DEF Shape, StateFields
  <2> QED BY <1>3, <2>1 DEF Finds, Visible, HiddenFields
<1>4. CASE kind \in {"kubernetes_cloud", "space", "ssh_key"}
  <2>1. there[k] # None
    BY <1>1, <1>4 DEF ReadOf, KubernetesCloudRead, ReadKubernetesCloud, SpaceRead, ReadSpace, SSHKeyRead, ReadSSHKey
  <2> QED BY <1>4, <2>1 DEF Finds, Visible, HiddenFields
<1>5. CASE kind = "secret_backend"
  <2>1. there[k] # None /\ state.version = s.version
    BY <1>1, <1>5 DEF ReadOf, SecretBackendRead, GetSecretBackend, Shape, StateFields
  <2> QED BY <1>5, <2>1 DEF Finds, Visible, HiddenFields, In
<1>6. CASE kind = "offer"
  <2>1. there[k] # None /\ state.endpoints = there[k].endpoints
    <3>1. "endpoints" \in DOMAIN s
      BY <1>6 DEF Shape, StateFields
    <3>2. there[s.id] # None /\ state = [s EXCEPT !.name = there[s.id].name, !.endpoints = there[s.id].endpoints]
      BY <1>6 DEF ReadOf, OfferRead, ReadOffer
    <3> QED BY <1>1, <3>1, <3>2
  <2> QED BY <1>6, <2>1 DEF Finds, Visible, HiddenFields
<1>7. CASE kind = "subnet"
  <2>1. there[k] # None
    BY <1>1, <1>7 DEF ReadOf, SubnetRead, ReadSubnet
  <2> QED BY <1>7, <2>1 DEF Finds, Visible, HiddenFields
<1>8. CASE kind = "storage_pool"
  <2>1. there[k] # None /\ state.provider = there[k].provider
    BY <1>1, <1>8 DEF ReadOf, StoragePoolRead, GetPool, Shape, StateFields
  <2> QED BY <1>8, <2>1 DEF Finds, Visible, HiddenFields
<1> QED BY <1>2, <1>3, <1>4, <1>5, <1>6, <1>7, <1>8 DEF ByName, AllKinds

LEMMA OtherFinds ==
  ASSUME NoneIsNoValue, kind \in {"credential", "group", "role", "secret", "machine", "jaas_controller"}, ThereInv,
         NEW s, IsState(s), Shape(s),
         NEW state \in ReadOf(s), state # None, NEW k \in KeysOf(s), there[k] # None => Whole(there[k])
  PROVE  Finds(s, state, k)
<1>1. CASE kind = "credential"
  BY <1>1 DEF Finds, Visible, HiddenFields
<1>2. CASE kind \in {"group", "role"}
  <2>1. k = s.id /\ there[k] # None /\ state.name = there[k].name
    <3>1. "name" \in DOMAIN s /\ k = s.id
      BY <1>2 DEF Shape, StateFields, KeysOf
    <3>2. there[s.id] # None /\ state = [s EXCEPT !.name = there[s.id].name]
      BY <1>2 DEF ReadOf, GroupRead, RoleRead, ReadGroupByUUID, ReadRoleByUUID
    <3> QED BY <3>1, <3>2
  <2> QED BY <1>2, <2>1 DEF Finds, Visible, HiddenFields
<1>3. CASE kind = "machine"
  <2>1. there[k] # None /\ state.constraints = there[k].constraints /\ state.annotations = there[k].annotations
    <3> DEFINE key == modelMachineIDAndName(s.id).machine
               n == modelMachineIDAndName(s.id).name
    <3>1. {"name", "constraints", "annotations"} \subseteq DOMAIN s /\ k = key
      BY <1>3 DEF Shape, StateFields, KeysOf
    <3>2. /\ there[key] # None
          /\ state = [s EXCEPT !.name = n, !.constraints = there[key].constraints, !.annotations = there[key].annotations]
      BY <1>3 DEF ReadOf, MachineRead, ReadMachine
    <3> HIDE DEF key, n
    <3> QED BY <3>1, <3>2
  <2> QED BY <1>3, <2>1 DEF Finds, Visible, HiddenFields
<1>4. CASE kind = "jaas_controller"
  <2>1. k = s.name /\ s.id = s.name
    BY <1>4, NamedKeys DEF IsState, ByName, AllKinds
  <2>2. PICK j \in Names : there[j] # None /\ there[j].name = s.id
    BY <1>4 DEF ReadOf, JAASControllerRead, ListControllers
  <2>3. there[j].name = j
    BY <1>4, <2>2 DEF ThereInv, ByName, AllKinds, Keys
  <2> QED BY <1>4, <2>1, <2>2, <2>3 DEF Finds, Visible, HiddenFields
<1>5. CASE kind = "secret"
  <2> DEFINE secret == there[s.id]
  <2>1. k = s.id /\ secret # None
    BY <1>5 DEF KeysOf, ReadOf, SecretRead, ReadSecret
  <2>2. /\ state.name = (IF s.name = None THEN None ELSE secret.name)
        /\ state.info = (IF s.info = None THEN None ELSE secret.info)
        /\ state.value = (IF s.value = None THEN None ELSE IF secret.content[1] = "plain" THEN secret.content[2] ELSE 0)
        /\ state.version = s.version
    BY <1>5 DEF ReadOf, SecretRead, ReadSecret, Shape, StateFields
  <2>3. IsContent(secret.content)
    BY <1>5, <2>1 DEF Whole
  <2> HIDE DEF secret
  <2>4. state.value \notin {None, 0} => secret.content = <<"plain", state.value>>
    BY <2>2, <2>3 DEF IsContent
  <2>5. Visible(state, secret)
    BY <1>5, <2>2, <2>4 DEF Visible
  <2> QED BY <1>5, <2>1, <2>2, <2>5 DEF Finds, HiddenFields, In, secret
<1> QED BY <1>1, <1>2, <1>3, <1>4, <1>5

LEMMA HostFinds ==
  ASSUME NoneIsNoValue, kind \in {"model", "controller"},
         NEW s, IsState(s), Shape(s),
         NEW state \in ReadOf(s), state # None, NEW k \in KeysOf(s), there[k] # None => Whole(there[k])
  PROVE  Finds(s, state, k)
<1>1. CASE kind = "model"
  <2> DEFINE model == there[s.id]
             constraints == IF model.constraints = None THEN 0 ELSE model.constraints
  <2>1. k = s.id /\ model # None
    BY <1>1 DEF KeysOf, ReadOf, ModelRead, ReadModel
  <2>2. /\ state.config = (IF s.config = None \/ model.config = None THEN s.config ELSE model.config)
        /\ \/ state.constraints = None /\ s.constraints = None
           \/ state.constraints = constraints
        /\ state.annotations = (IF model.annotations = None THEN s.annotations ELSE model.annotations)
        /\ state.backend = (IF s.backend = None THEN None ELSE model.backend)
        /\ state.agent = model.agent /\ state.credential = model.credential
    BY <1>1 DEF ReadOf, ModelRead, ReadModel, newConfigFromModelConfigAPI, Shape, StateFields
  <2>3. model.backend # None
    BY <1>1, <2>1 DEF Whole
  <2>4. constraints # None
    BY DEF NoneIsNoValue
  <2> HIDE DEF model
  <2>5. Visible(state, model)
    BY <1>1, <2>2 DEF Visible
  <2>6. HiddenFields = {"config", "annotations", "constraints", "backend"} /\ \A x \in HiddenFields : In(x) = x
    BY <1>1 DEF HiddenFields, In
  <2>7. /\ \A v, y : Allows("constraints", v, y) <=> (v = None => y = None)
        /\ \A v, y : Allows("backend", v, y) <=> (v = None => y = "auto")
        /\ \A v, y : Allows("annotations", v, y) <=> (v # None => y # None)
        /\ \A v, y : Allows("config", v, y) <=> ((v = None) <=> (y = None))
    BY <1>1 DEF Allows
  <2>8. state.config = s.config \/ Allows("config", state.config, model.config)
    BY <2>2, <2>7
  <2>9. state.annotations = s.annotations \/ Allows("annotations", state.annotations, model.annotations)
    BY <2>2, <2>7
  <2>10. state.constraints = s.constraints \/ Allows("constraints", state.constraints, model.constraints)
    BY <2>2, <2>4, <2>7
  <2>11. state.backend = s.backend \/ Allows("backend", state.backend, model.backend)
    BY <2>2, <2>3, <2>7
  <2> QED BY <1>1, <2>1, <2>5, <2>6, <2>8, <2>9, <2>10, <2>11 DEF Finds, model
<1>2. CASE kind = "controller"
  <2> DEFINE c == there[s.uuid]
  <2>1. k = s.uuid /\ c # None
    BY <1>2 DEF KeysOf, ReadOf, ControllerRead, Config
  <2>2. /\ state.config = (IF s.config = None \/ c.config = None THEN s.config ELSE c.config)
        /\ state.modelconfig = (IF s.modelconfig = None \/ c.modelconfig = None THEN s.modelconfig ELSE c.modelconfig)
        /\ state.version = c.version
    BY <1>2 DEF ReadOf, ControllerRead, Config, newConfigFromModelConfigAPI, Shape, StateFields
  <2> HIDE DEF c
  <2>3. Visible(state, c)
    BY <1>2, <2>2 DEF Visible
  <2>4. HiddenFields = {"config", "modelconfig"} /\ \A x \in HiddenFields : In(x) = x
    BY <1>2 DEF HiddenFields, In
  <2>5. /\ \A v, y : Allows("config", v, y) <=> (v # None => y # None)
        /\ \A v, y : Allows("modelconfig", v, y) <=> ((v = None) <=> (y = None))
    BY <1>2 DEF Allows
  <2>6. state.config = s.config \/ Allows("config", state.config, c.config)
    BY <2>2, <2>5
  <2>7. state.modelconfig = s.modelconfig \/ Allows("modelconfig", state.modelconfig, c.modelconfig)
    BY <2>2, <2>5
  <2> QED BY <1>2, <2>1, <2>3, <2>4, <2>6, <2>7 DEF Finds, c
<1> QED BY <1>1, <1>2

LEMMA ApplicationFinds ==
  ASSUME kind = "application", NEW s, IsState(s), Shape(s),
         NEW state \in ReadOf(s), state # None, NEW k \in KeysOf(s), there[k] # None => Whole(there[k])
  PROVE  Finds(s, state, k)
<1> DEFINE app == there[s.id]
           read == ReadBindings(app)
<1>1. k = s.id
  BY NamedKeys DEF IsState, ByName, AllKinds
<1>2. /\ app # None
      /\ state.revision = app.revision
      /\ state.config = (IF app.config = None THEN s.config ELSE app.config)
      /\ state.bindings = (IF read = None THEN s.bindings ELSE read)
  BY DEF ReadOf, AppRead, newConfigFromApplicationAPI, Shape, StateFields
<1>3. read # None => \A e \in DOMAIN read : read[e] = app[FieldOf(e)]
  BY DEF ReadBindings, EndpointBindings
<1>4. \A x \in {"default", "db", "new"} : FieldOf(EndpointOf(x)) = x
  BY DEF FieldOf, EndpointOf, others
<1> HIDE DEF app, read
<1>5. Visible(state, app)
  BY <1>2 DEF Visible
<1>6. HiddenFields = {"config", "default", "db", "new"} /\ In("config") = "config"
      /\ \A x \in {"default", "db", "new"} : In(x) = "bindings"
  BY DEF HiddenFields, In
<1>7. state.config = s.config \/ Allows("config", state.config, app.config)
  BY <1>2 DEF Allows
<1>8. ASSUME NEW x \in {"default", "db", "new"}
      PROVE  state.bindings = s.bindings \/ Allows(x, state.bindings, app[x])
  <2>1. CASE read = None
    BY <1>2, <2>1
  <2>2. CASE read # None
    <3>1. EndpointOf(x) \in DOMAIN read => app[x] = read[EndpointOf(x)]
      BY <1>3, <1>4, <2>2
    <3>2. x # "config"
      OBVIOUS
    <3> QED BY <1>2, <2>2, <3>1, <3>2 DEF Allows
  <2> QED BY <2>1, <2>2
<1> QED BY <1>1, <1>2, <1>5, <1>6, <1>7, <1>8 DEF Finds, app

\* Read, of every kind, returns a state about the same objects, and one that agrees
\* with them in what an Update goes by: it finds all that the state is about.
THEOREM ReadsFind ==
  ASSUME NoneIsNoState, NoneIsNoValue, kind \in AllKinds, ThereInv, WholeAt(there),
         NEW s, IsState(s), Proper(s), NEW state \in ReadOf(s), state # None
  PROVE  /\ IsState(state) /\ Proper(state) /\ KeysOf(state) = KeysOf(s)
         /\ \A k \in KeysOf(s) : Finds(s, state, k)
<1>1. ReadKeeps
  BY HandlersKeep
<1>2. IsState(state)
  <2>1. Readable(s)
    BY DEF IsState
  <2> QED BY <1>1, <2>1 DEF ReadKeeps
<1>3. Shape(s) /\ KeysOf(s) \subseteq Keys
  BY DEF Proper, Shape
<1>4. Shape(state) /\ (kind \notin ByName => KeysOf(state) = KeysOf(s))
  BY <1>3, ReadsShape
<1>5. ASSUME NEW k \in KeysOf(s)
      PROVE  Finds(s, state, k)
  <2>1. there[k] # None => Whole(there[k])
    BY <1>3 DEF WholeAt
  <2>2. CASE kind \in ByName \ {"application", "jaas_controller"}
    BY <1>3, <2>1, <2>2, NamedFinds
  <2>3. CASE kind \in {"credential", "group", "role", "secret", "machine", "jaas_controller"}
    BY <1>3, <2>1, <2>3, OtherFinds
  <2>4. CASE kind \in {"model", "controller"}
    BY <1>3, <2>1, <2>4, HostFinds
  <2>5. CASE kind = "application"
    BY <1>3, <2>1, <2>5, ApplicationFinds
  <2> QED BY <2>2, <2>3, <2>4, <2>5 DEF AllKinds, ByName
<1>6. KeysOf(state) = KeysOf(s)
  <2>1. CASE kind = "subnet"
    <3>1. kind \in ByName
      BY <2>1 DEF ByName, AllKinds
    <3>2. state = [s EXCEPT !.name = s.id, !.space = there[s.id].space]
      BY <2>1 DEF ReadOf, SubnetRead, ReadSubnet
    <3>3. "name" \in DOMAIN s
      BY <1>3, <2>1 DEF Shape, StateFields
    <3>4. s.id = s.name
      BY <3>1 DEF IsState
    <3>5. state.name = s.name
      BY <3>2, <3>3, <3>4
    <3> QED BY <3>1, <3>5, NamedKeys
  <2>2. CASE kind \in ByName \ {"subnet"}
    <3>1. PICK k : KeysOf(s) = {k}
      BY <2>2, NamedKeys
    <3>2. k \in Keys /\ Held(there[k])
      BY <1>3, <1>5, <2>2, <3>1 DEF Finds, Held, ByName
    <3>3. k \in KeysOf(state)
      BY <1>1, <3>1, <3>2 DEF ReadKeeps
    <3> QED BY <2>2, <3>1, <3>3, NamedKeys
  <2> QED BY <1>4, <2>1, <2>2
<1> QED BY <1>2, <1>3, <1>4, <1>5, <1>6 DEF Proper, Shape

\* It returns nothing where there is none.
LEMMA ReadsNothing ==
  ASSUME NoneIsNoState, kind \in AllKinds, ThereInv, NEW s, IsState(s), Proper(s), None \in ReadOf(s)
  PROVE  \E k \in KeysOf(s) : there[k] = None
<1>1. KeysOf(s) \subseteq Keys /\ "id" \in DOMAIN s
  BY DEF Proper, IsState, Readable
<1>2. \A k \in KeysOf(s) : ~Held(there[k])
  BY <1>1, HandlersKeep DEF ReadKeeps
<1>3. kind # "credential"
  <2> SUFFICES ASSUME kind = "credential" PROVE FALSE
    OBVIOUS
  <2>1. \E w : None = StateOf(s.id, w)
    BY DEF ReadOf, CredentialRead
  <2> QED BY <2>1, StateOfID DEF NoneIsNoState
<1>4. kind # "subnet"
  <2> SUFFICES ASSUME kind = "subnet" PROVE FALSE
    OBVIOUS
  <2>1. None = [s EXCEPT !.name = s.id, !.space = there[s.id].space]
    BY DEF ReadOf, SubnetRead, ReadSubnet
  <2>2. DOMAIN None = DOMAIN s
    BY <2>1
  <2> QED BY <1>1, <2>2 DEF NoneIsNoState
<1>5. \E k : k \in KeysOf(s)
  BY <1>3 DEF KeysOf
<1> QED BY <1>2, <1>4, <1>5 DEF Held

\* So does the one after ImportState.
LEMMA ImportsProper ==
  ASSUME NoneIsNoState, kind \in AllKinds, ThereInv, NEW k \in Keys, there[k] # None,
         NEW s \in Importable(k), NEW state \in ReadOf(s), state # None
  PROVE  IsState(state) /\ Proper(state)
<1>1. ReadKeeps
  BY HandlersKeep
<1>2. IsState(state)
  BY <1>1 DEF ReadKeeps
<1>3. Shape(s)
  <2>1. CASE kind \in {"user", "credential", "jaas_controller", "secret_backend", "offer", "space"}
    BY <2>1 DEF Importable, Shape, StateFields, UserImport, CredentialImport, JAASControllerImport, SecretBackendImport, OfferImport, SpaceImport
  <2>2. CASE kind \in {"subnet", "secret", "storage_pool", "machine"}
    BY <2>2 DEF Importable, Shape, StateFields, SubnetImport, SecretImport, StoragePoolImport, MachineImport
  <2>3. CASE kind \in {"model", "controller", "application"}
    BY <2>3 DEF Importable, Shape, StateFields, ModelImport, ControllerImport, AppImport
  <2> QED BY <2>1, <2>2, <2>3 DEF Importable, AllKinds
<1>4. Shape(state) /\ (kind \notin ByName => KeysOf(state) = KeysOf(s))
  BY <1>3, ReadsShape
<1>5. KeysOf(state) \subseteq Keys
  <2>1. CASE kind \in ByName
    <3>1. state.id = state.name /\ state.id \in Keys
      BY <1>2, <2>1 DEF IsState, Readable
    <3> QED BY <2>1, <3>1, NamedKeys
  <2>2. CASE kind = "credential"
    BY <1>4, <2>2 DEF KeysOf, Flagged, Keys, ByName
  <2>3. CASE kind \in {"secret", "model"}
    BY <1>4, <2>3 DEF KeysOf, Importable, SecretImport, ModelImport, ByName
  <2>4. CASE kind = "machine"
    <3>1. \E n : s.id = <<k, n>>
      BY <2>4 DEF Importable, MachineImport, newMachineID
    <3>2. KeysOf(s) = {k}
      BY <2>4, <3>1 DEF KeysOf, modelMachineIDAndName
    <3> QED BY <1>4, <2>4, <3>2 DEF ByName
  <2>5. CASE kind = "controller"
    BY <1>4, <2>5 DEF KeysOf, Importable, ControllerImport, ByName
  <2>6. CASE kind \in {"group", "role"}
    BY <2>6 DEF Importable
  <2> QED BY <2>1, <2>2, <2>3, <2>4, <2>5, <2>6 DEF ByName, AllKinds
<1> QED BY <1>2, <1>4, <1>5 DEF Proper, Shape

-----------------------------------------------------------------------------
(* Fields, and objects of somebody else's.                                 *)

LEMMA AskedFields ==
  ASSUME NoneIsNoValue, kind \in AllKinds, NEW w \in Configs
  PROVE  DOMAIN Asked(w) \subseteq FieldsOf
<1>1. CASE kind \in {"user", "credential", "group", "role", "jaas_controller", "cloud"}
  BY <1>1 DEF Asked, FieldsOf, Only, infoOf, Configs, GroupConfigs, CloudConfigs
<1>2. CASE kind \in {"kubernetes_cloud", "secret_backend", "offer", "space", "subnet"}
  BY <1>2 DEF Asked, FieldsOf, Only, SetIn, Configs, SpaceConfigs, SubnetConfigs
<1>3. CASE kind = "secret"
  BY <1>3 DEF Asked, FieldsOf, SetIn
<1>4. CASE kind \in {"storage_pool", "ssh_key", "machine"}
  BY <1>4 DEF Asked, FieldsOf, Only, Configs, StoragePoolConfigs
<1>5. CASE kind = "model"
  <2>1. \A x \in DOMAIN Asked(w) : x \in {"name", "config", "constraints", "annotations", "backend", "agent", "credential"}
    BY <1>5, ModelAsked
  <2> QED BY <1>5, <2>1 DEF FieldsOf
<1>6. CASE kind = "controller"
  BY <1>6 DEF Asked, FieldsOf, Only, SetIn
<1>7. CASE kind = "application"
  <2>1. DOMAIN Asked(w) \subseteq {"name", "revision", "config", "resource", "default", "db", "new"}
    BY <1>7, AppShape
  <2> QED BY <1>7, <2>1 DEF FieldsOf
<1> QED BY <1>1, <1>2, <1>3, <1>4, <1>5, <1>6, <1>7 DEF AllKinds

LEMMA FieldsHidden ==
  /\ HiddenFields \subseteq FieldsOf
  /\ kind \notin Hiding => HiddenFields = {}
<1>1. CASE kind \in Hiding
  BY <1>1 DEF HiddenFields, FieldsOf, Hiding
<1>2. CASE kind \notin Hiding
  BY <1>2 DEF HiddenFields, Hiding
<1> QED BY <1>1, <1>2

LEMMA ObjectsAreWhole ==
  ASSUME NoneIsNoValue, kind \in AllKinds, NEW obj \in Objects
  PROVE  Whole(obj) /\ (kind = "application" => AppWhole(obj))
<1>1. CASE kind \in {"credential", "jaas_controller", "kubernetes_cloud", "secret_backend", "offer", "space"}
  BY <1>1 DEF Objects, Whole, FieldsOf, OneName
<1>2. CASE kind = "secret"
  <2>1. DOMAIN obj = FieldsOf /\ obj.content \in {<<"plain", 1>>, <<"plain", 2>>}
    BY <1>2 DEF Objects, FieldsOf
  <2>2. \A n : IsContent(<<"plain", n>>)
    BY DEF IsContent
  <2> QED BY <1>2, <2>1, <2>2 DEF Whole, OneName
<1>3. CASE kind = "machine"
  BY <1>3 DEF Objects, Whole, FieldsOf, OneName
<1>4. CASE kind = "model"
  BY <1>4 DEF Objects, Whole, FieldsOf, OneName, Models, NoneIsNoValue
<1>5. CASE kind = "controller"
  BY <1>5 DEF Objects, Whole, FieldsOf, OneName
<1>6. CASE kind = "application"
  <2>1. obj \in Apps
    BY <1>6 DEF Objects
  <2>2. DOMAIN obj = FieldsOf /\ obj.default \in {"alpha", "s1"} /\ obj.revision \in {1, 2} /\ ((obj.new = None) <=> (obj.revision = 1))
    BY <1>6, <2>1 DEF Apps, FieldsOf
  <2>3. obj.default # None
    BY <2>2 DEF NoneIsNoValue
  <2> QED BY <1>6, <2>2, <2>3 DEF Whole, OneName, AppWhole
<1>7. CASE kind \in {"user", "group", "role", "cloud", "subnet", "storage_pool", "ssh_key"}
  BY <1>7 DEF Objects, Whole, FieldsOf, OneName, Configs, UserConfigs, GroupConfigs, CloudConfigs, SubnetConfigs, StoragePoolConfigs, SSHKeyConfigs
<1> QED BY <1>1, <1>2, <1>3, <1>4, <1>5, <1>6, <1>7 DEF AllKinds

\* A change that Read notices leaves what it cannot tell, or is to what is allowed.
Likely(x, obj) ==
  /\ Allows(x, wanted[In(x)], obj[x])
  /\ kind \notin {"secret", "model"} /\ tfstate # None => Allows(x, tfstate[In(x)], obj[x])
LEMMA SeenChanges ==
  ASSUME NoneIsNoValue, kind \in Hiding, wanted \in Configs, NEW before, NEW after, Whole(before), Whole(after),
         Seen(before, after), NEW x \in HiddenFields
  PROVE  after[x] = before[x] \/ Likely(x, after)
<1> SUFFICES ASSUME after[x] # before[x] PROVE Likely(x, after)
  OBVIOUS
<1>1. x \in Shown(wanted) /\ ~Hidden(x, after[x])
  <2>1. x \in DOMAIN after
    BY FieldsHidden DEF Whole
  <2> QED BY <2>1 DEF Seen
<1>2. CASE kind \in {"user", "secret_backend"}
  BY <1>1, <1>2 DEF Shown, HiddenFields, SetIn
<1>3. CASE kind = "secret"
  <2>1. wanted.value # None
    BY <1>1, <1>3 DEF Shown, HiddenFields, SetIn
  <2>2. wanted.version = None
    BY <1>3, <2>1 DEF Configs, SecretConfigs
  <2> QED BY <1>3, <2>2 DEF Likely, Allows, In
<1>4. CASE kind = "model"
  <2>1. x \in {"config", "annotations", "constraints", "backend"} /\ In(x) = x
    BY <1>4 DEF HiddenFields, In
  <2>2. x \in {"config", "constraints", "backend"} => wanted[x] # None
    BY <1>1, <1>4 DEF Shown, SetIn
  <2>3. x \in {"config", "annotations"} => after[x] # None
    BY <1>1, <1>4 DEF Hidden, Lingering
  <2>4. CASE x = "config"
    BY <1>4, <2>1, <2>2, <2>3, <2>4 DEF Likely, Allows
  <2>5. CASE x = "annotations"
    BY <1>4, <2>1, <2>3, <2>5 DEF Likely, Allows
  <2>6. CASE x \in {"constraints", "backend"}
    BY <1>4, <2>1, <2>2, <2>6 DEF Likely, Allows
  <2> QED BY <2>1, <2>4, <2>5, <2>6
<1>5. CASE kind = "controller"
  <2>1. x \in {"config", "modelconfig"} /\ In(x) = x
    BY <1>5 DEF HiddenFields, In
  <2>2. wanted[x] # None
    BY <1>1, <1>5, <2>1 DEF Shown, SetIn
  <2>3. after[x] # None /\ (tfstate # None => tfstate[x] # None)
    BY <1>1, <1>5, <2>1 DEF Hidden, Lingering
  <2> QED BY <1>5, <2>1, <2>2, <2>3 DEF Likely, Allows
<1>6. CASE kind = "application"
  <2>1. x = "config"
    BY <1>1, <1>6 DEF Shown, SetIn, HiddenFields
  <2>2. after[x] # None
    BY <1>1, <2>1 DEF Hidden, Lingering
  <2> QED BY <1>6, <2>1, <2>2 DEF Likely, Allows
<1> QED BY <1>2, <1>3, <1>4, <1>5, <1>6 DEF Hiding

LEMMA SeenNew ==
  ASSUME kind = "application", NEW before, NEW after, Whole(after), Seen(before, after)
  PROVE  after.new = before.new
<1>1. "new" \in DOMAIN after
  BY DEF Whole, FieldsOf
<1>2. "new" \notin Shown(wanted)
  BY DEF Shown, SetIn
<1> QED BY <1>1, <1>2 DEF Seen

-----------------------------------------------------------------------------
(* States, and what of an object they tell that Read does not.             *)

LEMMA TruthfulHolds ==
  ASSUME NEW s, NEW obj, Truthful(s, obj), NEW w
  PROVE  Holds(s, w, obj)
BY DEF Truthful, Holds

LEMMA HoldsTruthful ==
  ASSUME NEW s, NEW w, NEW obj, Holds(s, w, obj), \A x \in HiddenFields : s[In(x)] = w[In(x)]
  PROVE  Truthful(s, obj)
BY DEF Truthful, Holds

LEMMA AllowedHolds ==
  ASSUME NEW s, NEW w, NEW obj, \A x \in HiddenFields : Allows(x, w[In(x)], obj[x])
  PROVE  Holds(s, w, obj)
BY DEF Holds

LEMMA PlansKeepHidden ==
  ASSUME kind \in AllKinds, NEW w \in Configs, NEW s, NEW x \in HiddenFields
  PROVE  In(x) \in DOMAIN Plan(s, w) /\ Plan(s, w)[In(x)] = w[In(x)]
<1>1. CASE kind = "model"
  <2>1. DOMAIN w = {"name", "config", "constraints", "annotations", "backend", "agent", "credential"}
    BY <1>1 DEF Configs, ModelConfigs
  <2>2. In(x) = x /\ x \in {"config", "annotations", "constraints", "backend"}
    BY <1>1 DEF HiddenFields, In
  <2> QED BY <1>1, <2>1, <2>2 DEF Plan, PlannedModel, Without
<1>2. CASE kind \in {"user", "secret_backend", "secret"}
  BY <1>2 DEF HiddenFields, In, Plan, Configs, UserConfigs, SecretBackendConfigs, SecretConfigs
<1>3. CASE kind = "controller"
  BY <1>3 DEF HiddenFields, In, Plan, Configs, ControllerConfigs
<1>4. CASE kind = "application"
  <2>1. DOMAIN w = {"name", "revision", "config", "resource", "bindings"}
    BY <1>4 DEF Configs, AppConfigs
  <2> QED BY <1>4, <2>1 DEF HiddenFields, In, Plan
<1> QED BY <1>1, <1>2, <1>3, <1>4, FieldsHidden DEF Hiding

LEMMA ConsistentIsHidden ==
  ASSUME kind \in AllKinds, wanted \in Configs, NEW t, NEW state, AgreesWith(state, Plan(t, wanted))
  PROVE  \A x \in HiddenFields : state[In(x)] = wanted[In(x)]
BY PlansKeepHidden DEF AgreesWith

LEMMA OffIsOther ==
  ASSUME kind \in AllKinds, wanted \in Configs, NEW state, Off(state)
  PROVE  ~Consistent(state)
<1> SUFFICES ASSUME Consistent(state) PROVE FALSE
  OBVIOUS
<1>1. "backend" \in HiddenFields /\ In("backend") = "backend"
  BY DEF Off, HiddenFields, In
<1> QED BY <1>1, ConsistentIsHidden DEF Consistent, Off
==============================================================================
