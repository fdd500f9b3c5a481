--------------------------- MODULE ResourcesProofs ---------------------------
(***************************************************************************)
(* No object is lost from sight but for the named reasons, whatever the    *)
(* kind of resource, however many calls fail, answers are lost and objects *)
(* are changed by others.  The invariant says which objects the calls that *)
(* a handler has still to make are about.  That the calls of every handler *)
(* of every kind are such is proved kind by kind, and that such calls keep *)
(* the invariant once for all of them.  From the same descriptions of the  *)
(* handlers it follows that no call touches an object of someone else, and *)
(* that what they return is what was planned.                              *)
(***************************************************************************)
EXTENDS Resources, SequenceTheorems, TLAPS

\* None is no record that has an ID.
NoneIsNoState == "id" \notin DOMAIN None

\* The kinds whose objects are under their names.
ByName == AllKinds \ {"credential", "machine", "controller", "group", "role", "secret", "model"}

\* What Read relies on in a state, and what it leaves there.
Readable(s) ==
  /\ "id" \in DOMAIN s
  /\ kind \in ByName => "name" \in DOMAIN s /\ s.id \in Keys
  /\ kind \in {"cloud", "kubernetes_cloud", "secret_backend", "space", "storage_pool", "ssh_key"} => s.name = s.id
  /\ kind = "controller" => "uuid" \in DOMAIN s

IsState(s) ==
  /\ Readable(s)
  /\ kind \in ByName => s.id = s.name
  /\ kind = "jaas_controller" => s.name \in Names

\* Calls of a handler: one after the other, until it returns or gives up.
Changing == {"add", "add_named", "put", "set", "move"}
Removing == {"remove", "remove_named", "drop"}
Naming   == {"rename_named", "remove_named"}
Final(cs) ==
  /\ cs \in Seq(ToSet(cs)) /\ cs # <<>>
  /\ cs[Len(cs)].op \in {"returns", "fails"}
  /\ \A i \in DOMAIN cs : cs[i].op = "returns" => i = Len(cs)

\* The keys of the objects that c makes or changes are among these.
Within(c, keys) == c.op \in Changing => c.key \in keys /\ (c.op = "move" => c.val.name \in keys)

\* An object under its name stays there.
KeepsNames(c) ==
  /\ c.op # "rename_named" /\ c.op # "add_named"
  /\ c.op \in {"add", "put", "move"} => "name" \in DOMAIN c.val
  /\ c.op \in {"add", "put", "set"} /\ "name" \in DOMAIN c.val => c.val.name = c.key
  /\ c.op = "move" => c.key \in Keys
  /\ kind = "subnet" => c.op \notin {"add", "put", "move"}

\* An object that is there already is put elsewhere only for these kinds.
Replacing == {"credential", "offer"}
NamedKinds == {"group", "role"}

\* The keys that Create or Update ends with.
Ends(cs) == IF cs[Len(cs)].op = "returns" THEN KeysOf(cs[Len(cs)].val) ELSE {}

\* A call of Create or Update, when `own' are the keys in the state before and
\* `ends' those after it.
WorkCall(c, own, ends) ==
  /\ Within(c, own \cup ends)
  /\ kind \in ByName => KeepsNames(c)
  /\ c.op \in {"returns", "saves"} => IsState(c.val) /\ KeysOf(c.val) = ends
  /\ c.op = "saves" => own \subseteq ends
  /\ c.op \notin Removing
  /\ c.op = "put" => kind \in Replacing
  /\ c.op = "move" => c.key \in own
  /\ c.op = "rename_named" => kind \in NamedKinds
  /\ c.soft # <<>> => IsState(c.soft[1]) /\ KeysOf(c.soft[1]) = ends

\* Where no failure is excused, a call that makes something new is the last that
\* can fail before the state has it.
WorkCalls(cs, own) ==
  /\ Final(cs)
  /\ \A i \in DOMAIN cs : WorkCall(cs[i], own, Ends(cs))
  /\ kind \notin Unsaved =>
       \A i \in DOMAIN cs :
         \/ Within(cs[i], own)
         \/ i < Len(cs) /\ cs[i + 1].op \in {"returns", "saves"}
         \/ \E j \in 1..(i - 1) : cs[j].op = "saves"

\* Calls of Delete: each object of the resource is told to go by one of them, or
\* they end with an error before they return; what they change goes afterwards.
Disposes(c, k) ==
  \/ c.op = "fails" \/ (c.op = "remove_named" /\ kind \in {"group", "role"})
  \/ c.op \in {"remove", "drop", "destroy", "doom", "gone"} /\ c.key = k
  \/ kind = "subnet" /\ c.op = "set" /\ c.key = k /\ "space" \in DOMAIN c.val /\ c.val.space = "alpha"

DeleteCall(c, own) ==
  /\ Within(c, own)
  /\ c.op \notin {"saves", "rename_named", "add", "add_named", "put", "move"}
  /\ kind \in ByName => KeepsNames(c)
  /\ c.op \in {"remove", "drop"} /\ kind \notin Replacing => c.key \in own
  /\ c.op = "remove_named" => kind \in NamedKinds
  /\ c.soft # <<>> => setting.skip

DeleteCalls(cs, own) ==
  /\ Final(cs)
  /\ \A i \in DOMAIN cs :
       /\ DeleteCall(cs[i], own)
       /\ cs[i].op = "set" => \E j \in i..Len(cs) : Disposes(cs[j], cs[i].key)

-----------------------------------------------------------------------------
(* The invariant.                                                          *)

Own == Stated(tfstate)

HeldInv == \A k \in mine : k \in Keys /\ Held(there[k])

\* What is known when a handler begins.
ControlInv ==
  /\ kind \in AllKinds
  /\ wanted \in Configs \cup {None}
  /\ tfstate # None => IsState(tfstate)
  /\ pc \in {"idle", "read", "create", "update", "delete"}
  /\ pc \in {"idle", "read"} => calls = <<>>
  /\ pc \in {"read", "update", "delete"} => tfstate # None
  /\ pc \in {"create", "update"} => wanted # None
  /\ pc = "create" /\ calls = <<>> => tfstate = None
  /\ pc = "update" /\ calls = <<>> /\ kind \notin {"ssh_key", "model"} => ~Replaced(tfstate, wanted)

ThereInv ==
  /\ DOMAIN there = Keys
  /\ kind \in ByName =>
       \A k \in Keys : there[k] # None =>
         /\ "name" \in DOMAIN there[k] /\ there[k].name = k
         /\ kind = "subnet" => "space" \in DOMAIN there[k]

Known == dying \cup excused \cup Own

WorkInv ==
  /\ WorkCalls(calls, Own)
  /\ mine \subseteq Known \cup Ends(calls)
  /\ pc = "create" => Own \subseteq Ends(calls)
  /\ kind \notin Unsaved => mine \subseteq Known \/ calls[1].op \in {"returns", "saves"}

DeleteInv ==
  /\ DeleteCalls(calls, Own)
  /\ mine \subseteq Known
  /\ \A k \in Own \cap mine :
       k \in dying \cup excused \/ setting.skip \/ \E i \in DOMAIN calls : Disposes(calls[i], k)

MineInv ==
  /\ calls = <<>> => mine \subseteq Known
  /\ pc \in {"create", "update"} /\ calls # <<>> => WorkInv
  /\ pc = "delete" /\ calls # <<>> => DeleteInv

IInv == HeldInv /\ ControlInv /\ ThereInv /\ MineInv

-----------------------------------------------------------------------------
(* Sequences of calls.                                                     *)

LEMMA ItsOwnCalls ==
  ASSUME NEW S, NEW cs \in Seq(S)
  PROVE  cs \in Seq(ToSet(cs))
<1>1. cs \in [1..Len(cs) -> ToSet(cs)] /\ Len(cs) \in Nat
  BY DEF ToSet
<1> QED BY <1>1

\* The first of them made, the others are left.
LEMMA GoesOn ==
  ASSUME NEW cs, Final(cs), cs[1].op \notin {"returns", "fails"}
  PROVE  /\ Final(Tail(cs)) /\ Ends(Tail(cs)) = Ends(cs)
         /\ Len(cs) \in Nat /\ Len(cs) > 1 /\ Len(Tail(cs)) = Len(cs) - 1
         /\ Head(cs) = cs[1] /\ 1 \in DOMAIN cs
         /\ DOMAIN cs = 1..Len(cs) /\ DOMAIN Tail(cs) = 1..(Len(cs) - 1)
         /\ \A i \in 1..(Len(cs) - 1) : Tail(cs)[i] = cs[i + 1]
<1> DEFINE t == Tail(cs)
<1>1. cs \in Seq(ToSet(cs)) /\ cs # <<>> /\ Len(cs) \in Nat /\ DOMAIN cs = 1..Len(cs) /\ Len(cs) > 0
  BY DEF Final
<1>2. Len(cs) > 1 /\ 1 \in DOMAIN cs
  BY <1>1 DEF Final
<1>3. t \in Seq(ToSet(cs)) /\ Len(t) = Len(cs) - 1 /\ \A i \in 1..Len(t) : t[i] = cs[i + 1]
  BY <1>1, HeadTailProperties
<1>4. Head(cs) = cs[1]
  BY <1>1
<1> HIDE DEF t
<1>5. t \in Seq(ToSet(t)) /\ DOMAIN t = 1..Len(t) /\ t # <<>> /\ t[Len(t)] = cs[Len(cs)]
  <2>1. t \in Seq(ToSet(t))
    BY <1>3, ItsOwnCalls
  <2>2. DOMAIN t = 1..Len(t) /\ Len(t) \in 1..Len(t) /\ t # <<>>
    BY <1>1, <1>2, <1>3
  <2> QED BY <2>1, <2>2, <1>1, <1>3
<1>6. \A i \in DOMAIN t : t[i].op = "returns" => i = Len(t)
  BY <1>1, <1>2, <1>3, <1>5 DEF Final
<1>7. Final(t)
  BY <1>1, <1>5, <1>6 DEF Final
<1>8. Ends(t) = Ends(cs)
  BY <1>5 DEF Ends
<1> QED BY <1>1, <1>2, <1>3, <1>4, <1>5, <1>7, <1>8 DEF t

LEMMA Returning ==
  ASSUME NEW cs, Final(cs), cs[1].op = "returns"
  PROVE  Len(cs) = 1 /\ DOMAIN cs = {1} /\ Head(cs) = cs[1] /\ Ends(cs) = KeysOf(cs[1].val)
<1>1. cs \in Seq(ToSet(cs)) /\ cs # <<>>
  BY DEF Final
<1>2. Len(cs) \in Nat /\ Len(cs) > 0 /\ DOMAIN cs = 1..Len(cs)
  BY <1>1
<1>3. Len(cs) = 1
  BY <1>2 DEF Final
<1> QED BY <1>1, <1>2, <1>3 DEF Ends

LEMMA WorkGoesOn ==
  ASSUME NEW cs, NEW own, WorkCalls(cs, own), cs[1].op \notin {"returns", "fails"}
  PROVE  WorkCalls(Tail(cs), IF cs[1].op = "saves" THEN Ends(cs) ELSE own)
<1> DEFINE t == Tail(cs)
           now == IF cs[1].op = "saves" THEN Ends(cs) ELSE own
<1>1. /\ Final(t) /\ Ends(t) = Ends(cs)
      /\ Len(cs) \in Nat /\ Len(cs) > 1 /\ Len(t) = Len(cs) - 1
      /\ DOMAIN cs = 1..Len(cs) /\ DOMAIN t = 1..(Len(cs) - 1) /\ 1 \in DOMAIN cs
      /\ \A i \in 1..(Len(cs) - 1) : t[i] = cs[i + 1]
  BY GoesOn DEF WorkCalls
<1>2. own \subseteq now /\ now \subseteq own \cup Ends(cs)
  BY <1>1 DEF WorkCalls, WorkCall
<1> HIDE DEF t
<1>3. \A i \in DOMAIN t : i \in 1..(Len(cs) - 1) /\ i + 1 \in DOMAIN cs /\ t[i] = cs[i + 1]
  BY <1>1
<1>4. ASSUME NEW i \in DOMAIN t PROVE WorkCall(t[i], now, Ends(t))
  <2>1. WorkCall(t[i], own, Ends(t))
    BY <1>1, <1>3 DEF WorkCalls
  <2>2. now \cup Ends(t) = own \cup Ends(t)
    BY <1>1, <1>2
  <2>3. t[i].op = "saves" => now \subseteq Ends(t)
    BY <2>1, <1>1, <1>2 DEF WorkCall
  <2> HIDE DEF now
  <2> QED BY <1>2, <2>1, <2>2, <2>3 DEF WorkCall, Within
<1>5. ASSUME kind \notin Unsaved, NEW i \in DOMAIN t
      PROVE  \/ Within(t[i], now)
             \/ i < Len(t) /\ t[i + 1].op \in {"returns", "saves"}
             \/ \E j \in 1..(i - 1) : t[j].op = "saves"
  <2>1. i \in 1..(Len(cs) - 1) /\ i + 1 \in DOMAIN cs /\ t[i] = cs[i + 1]
    BY <1>3
  <2>2. \/ Within(cs[i + 1], own)
        \/ i + 1 < Len(cs) /\ cs[i + 2].op \in {"returns", "saves"}
        \/ \E j \in 1..i : cs[j].op = "saves"
    <3>1. (i + 1) + 1 = i + 2 /\ (i + 1) - 1 = i
      BY <2>1
    <3> QED BY <2>1, <3>1, <1>5 DEF WorkCalls
  <2>3. CASE Within(cs[i + 1], own)
    BY <2>1, <2>3, <1>2 DEF Within
  <2>4. CASE i + 1 < Len(cs) /\ cs[i + 2].op \in {"returns", "saves"}
    <3>1. i < Len(t) /\ i + 1 \in 1..(Len(cs) - 1) /\ (i + 1) + 1 = i + 2
      BY <2>1, <2>4, <1>1
    <3>2. t[i + 1] = cs[i + 2]
      BY <3>1, <1>1
    <3> QED BY <3>1, <3>2, <2>4
  <2>5. CASE \E j \in 1..i : cs[j].op = "saves"
    <3>1. PICK j \in 1..i : cs[j].op = "saves"
      BY <2>5
    <3>2. CASE j = 1
      <4>1. now = Ends(cs)
        BY <3>1, <3>2
      <4>2. Within(cs[i + 1], own \cup Ends(cs)) /\ own \subseteq Ends(cs)
        BY <1>1, <2>1, <3>1, <3>2 DEF WorkCalls, WorkCall
      <4> QED BY <4>1, <4>2, <2>1 DEF Within
    <3>3. CASE j # 1
      <4>1. j - 1 \in 1..(i - 1) /\ j - 1 \in 1..(Len(cs) - 1) /\ (j - 1) + 1 = j
        BY <2>1, <3>3, <1>1
      <4>2. t[j - 1] = cs[j]
        BY <4>1, <1>1
      <4> QED BY <4>1, <4>2, <3>1
    <3> QED BY <3>2, <3>3
  <2> QED BY <2>2, <2>3, <2>4, <2>5
<1> QED BY <1>1, <1>4, <1>5 DEF WorkCalls, t

LEMMA DeleteGoesOn ==
  ASSUME NEW cs, NEW own, DeleteCalls(cs, own), cs[1].op \notin {"returns", "fails"}
  PROVE  DeleteCalls(Tail(cs), own)
<1> DEFINE t == Tail(cs)
<1>1. /\ Final(t)
      /\ Len(cs) \in Nat /\ Len(t) = Len(cs) - 1
      /\ DOMAIN cs = 1..Len(cs) /\ DOMAIN t = 1..(Len(cs) - 1)
      /\ \A i \in 1..(Len(cs) - 1) : t[i] = cs[i + 1]
  BY GoesOn DEF DeleteCalls
<1> HIDE DEF t
<1>2. ASSUME NEW i \in DOMAIN t
      PROVE  DeleteCall(t[i], own) /\ (t[i].op = "set" => \E j \in i..Len(t) : Disposes(t[j], t[i].key))
  <2>1. i + 1 \in DOMAIN cs /\ t[i] = cs[i + 1] /\ i \in 1..(Len(cs) - 1)
    BY <1>1
  <2>2. DeleteCall(t[i], own)
    BY <2>1 DEF DeleteCalls
  <2>3. ASSUME t[i].op = "set" PROVE \E j \in i..Len(t) : Disposes(t[j], t[i].key)
    <3>1. PICK j \in (i + 1)..Len(cs) : Disposes(cs[j], cs[i + 1].key)
      BY <2>1, <2>3 DEF DeleteCalls
    <3>2. j - 1 \in i..Len(t) /\ j - 1 \in 1..(Len(cs) - 1) /\ (j - 1) + 1 = j
      BY <2>1, <1>1
    <3>3. t[j - 1] = cs[j]
      BY <3>2, <1>1
    <3> QED BY <3>1, <3>2, <3>3, <2>1
  <2> QED BY <2>2, <2>3
<1> QED BY <1>1, <1>2 DEF DeleteCalls, t

-----------------------------------------------------------------------------
(* What a call does to the objects.                                        *)

Reach(c, at) == {Target(c, at)} \cup (IF c.op = "move" THEN {c.val.name} ELSE {})
LEMMA AfterCall ==
  ASSUME NEW c, NEW at, DOMAIN at = Keys
  PROVE  /\ DOMAIN After(c, at) = Keys
         /\ \A k \in Keys \ Reach(c, at) : After(c, at)[k] = at[k]
         /\ c.op \notin Changing \cup Removing \cup {"rename_named"} => After(c, at) = at
         /\ c.op \in Removing => \A k \in Keys : k = Target(c, at) => After(c, at)[k] = None
<1> DEFINE k0 == Target(c, at)
<1>1. CASE c.op \in {"add", "add_named", "put"}
  <2>1. After(c, at) = [at EXCEPT ![k0] = c.val]
    BY <1>1 DEF After
  <2> HIDE DEF k0
  <2> QED BY <1>1, <2>1 DEF Reach, Changing, Removing, k0
<1>2. CASE c.op = "set"
  <2>1. After(c, at) = [at EXCEPT ![k0] = Merged(at[k0], c.val)]
    BY <1>2 DEF After
  <2> HIDE DEF k0
  <2> QED BY <1>2, <2>1 DEF Reach, Changing, Removing, k0
<1>3. CASE c.op = "move"
  <2>1. After(c, at) = [at EXCEPT ![k0] = None, ![c.val.name] = Merged(at[k0], c.val)]
    BY <1>3 DEF After
  <2> HIDE DEF k0
  <2> QED BY <1>3, <2>1 DEF Reach, Changing, Removing, k0
<1>4. CASE c.op = "rename_named"
  <2>1. After(c, at) = [at EXCEPT ![k0] = [at[k0] EXCEPT !.name = c.val]]
    BY <1>4 DEF After
  <2> HIDE DEF k0
  <2> QED BY <1>4, <2>1 DEF Reach, Changing, Removing, k0
<1>5. CASE c.op \in Removing
  <2>1. After(c, at) = [at EXCEPT ![k0] = None]
    BY <1>5 DEF After, Removing
  <2> HIDE DEF k0
  <2> QED BY <1>5, <2>1 DEF Reach, Changing, Removing, k0
<1>6. CASE c.op \notin Changing \cup Removing \cup {"rename_named"}
  <2>1. After(c, at) = at
    BY <1>6 DEF After, Changing, Removing
  <2> QED BY <1>6, <2>1 DEF Changing, Removing
<1> QED BY <1>1, <1>2, <1>3, <1>4, <1>5, <1>6 DEF Changing

\* What the resource has a hand in after a call, it had before, or the call made or
\* changed it.
LEMMA MadeIsWithin ==
  ASSUME NEW c, DOMAIN there = Keys, Made(c), NEW k \in mine'
  PROVE  /\ k \in Keys /\ Held(there'[k]) /\ there'[k] # None
         /\ \/ k \in mine
            \/ c.op \in Changing /\ (k = c.key \/ (c.op = "move" /\ k = c.val.name))
            \/ c.op = "rename_named" /\ k = Target(c, there)
         /\ c.op \in Removing => k # Target(c, there)
<1>1. k \in Keys /\ Held(there'[k]) /\ there'[k] # None
  <2>1. mine' = HeldOf(mine \cup Changed(there, there') \cup (IF c.op = "put" THEN {c.key} ELSE {}), there')
    BY DEF Made
  <2>2. k \in Keys /\ Held(there'[k])
    BY <2>1 DEF HeldOf, Changed
  <2> QED BY <2>2 DEF Held
<1>2. k \in mine \/ there[k] # there'[k] \/ (c.op = "put" /\ k = c.key)
  BY DEF Made, HeldOf, Changed
<1>3. there' = After(c, there)
  BY DEF Made
<1>4. ASSUME there[k] # there'[k]
      PROVE  k \in Reach(c, there) /\ c.op \in Changing \cup Removing \cup {"rename_named"}
  BY <1>1, <1>3, <1>4, AfterCall
<1>5. c.op \in Removing => k # Target(c, there)
  BY <1>1, <1>3, AfterCall
<1>6. c.op \notin {"rename_named", "remove_named"} => Target(c, there) = c.key
  BY DEF Target
<1>7. k \in Reach(c, there) => k = Target(c, there) \/ (c.op = "move" /\ k = c.val.name)
  BY DEF Reach
<1> QED BY <1>1, <1>2, <1>4, <1>5, <1>6, <1>7 DEF Changing, Removing

LEMMA NamesAreKept ==
  ASSUME ThereInv, NEW c, ~Refuses(c, there), kind \in ByName => KeepsNames(c),
         kind' = kind, there' = After(c, there)
  PROVE  ThereInv'
<1>1. DOMAIN there' = Keys
  BY AfterCall DEF ThereInv
<1>2. ASSUME kind \in ByName, NEW k \in Keys, there'[k] # None
      PROVE  /\ "name" \in DOMAIN there'[k] /\ there'[k].name = k
             /\ kind = "subnet" => "space" \in DOMAIN there'[k]
  <2>1. KeepsNames(c) /\ c.op \notin {"rename_named", "add_named"} /\ DOMAIN there = Keys
    BY <1>2 DEF KeepsNames, ThereInv
  <2>2. CASE there'[k] = there[k]
    BY <1>2, <2>2 DEF ThereInv
  <2>3. CASE there'[k] # there[k] /\ c.op \in Removing
    BY <1>2, <2>1, <2>3, AfterCall DEF Reach, Removing
  <2>4. CASE there'[k] # there[k] /\ c.op \in {"add", "put"}
    <3>1. there' = [there EXCEPT ![c.key] = c.val]
      BY <2>4 DEF After, Target
    <3> QED BY <1>2, <2>1, <2>4, <3>1 DEF KeepsNames
  <2>5. CASE there'[k] # there[k] /\ c.op = "set"
    <3>1. there' = [there EXCEPT ![c.key] = Merged(there[c.key], c.val)] /\ there[c.key] # None
      BY <2>5 DEF After, Target, Refuses
    <3>2. k = c.key /\ there'[k] = Merged(there[k], c.val) /\ there[k] # None
      BY <1>2, <2>1, <2>5, <3>1
    <3>3. /\ "name" \in DOMAIN there[k] /\ there[k].name = k
          /\ kind = "subnet" => "space" \in DOMAIN there[k]
      BY <1>2, <3>2 DEF ThereInv
    <3>4. "name" \in DOMAIN c.val => c.val.name = k
      BY <2>1, <2>5, <3>2 DEF KeepsNames
    <3> QED BY <3>2, <3>3, <3>4 DEF Merged
  <2>6. CASE there'[k] # there[k] /\ c.op = "move"
    <3>1. there' = [there EXCEPT ![c.key] = None, ![c.val.name] = Merged(there[c.key], c.val)] /\ there[c.key] # None
      BY <2>6 DEF After, Target, Refuses
    <3>2. "name" \in DOMAIN c.val /\ c.key \in Keys /\ kind # "subnet"
      BY <2>1, <2>6 DEF KeepsNames
    <3>3. k = c.val.name /\ there'[k] = Merged(there[c.key], c.val)
      BY <1>2, <2>1, <2>6, <3>1
    <3>4. "name" \in DOMAIN there[c.key]
      BY <1>2, <3>1, <3>2 DEF ThereInv
    <3> QED BY <3>2, <3>3, <3>4 DEF Merged
  <2>7. CASE c.op \notin Changing \cup Removing
    <3>1. there' = there
      BY <2>1, <2>7, AfterCall
    <3> QED BY <1>2, <3>1 DEF ThereInv
  <2> QED BY <2>1, <2>2, <2>3, <2>4, <2>5, <2>6, <2>7 DEF Changing, Removing
<1> QED BY <1>1, <1>2 DEF ThereInv

-----------------------------------------------------------------------------
(* Every action keeps the invariant, when the handlers' calls and the      *)
(* states that Read returns are what they should be.                       *)

LEMMA SameKind ==
  ASSUME kind' = kind, setting' = setting
  PROVE  /\ Own' = Stated(tfstate') /\ Ends(calls)' = Ends(calls')
         /\ Configs' = Configs /\ (Replaced(tfstate', wanted') <=> Replaced(tfstate, wanted)')
         /\ \A k : Held(there'[k]) => Held(there[k])'
         /\ IsState(tfstate') => IsState(tfstate)'
         /\ WorkCalls(calls', Stated(tfstate')) => WorkCalls(calls, Own)'
         /\ DeleteCalls(calls', Stated(tfstate')) => DeleteCalls(calls, Own)'
         /\ \A k : (\E i \in DOMAIN calls' : Disposes(calls'[i], k)) => (\E i \in DOMAIN calls : Disposes(calls[i], k))'
<1>1. /\ Configs' = Configs
      /\ \A k : Held(there'[k]) => Held(there[k])'
  BY DEF Configs, Held
<1>9. Replaced(tfstate', wanted') <=> Replaced(tfstate, wanted)'
  BY DEF Replaced
<1>2. Own' = Stated(tfstate')
  BY DEF Own, Stated, KeysOf
<1>3. Ends(calls)' = Ends(calls')
  BY DEF Ends, KeysOf
<1>4. IsState(tfstate') => IsState(tfstate)'
  BY DEF IsState, Readable, ByName, AllKinds, Keys, IDs
<1>5. Final(calls') => Final(calls)'
  BY DEF Final
<1>6. WorkCalls(calls', Stated(tfstate')) => WorkCalls(calls, Own)'
  BY <1>2, <1>3, <1>5 DEF WorkCalls, WorkCall, Within, KeepsNames, ByName, AllKinds, IsState, Readable, Unsaved,
     KeysOf, Keys, IDs
<1>7. DeleteCalls(calls', Stated(tfstate')) => DeleteCalls(calls, Own)'
  BY <1>2, <1>5 DEF DeleteCalls, DeleteCall, Disposes, Within, KeepsNames, ByName, AllKinds, Keys, IDs
<1>8. \A k : (\E i \in DOMAIN calls' : Disposes(calls'[i], k)) => (\E i \in DOMAIN calls : Disposes(calls[i], k))'
  BY DEF Disposes
<1> QED BY <1>1, <1>9, <1>2, <1>3, <1>4, <1>6, <1>7, <1>8

\* A state is one thing and None another.
LEMMA StatedOfState ==
  ASSUME NoneIsNoState, NEW s, IsState(s)
  PROVE  s # None /\ Stated(s) = KeysOf(s)
BY DEF NoneIsNoState, IsState, Readable, Stated

\* The handler that runs, and the call that it makes next.
LEMMA Running ==
  ASSUME ControlInv, MineInv, calls # <<>>
  PROVE  /\ \/ pc \in {"create", "update"} /\ WorkInv
            \/ pc = "delete" /\ DeleteInv
         /\ Final(calls) /\ 1 \in DOMAIN calls /\ Head(calls) = calls[1]
         /\ kind \in ByName => KeepsNames(calls[1])
<1>1. \/ pc \in {"create", "update"} /\ WorkInv
      \/ pc = "delete" /\ DeleteInv
  BY DEF ControlInv, MineInv
<1>2. Final(calls)
  BY <1>1 DEF WorkInv, DeleteInv, WorkCalls, DeleteCalls
<1>3. 1 \in DOMAIN calls /\ Head(calls) = calls[1]
  BY <1>2 DEF Final
<1>4. kind \in ByName => KeepsNames(calls[1])
  BY <1>1, <1>3 DEF WorkInv, DeleteInv, WorkCalls, DeleteCalls, WorkCall, DeleteCall
<1> QED BY <1>1, <1>2, <1>3, <1>4

\* What a call of Create or Update makes or changes.
LEMMA MadeByWork ==
  ASSUME ControlInv, ThereInv, MineInv, calls # <<>>, pc \in {"create", "update"},
         Made(Head(calls)), NEW k \in mine', k \notin mine
  PROVE  k \in Own \cup Ends(calls) \/ (Head(calls).op = "rename_named" /\ k = Target(Head(calls), there))
<1> DEFINE c == Head(calls)
<1>1. WorkCall(c, Own, Ends(calls)) /\ DOMAIN there = Keys
  BY Running DEF WorkInv, WorkCalls, ThereInv
<1>2. \/ c.op \in Changing /\ (k = c.key \/ (c.op = "move" /\ k = c.val.name))
      \/ c.op = "rename_named" /\ k = Target(c, there)
  BY <1>1, MadeIsWithin
<1> QED BY <1>1, <1>2 DEF WorkCall, Within

\* A step of Create or Update.
LEMMA WorkSteps ==
  ASSUME NoneIsNoState, IInv, Step, pc \in {"create", "update"}
  PROVE  MineInv'
<1> DEFINE c == Head(calls)
<1>1. /\ calls # <<>> /\ c.op # "returns" /\ ~Refuses(c, there) /\ Made(c)
      /\ excused' = excused \cup Mistaken(c)
      /\ IF c.op = "saves" THEN tfstate' = c.val /\ tainted' = TRUE ELSE tfstate' = tfstate
      /\ calls' = Tail(calls) /\ pc' = pc /\ kind' = kind /\ setting' = setting
  BY DEF Step
<1>2. WorkInv /\ Final(calls) /\ 1 \in DOMAIN calls /\ c = calls[1]
  BY <1>1, Running DEF IInv
<1>3. c.op \notin {"returns", "fails"}
  BY <1>1 DEF Refuses
<1>4. WorkCall(c, Own, Ends(calls))
  BY <1>2 DEF WorkInv, WorkCalls
<1>5. /\ Ends(calls') = Ends(calls) /\ Len(calls) \in Nat /\ Len(calls) > 1
      /\ calls'[1] = calls[2] /\ calls' # <<>>
  BY <1>1, <1>2, <1>3, GoesOn DEF Final
<1>6. Stated(tfstate') = IF c.op = "saves" THEN Ends(calls) ELSE Own
  <2>1. CASE c.op = "saves"
    BY <2>1, <1>1, <1>4, StatedOfState DEF WorkCall
  <2>2. CASE c.op # "saves"
    BY <2>2, <1>1 DEF Own
  <2> QED BY <2>1, <2>2
<1>7. WorkCalls(calls', Stated(tfstate'))
  BY <1>1, <1>2, <1>3, <1>6, WorkGoesOn DEF WorkInv
<1>8. dying \subseteq dying' /\ excused \subseteq excused' /\ Own \subseteq Stated(tfstate')
  BY <1>1, <1>4, <1>6 DEF Made, WorkCall
<1> HIDE DEF c
<1>9. ASSUME NEW k \in mine'
      PROVE  k \in dying' \cup excused' \cup Stated(tfstate') \cup Ends(calls')
  <2>1. CASE k \in mine
    BY <2>1, <1>2, <1>5, <1>8 DEF WorkInv, Known
  <2>2. CASE k \in Own \cup Ends(calls)
    BY <2>2, <1>5, <1>8
  <2>3. CASE c.op = "rename_named" /\ k = Target(c, there)
    BY <2>3, <1>1, <1>8 DEF Mistaken, Own
  <2> QED BY <2>1, <2>2, <2>3, <1>1, MadeByWork DEF IInv, c
<1>10. pc = "create" => Stated(tfstate') \subseteq Ends(calls')
  BY <1>2, <1>5, <1>6 DEF WorkInv
<1>11. ASSUME kind \notin Unsaved, calls'[1].op \notin {"returns", "saves"}, NEW k \in mine'
       PROVE  k \in dying' \cup excused' \cup Stated(tfstate')
  <2>1. CASE c.op = "saves"
    BY <2>1, <1>5, <1>6, <1>9, <1>11
  <2>2. CASE c.op # "saves"
    <3>1. Within(c, Own)
      <4>1. \/ Within(calls[1], Own)
            \/ 1 < Len(calls) /\ calls[1 + 1].op \in {"returns", "saves"}
            \/ \E j \in 1..(1 - 1) : calls[j].op = "saves"
        BY <1>2, <1>11 DEF WorkInv, WorkCalls
      <4> QED BY <4>1, <1>2, <1>5, <1>11
    <3>2. mine \subseteq Known
      BY <2>2, <1>1, <1>2, <1>11 DEF WorkInv
    <3>3. CASE k \in mine
      BY <3>2, <3>3, <1>8 DEF Known
    <3>4. CASE c.op \in Changing /\ (k = c.key \/ (c.op = "move" /\ k = c.val.name))
      BY <3>1, <3>4, <1>8 DEF Within
    <3>5. CASE c.op = "rename_named" /\ k = Target(c, there)
      BY <3>5, <1>1, <1>8 DEF Mistaken, Own
    <3> QED BY <3>3, <3>4, <3>5, <1>1, MadeIsWithin DEF IInv, ThereInv
  <2> QED BY <2>1, <2>2
<1>12. WorkInv'
  <2>1. WorkCalls(calls, Own)' /\ Own' = Stated(tfstate') /\ Ends(calls)' = Ends(calls')
    BY <1>1, <1>7, SameKind
  <2>2. (kind \notin Unsaved)' => kind \notin Unsaved
    BY <1>1 DEF Unsaved
  <2> QED BY <2>1, <2>2, <1>1, <1>9, <1>10, <1>11 DEF WorkInv, Known
<1> QED BY <1>1, <1>5, <1>12 DEF MineInv

\* A step of Delete.
LEMMA DeleteSteps ==
  ASSUME NoneIsNoState, IInv, Step, pc = "delete"
  PROVE  MineInv'
<1> DEFINE c == Head(calls)
<1>1. /\ calls # <<>> /\ c.op # "returns" /\ ~Refuses(c, there) /\ Made(c)
      /\ excused' = excused \cup Mistaken(c)
      /\ IF c.op = "saves" THEN tfstate' = c.val /\ tainted' = TRUE ELSE tfstate' = tfstate
      /\ calls' = Tail(calls) /\ pc' = pc /\ kind' = kind /\ setting' = setting
  BY DEF Step
<1>2. DeleteInv /\ Final(calls) /\ 1 \in DOMAIN calls /\ c = calls[1] /\ DOMAIN there = Keys
  BY <1>1, Running DEF IInv, ThereInv
<1>3. c.op \notin {"returns", "fails"}
  BY <1>1 DEF Refuses
<1>4. DeleteCall(c, Own) /\ DeleteCalls(calls, Own)
  BY <1>2 DEF DeleteInv, DeleteCalls
<1>5. /\ Len(calls) \in Nat /\ Len(calls) > 1 /\ calls' # <<>>
      /\ DOMAIN calls = 1..Len(calls) /\ DOMAIN calls' = 1..(Len(calls) - 1)
      /\ \A i \in 1..(Len(calls) - 1) : calls'[i] = calls[i + 1]
  BY <1>1, <1>2, <1>3, GoesOn DEF Final
<1>6. tfstate' = tfstate /\ Stated(tfstate') = Own
  BY <1>1, <1>4 DEF DeleteCall, Own
<1>7. DeleteCalls(calls', Own)
  BY <1>1, <1>2, <1>3, <1>4, DeleteGoesOn
<1>8. dying \subseteq dying' /\ excused \subseteq excused'
  BY <1>1 DEF Made
<1> HIDE DEF c
\* What the call changes it does not take away.
<1>9. ASSUME NEW k \in mine'
      PROVE  /\ k \in Keys /\ Held(there'[k])
             /\ c.op \in Removing => k # Target(c, there)
             /\ k \in mine \/ (c.op = "set" /\ k = c.key /\ k \in Own)
  <2>1. /\ k \in Keys /\ Held(there'[k])
        /\ \/ k \in mine
           \/ c.op \in Changing /\ (k = c.key \/ (c.op = "move" /\ k = c.val.name))
           \/ c.op = "rename_named" /\ k = Target(c, there)
        /\ c.op \in Removing => k # Target(c, there)
    BY <1>1, <1>2, MadeIsWithin
  <2> QED BY <2>1, <1>4 DEF DeleteCall, Changing, Within
<1>10. mine' \subseteq dying' \cup excused' \cup Own
  BY <1>2, <1>8, <1>9 DEF DeleteInv, Known
\* Is the call the one that makes an object go, the object is gone or going.
<1>11. ASSUME NEW k \in Own \cap mine', Disposes(c, k)
       PROVE  k \in dying' \cup excused'
  <2>1. k \in Keys /\ Held(there'[k]) /\ (c.op \in Removing => k # Target(c, there))
    BY <1>9
  <2>2. CASE c.op = "remove_named"
    <3>1. kind \in {"group", "role"} /\ tfstate # None /\ Own = {tfstate.id}
      BY <2>2, <1>3, <1>11 DEF Disposes, Own, Stated, KeysOf
    <3>2. k \in Own /\ k # Target(c, there)
      BY <2>1, <2>2 DEF Removing
    <3> QED BY <3>1, <3>2, <2>2, <1>1 DEF Mistaken, Own
  <2>3. CASE c.op \in {"remove", "drop"}
    <3>1. c.key = k /\ Target(c, there) = c.key
      BY <2>3, <1>11 DEF Disposes, Target
    <3> QED BY <3>1, <2>1, <2>3 DEF Removing
  <2>4. CASE c.op \in {"destroy", "doom", "gone"}
    <3>1. c.key = k /\ there' = After(c, there)
      BY <2>4, <1>1, <1>11 DEF Disposes, Made
    <3>2. there' = there
      BY <2>4, <3>1, <1>2, AfterCall DEF Changing, Removing
    <3>3. there[k] # None
      BY <3>2, <2>1 DEF Held
    <3>4. c.op # "gone"
      BY <3>1, <3>3, <1>1 DEF Refuses, Target
    <3> QED BY <3>1, <3>3, <3>4, <2>4, <1>1 DEF Made
  <2>5. CASE kind = "subnet" /\ c.op = "set" /\ c.key = k /\ "space" \in DOMAIN c.val /\ c.val.space = "alpha"
    <3>1. there' = [there EXCEPT ![k] = Merged(there[k], c.val)] /\ there[k] # None
      BY <2>5, <1>1 DEF Made, After, Refuses, Target
    <3>2. "space" \in DOMAIN there[k]
      BY <3>1, <2>1, <2>5 DEF IInv, ThereInv, ByName, AllKinds
    <3>3. there'[k] = Merged(there[k], c.val)
      BY <3>1, <2>1, <1>2
    <3>4. there'[k].space = "alpha"
      BY <3>2, <3>3, <2>5 DEF Merged
    <3> QED BY <3>4, <2>1, <2>5 DEF Held
  <2> QED BY <1>3, <1>11, <2>2, <2>3, <2>4, <2>5 DEF Disposes
<1>12. ASSUME NEW k \in Own \cap mine', k \notin dying' \cup excused', ~setting.skip
       PROVE  \E i \in DOMAIN calls' : Disposes(calls'[i], k)
  <2>1. PICK i \in DOMAIN calls : Disposes(calls[i], k)
    <3>1. CASE k \in mine
      BY <3>1, <1>2, <1>8, <1>12 DEF DeleteInv
    <3>2. CASE c.op = "set" /\ k = c.key
      BY <3>2, <1>2, <1>4, <1>5 DEF DeleteCalls
    <3> QED BY <3>1, <3>2, <1>9
  <2>2. i # 1
    BY <2>1, <1>2, <1>11, <1>12
  <2>3. i - 1 \in 1..(Len(calls) - 1) /\ (i - 1) + 1 = i
    BY <2>1, <2>2, <1>5
  <2>4. i - 1 \in DOMAIN calls' /\ calls'[i - 1] = calls[i]
    BY <2>3, <1>5
  <2> QED BY <2>1, <2>4
<1>13. DeleteInv'
  <2>1. /\ DeleteCalls(calls, Own)' /\ Own' = Own
        /\ \A k : (\E i \in DOMAIN calls' : Disposes(calls'[i], k)) => (\E i \in DOMAIN calls : Disposes(calls[i], k))'
    BY <1>1, <1>6, <1>7, SameKind
  <2> QED BY <2>1, <1>1, <1>10, <1>12 DEF DeleteInv, Known
<1> QED BY <1>1, <1>5, <1>13 DEF MineInv

-----------------------------------------------------------------------------
(* What the handlers and Read of each kind are to be like.                 *)

CreateKeeps == \A w \in Configs : WorkCalls(Create(w), {})

\* An Update is about the objects that the state is about, but for these kinds.
Moving == {"credential", "secret_backend"}
Stays(cs, own) == WorkCalls(cs, own) /\ Ends(cs) \subseteq own

UpdateKeeps ==
  \A s, w : IsState(s) /\ (kind \notin {"ssh_key", "model"} => w \in Configs /\ ~Replaced(s, w))
              => WorkCalls(Update(s, w), KeysOf(s)) /\ (kind \notin Moving => Stays(Update(s, w), KeysOf(s)))

DeleteKeeps ==
  \A s : IsState(s) =>
    /\ DeleteCalls(Delete(s), KeysOf(s))
    /\ \A k \in KeysOf(s) : k \in Keys /\ Held(there[k]) =>
         setting.skip \/ \E i \in DOMAIN Delete(s) : Disposes(Delete(s)[i], k)

\* Read takes a state for one of the same objects, as far as they are there.
ReadKeeps ==
  /\ \A s : Readable(s) => \A state \in ReadOf(s) : state # None => IsState(state)
  /\ \A s : IsState(s) => \A state \in ReadOf(s) : \A k \in KeysOf(s) :
       k \in Keys /\ Held(there[k]) => state # None /\ k \in KeysOf(state)
  /\ \A k \in Keys : there[k] # None => \A s \in Importable(k) : Readable(s)

LEMMA GivesUp ==
  ASSUME NEW own
  PROVE  WorkCalls(<<fails>>, own) /\ DeleteCalls(<<fails>>, own) /\ Ends(<<fails>>) = {}
         /\ \A k : Disposes(fails, k)
<1>1. fails.op = "fails" /\ fails.soft = <<>>
  BY DEF fails, Call
<1> DEFINE cs == <<fails>>
<1>2. Len(cs) = 1 /\ DOMAIN cs = {1} /\ cs[1] = fails /\ cs \in Seq({fails}) /\ ToSet(cs) = {fails} /\ cs # <<>>
  BY DEF ToSet
<1> HIDE DEF cs
<1>3. Final(cs) /\ Ends(cs) = {}
  BY <1>1, <1>2 DEF Final, Ends
<1>4. WorkCalls(cs, own)
  BY <1>1, <1>2, <1>3 DEF WorkCalls, WorkCall, Within, KeepsNames, Changing, Removing
<1>5. DeleteCalls(cs, own)
  BY <1>1, <1>2, <1>3 DEF DeleteCalls, DeleteCall, Within, KeepsNames, Changing
<1> QED BY <1>1, <1>3, <1>4, <1>5 DEF cs, Disposes

\* A handler begins.
LEMMA Begins ==
  ASSUME NoneIsNoState, IInv, Begin, CreateKeeps, UpdateKeeps, DeleteKeeps
  PROVE  IInv'
<1>1. /\ calls = <<>> /\ pc \in {"create", "update", "delete"}
      /\ calls' = IF PlanRefused THEN <<fails>>
                  ELSE CASE pc = "create" -> Create(wanted)
                         [] pc = "update" -> Update(tfstate, Plan(tfstate, wanted))
                         [] pc = "delete" -> Delete(tfstate)
      /\ UNCHANGED <<wanted, tfstate, pc, kind, setting, there, dying, mine, excused>>
  BY DEF Begin
<1>2. mine \subseteq Known /\ HeldInv /\ ControlInv /\ ThereInv
  BY <1>1 DEF IInv, MineInv
<1>3. pc \in {"create", "update"} => WorkCalls(calls', Own)
  <2>1. CASE PlanRefused
    BY <2>1, <1>1, GivesUp
  <2>2. CASE ~PlanRefused /\ pc = "create"
    <3>1. calls' = Create(wanted) /\ wanted \in Configs /\ Own = {}
      BY <2>2, <1>1, <1>2 DEF ControlInv, Own, Stated
    <3> QED BY <3>1 DEF CreateKeeps
  <2>3. CASE ~PlanRefused /\ pc = "update"
    <3>1. calls' = Update(tfstate, Plan(tfstate, wanted)) /\ IsState(tfstate) /\ Own = KeysOf(tfstate)
      BY <2>3, <1>1, <1>2 DEF ControlInv, Own, Stated
    <3>2. kind \notin {"ssh_key", "model"} =>
            Plan(tfstate, wanted) \in Configs /\ ~Replaced(tfstate, Plan(tfstate, wanted))
      <4>1. kind \notin {"ssh_key", "model"} => Plan(tfstate, wanted) = wanted
        BY DEF Plan
      <4> QED BY <4>1, <2>3, <1>1, <1>2 DEF ControlInv
    <3> QED BY <3>1, <3>2, Zenon DEF UpdateKeeps
  <2> QED BY <2>1, <2>2, <2>3, <1>1
<1>4. pc = "delete" => /\ DeleteCalls(calls', Own)
                       /\ \A k \in Own \cap mine : setting.skip \/ \E i \in DOMAIN calls' : Disposes(calls'[i], k)
  <2>1. CASE PlanRefused
    <3>1. calls' = <<fails>> /\ 1 \in DOMAIN calls' /\ calls'[1] = fails
      BY <2>1, <1>1
    <3> QED BY <3>1, GivesUp
  <2>2. CASE ~PlanRefused /\ pc = "delete"
    <3>1. calls' = Delete(tfstate) /\ IsState(tfstate) /\ Own = KeysOf(tfstate)
      BY <2>2, <1>1, <1>2 DEF ControlInv, Own, Stated
    <3>2. \A k \in mine : k \in Keys /\ Held(there[k])
      BY <1>2 DEF HeldInv
    <3> QED BY <3>1, <3>2 DEF DeleteKeeps
  <2> QED BY <2>1, <2>2
<1>5. calls' # <<>>
  BY <1>1, <1>3, <1>4 DEF WorkCalls, DeleteCalls, Final
<1>6. Own' = Own /\ (WorkCalls(calls', Own) => WorkCalls(calls, Own)')
      /\ (DeleteCalls(calls', Own) => DeleteCalls(calls, Own)')
      /\ \A k : (\E i \in DOMAIN calls' : Disposes(calls'[i], k)) => (\E i \in DOMAIN calls : Disposes(calls[i], k))'
  <2>1. Stated(tfstate') = Own
    BY <1>1 DEF Own
  <2> QED BY <1>1, <2>1, SameKind
<1>7. MineInv'
  <2>1. (pc \in {"create", "update"})' => WorkInv'
    <3>1. pc = "create" => Own = {}
      BY <1>1, <1>2 DEF ControlInv, Own, Stated
    <3> QED BY <1>1, <1>2, <1>3, <1>6, <3>1 DEF WorkInv, Known
  <2>2. (pc = "delete")' => DeleteInv'
    BY <1>1, <1>2, <1>4, <1>6 DEF DeleteInv, Known
  <2> QED BY <2>1, <2>2, <1>5 DEF MineInv
<1>8. HeldInv' /\ ThereInv'
  BY <1>1, <1>2 DEF HeldInv, ThereInv, Held, ByName, AllKinds, Keys, IDs
<1>9. ControlInv'
  BY <1>1, <1>2, <1>5, SameKind DEF ControlInv, AllKinds
<1> QED BY <1>7, <1>8, <1>9 DEF IInv

\* A call is made.
LEMMA MadeKeeps ==
  ASSUME ThereInv, kind' = kind, NEW c, Made(c), ~Refuses(c, there), kind \in ByName => KeepsNames(c)
  PROVE  HeldInv' /\ ThereInv'
<1>1. \A k \in mine' : k \in Keys /\ Held(there'[k])
  BY MadeIsWithin DEF ThereInv
<1>2. HeldInv'
  BY <1>1 DEF HeldInv, Held
<1>3. ThereInv'
  BY NamesAreKept DEF Made
<1> QED BY <1>2, <1>3

LEMMA Steps ==
  ASSUME NoneIsNoState, IInv, Step
  PROVE  IInv'
<1> DEFINE c == Head(calls)
<1>1. /\ calls # <<>> /\ c.op # "returns" /\ ~Refuses(c, there) /\ Made(c)
      /\ IF c.op = "saves" THEN tfstate' = c.val ELSE tfstate' = tfstate
      /\ calls' = Tail(calls) /\ UNCHANGED <<wanted, pc, kind, setting>>
  BY DEF Step
<1>2. /\ \/ pc \in {"create", "update"} /\ WorkInv
         \/ pc = "delete" /\ DeleteInv
      /\ Final(calls) /\ 1 \in DOMAIN calls /\ c = calls[1] /\ (kind \in ByName => KeepsNames(c))
  BY <1>1, Running DEF IInv
<1>3. MineInv'
  BY <1>2, WorkSteps, DeleteSteps
<1>4. HeldInv' /\ ThereInv'
  BY <1>1, <1>2, MadeKeeps DEF IInv
<1>5. c.op \notin {"returns", "fails"}
  BY <1>1 DEF Refuses
<1>6. calls' # <<>>
  BY <1>1, <1>2, <1>5, GoesOn DEF Final
<1>7. tfstate' = tfstate \/ (tfstate' # None /\ IsState(tfstate'))
  <2>1. c.op = "saves" => IsState(c.val)
    BY <1>2 DEF WorkInv, DeleteInv, WorkCalls, DeleteCalls, WorkCall, DeleteCall
  <2> QED BY <1>1, <2>1, StatedOfState
<1>8. /\ Configs' = Configs
      /\ IsState(tfstate') => IsState(tfstate)'
  BY <1>1, SameKind
<1> HIDE DEF c
<1>9. ControlInv'
  BY <1>1, <1>2, <1>6, <1>7, <1>8 DEF ControlInv, IInv, AllKinds
<1> QED BY <1>3, <1>4, <1>9 DEF IInv

LEMMA OnlyReturns ==
  ASSUME NEW state, NEW own
  PROVE  /\ IsState(state) => WorkCalls(<<returns(state)>>, own)
         /\ DeleteCalls(<<returns(state)>>, own)
         /\ Ends(<<returns(state)>>) = KeysOf(state)
<1> DEFINE c == returns(state)
           cs == <<c>>
<1>1. c.op = "returns" /\ c.val = state /\ c.soft = <<>>
  BY DEF returns, Call
<1> HIDE DEF c
<1>2. Len(cs) = 1 /\ DOMAIN cs = {1} /\ cs[1] = c /\ cs \in Seq({c}) /\ ToSet(cs) = {c} /\ cs # <<>>
  BY DEF ToSet
<1> HIDE DEF cs
<1>3. Final(cs) /\ Ends(cs) = KeysOf(state)
  BY <1>1, <1>2 DEF Final, Ends
<1>4. IsState(state) => WorkCalls(cs, own)
  BY <1>1, <1>2, <1>3 DEF WorkCalls, WorkCall, Within, KeepsNames, Changing, Removing
<1>5. DeleteCalls(cs, own)
  BY <1>1, <1>2, <1>3 DEF DeleteCalls, DeleteCall, Within, KeepsNames, Changing
<1> QED BY <1>3, <1>4, <1>5 DEF cs, c

\* A call fails, with a warning or an error.
LEMMA FailsKeep ==
  ASSUME ControlInv, MineInv, calls # <<>>, kind' = kind, setting' = setting, dying \subseteq dying',
         Head(calls).op \notin {"returns", "saves"},
         \/ Fails(Head(calls), {}) /\ mine' = mine
         \/ Fails(Head(calls), mine' \ mine)
  PROVE  MineInv' /\ ControlInv'
<1> DEFINE c == Head(calls)
<1>1. /\ \/ pc \in {"create", "update"} /\ WorkInv
         \/ pc = "delete" /\ DeleteInv
      /\ Final(calls) /\ 1 \in DOMAIN calls /\ c = calls[1]
  BY Running
<1>2. /\ wanted' = wanted /\ tfstate' = tfstate /\ Stated(tfstate') = Own
      /\ excused \subseteq excused' /\ mine' \subseteq mine \cup excused'
      /\ \/ c.soft # <<>> /\ calls' = <<returns(c.soft[1])>> /\ pc' = pc
         \/ calls' = <<>> /\ pc' = "idle" /\ (kind \in Unsaved => mine' \subseteq excused' \cup Own)
  BY DEF Fails, Errored, Own
<1>3. /\ Own' = Own /\ Ends(calls)' = Ends(calls') /\ Configs' = Configs
      /\ IsState(tfstate') => IsState(tfstate)'
      /\ WorkCalls(calls', Own) => WorkCalls(calls, Own)'
      /\ DeleteCalls(calls', Own) => DeleteCalls(calls, Own)'
  BY <1>2, SameKind
<1>4. pc \in {"create", "update"} => WorkCall(c, Own, Ends(calls))
  BY <1>1 DEF WorkInv, WorkCalls
<1>5. pc = "delete" => (c.soft # <<>> => setting.skip)
  BY <1>1 DEF DeleteInv, DeleteCalls, DeleteCall
<1> HIDE DEF c
<1>6. CASE c.soft # <<>> /\ calls' = <<returns(c.soft[1])>> /\ pc' = pc
  <2>1. calls' # <<>> /\ calls'[1] = returns(c.soft[1]) /\ calls'[1].op = "returns"
    BY <1>6 DEF returns, Call
  <2>2. Ends(calls') = KeysOf(c.soft[1])
    BY <1>6, OnlyReturns
  <2>3. ASSUME pc \in {"create", "update"} PROVE WorkInv'
    <3>1. IsState(c.soft[1]) /\ Ends(calls') = Ends(calls)
      BY <1>4, <1>6, <2>2, <2>3 DEF WorkCall
    <3>2. WorkCalls(calls', Own)
      BY <1>6, <3>1, OnlyReturns
    <3>3. WorkInv
      BY <1>1, <2>3
    <3> QED BY <1>2, <1>3, <1>6, <2>1, <3>1, <3>2, <3>3 DEF WorkInv, Known
  <2>4. ASSUME pc = "delete" PROVE DeleteInv'
    <3>1. DeleteInv /\ setting.skip
      BY <1>1, <1>5, <1>6, <2>4
    <3>2. DeleteCalls(calls', Own)
      BY <1>6, OnlyReturns
    <3> QED BY <1>2, <1>3, <3>1, <3>2 DEF DeleteInv, Known
  <2>5. ControlInv'
    BY <1>1, <1>2, <1>3, <1>6, <2>1 DEF ControlInv, AllKinds
  <2> QED BY <1>6, <2>1, <2>3, <2>4, <2>5 DEF MineInv
<1>7. CASE calls' = <<>> /\ pc' = "idle" /\ (kind \in Unsaved => mine' \subseteq excused' \cup Own)
  <2>1. kind \notin Unsaved => mine \subseteq Known
    BY <1>1 DEF WorkInv, DeleteInv
  <2>2. mine' \subseteq dying' \cup excused' \cup Own
    BY <1>2, <1>7, <2>1 DEF Known
  <2>3. MineInv'
    BY <1>3, <1>7, <2>2 DEF MineInv, Known
  <2>4. ControlInv'
    BY <1>2, <1>3, <1>7 DEF ControlInv, AllKinds
  <2> QED BY <2>3, <2>4
<1> QED BY <1>2, <1>6, <1>7

LEMMA Failures ==
  ASSUME NoneIsNoState, IInv, Refused \/ CallFails \/ AnswerLost
  PROVE  IInv'
<1> DEFINE c == Head(calls)
<1>1. CASE Refused \/ CallFails
  <2>1. /\ calls # <<>> /\ c.op \notin {"returns", "saves"}
        /\ mine' = mine /\ Fails(c, {}) /\ UNCHANGED <<kind, setting, there, dying>>
    BY <1>1 DEF Refused, CallFails, Refuses
  <2>2. MineInv' /\ ControlInv'
    BY <2>1, FailsKeep DEF IInv
  <2>3. HeldInv' /\ ThereInv'
    BY <2>1 DEF IInv, HeldInv, ThereInv, Held, ByName, AllKinds, Keys, IDs
  <2> QED BY <2>2, <2>3 DEF IInv
<1>2. CASE AnswerLost
  <2>1. /\ calls # <<>> /\ c.op \notin {"returns", "saves"} /\ ~Refuses(c, there) /\ Made(c)
        /\ Fails(c, mine' \ mine) /\ UNCHANGED <<kind, setting>>
    BY <1>2 DEF AnswerLost
  <2>2. dying \subseteq dying'
    BY <2>1 DEF Made
  <2>3. MineInv' /\ ControlInv'
    BY <2>1, <2>2, FailsKeep DEF IInv
  <2>4. kind \in ByName => KeepsNames(c)
    BY <2>1, Running DEF IInv
  <2>5. HeldInv' /\ ThereInv'
    BY <2>1, <2>4, MadeKeeps DEF IInv
  <2> QED BY <2>3, <2>5 DEF IInv
<1> QED BY <1>1, <1>2

\* Create or Update returns.
LEMMA Returns ==
  ASSUME NoneIsNoState, IInv, Returned
  PROVE  IInv'
<1> DEFINE state == Head(calls).val
<1>1. /\ calls # <<>> /\ pc \in {"create", "update"} /\ Head(calls).op = "returns"
      /\ tfstate' = state
      /\ excused' = (excused \cup (IF pc = "update" THEN KeysOf(tfstate) ELSE {})) \ KeysOf(state)
      /\ pc' = "idle" /\ calls' = <<>> /\ UNCHANGED <<wanted, kind, setting, there, dying, mine>>
  BY DEF Returned
<1>2. WorkInv /\ Final(calls) /\ 1 \in DOMAIN calls /\ Head(calls) = calls[1] /\ ControlInv
  BY <1>1, Running DEF IInv
<1>3. Ends(calls) = KeysOf(state)
  BY <1>1, <1>2, Returning
<1>4. IsState(state) /\ Stated(tfstate') = KeysOf(state)
  <2>1. IsState(state)
    BY <1>1, <1>2 DEF WorkInv, WorkCalls, WorkCall
  <2> QED BY <1>1, <2>1, StatedOfState
<1> HIDE DEF state
<1>5. pc = "update" => Own = KeysOf(tfstate)
  BY <1>2 DEF ControlInv, Own, Stated
<1>6. /\ Own' = Stated(tfstate') /\ Configs' = Configs
      /\ IsState(tfstate') => IsState(tfstate)'
  BY <1>1, SameKind
<1>7. MineInv'
  <2>1. mine' \subseteq dying' \cup excused' \cup Stated(tfstate')
    BY <1>1, <1>2, <1>3, <1>4, <1>5 DEF WorkInv, Known
  <2> QED BY <1>1, <1>6, <2>1 DEF MineInv, Known
<1>8. ControlInv'
  BY <1>1, <1>2, <1>4, <1>6 DEF ControlInv, AllKinds
<1>9. HeldInv' /\ ThereInv'
  BY <1>1 DEF IInv, HeldInv, ThereInv, Held, ByName, AllKinds, Keys, IDs
<1> QED BY <1>7, <1>8, <1>9 DEF IInv

\* Delete returns.
LEMMA Deletes ==
  ASSUME IInv, Deleted
  PROVE  IInv'
<1>1. /\ calls # <<>> /\ pc = "delete" /\ Head(calls).op = "returns"
      /\ tfstate' = None /\ pc' = (IF wanted = None THEN "idle" ELSE "create") /\ wanted' = wanted
      /\ calls' = <<>>
      /\ excused' = IF setting.skip THEN excused \cup mine ELSE excused
      /\ UNCHANGED <<kind, setting, there, dying, mine>>
  BY DEF Deleted, Destroyed
<1>2. DeleteInv /\ Final(calls) /\ 1 \in DOMAIN calls /\ Head(calls) = calls[1] /\ ControlInv
  BY <1>1, Running DEF IInv
<1>3. \A i \in DOMAIN calls : \A k : ~Disposes(calls[i], k)
  BY <1>1, <1>2, Returning DEF Disposes
<1>4. mine' \subseteq dying' \cup excused'
  BY <1>1, <1>2, <1>3 DEF DeleteInv, Known
<1>5. Configs' = Configs
  BY <1>1, SameKind
<1>6. MineInv'
  BY <1>1, <1>4 DEF MineInv, Known
<1>7. ControlInv'
  BY <1>1, <1>2, <1>5 DEF ControlInv, AllKinds
<1>8. HeldInv' /\ ThereInv'
  BY <1>1 DEF IInv, HeldInv, ThereInv, Held, ByName, AllKinds, Keys, IDs
<1> QED BY <1>6, <1>7, <1>8 DEF IInv

\* Read, and Import by it.
LEMMA Reads ==
  ASSUME NoneIsNoState, ReadKeeps, IInv, Read \/ ReadFails
  PROVE  IInv'
<1>1. CASE Read
  <2>1. PICK state \in ReadOf(tfstate) :
          LET plan == IF wanted = None THEN None ELSE Plan(state, wanted) IN
          /\ Refreshed(state, plan # None /\ state # None /\ AgreesWith(state, plan),
                       plan # None /\ state # None /\ Replaced(state, plan))
          /\ mine' = IF state = None THEN mine ELSE HeldOf(mine \cup KeysOf(state), there)
          /\ excused' = IF state = None THEN excused ELSE excused \ KeysOf(state)
    BY <1>1 DEF Read
  <2>2. pc = "read" /\ calls' = calls /\ UNCHANGED <<kind, setting, there, dying>>
    BY <1>1 DEF Read
  <2>3. /\ tfstate' = state /\ wanted' = wanted /\ pc' \in {"idle", "create", "delete", "update"}
        /\ pc' = "create" => tfstate' = None /\ wanted # None
        /\ pc' \in {"delete", "update"} => tfstate' # None
        /\ pc' = "update" => wanted # None /\ (Plan(state, wanted) # None => ~Replaced(state, Plan(state, wanted)))
    BY <2>1 DEF Refreshed, Planned
  <2>4. calls = <<>> /\ mine \subseteq Known /\ tfstate # None /\ IsState(tfstate) /\ Own = KeysOf(tfstate)
    BY <2>2 DEF IInv, ControlInv, MineInv, Own, Stated
  <2>5. /\ state # None => IsState(state) /\ Stated(tfstate') = KeysOf(state)
        /\ \A k \in KeysOf(tfstate) : k \in Keys /\ Held(there[k]) => state # None /\ k \in KeysOf(state)
    BY <2>3, <2>4, StatedOfState DEF ReadKeeps, IsState
  <2>6. mine' \subseteq dying' \cup excused' \cup Stated(tfstate')
    <3>1. \A k \in mine : k \in Keys /\ Held(there[k])
      BY DEF IInv, HeldInv
    <3>2. CASE state = None
      BY <3>1, <3>2, <2>1, <2>2, <2>4, <2>5 DEF Known
    <3>3. CASE state # None
      BY <3>1, <3>3, <2>1, <2>2, <2>4, <2>5 DEF Known, HeldOf
    <3> QED BY <3>2, <3>3
  <2>7. /\ Own' = Stated(tfstate') /\ Configs' = Configs
        /\ IsState(tfstate') => IsState(tfstate)'
        /\ Replaced(tfstate', wanted') <=> Replaced(tfstate, wanted)'
    BY <2>2, SameKind
  <2>8. MineInv'
    BY <2>2, <2>4, <2>6, <2>7 DEF MineInv, Known
  <2>9. pc' = "update" /\ kind \notin {"ssh_key", "model"} => ~Replaced(tfstate', wanted')
    <3>1. kind \notin {"ssh_key", "model"} => Plan(state, wanted) = wanted
      BY DEF Plan
    <3> QED BY <2>3, <3>1
  <2>10. ControlInv'
    BY <2>2, <2>3, <2>4, <2>5, <2>7, <2>9 DEF IInv, ControlInv, AllKinds
  <2>11. HeldInv' /\ ThereInv'
    <3>1. \A k \in mine' : k \in Keys /\ Held(there[k])
      BY <2>1 DEF IInv, HeldInv, HeldOf
    <3> QED BY <2>2, <3>1 DEF IInv, HeldInv, ThereInv, Held, ByName, AllKinds, Keys, IDs
  <2> QED BY <2>8, <2>10, <2>11 DEF IInv
<1>2. CASE ReadFails
  <2>1. pc = "read" /\ pc' = "idle" /\ UNCHANGED <<wanted, tfstate, kind, setting, there, dying, calls, mine, excused>>
    BY <1>2 DEF ReadFails, Errored
  <2>2. calls = <<>> /\ mine \subseteq Known
    BY <2>1 DEF IInv, ControlInv, MineInv
  <2>3. Own' = Own /\ Configs' = Configs /\ (IsState(tfstate') => IsState(tfstate)')
    <3>1. Stated(tfstate') = Own
      BY <2>1 DEF Own
    <3> QED BY <2>1, <3>1, SameKind
  <2>4. MineInv'
    BY <2>1, <2>2, <2>3 DEF MineInv, Known
  <2>5. ControlInv'
    BY <2>1, <2>2, <2>3 DEF IInv, ControlInv, AllKinds
  <2>6. HeldInv' /\ ThereInv'
    BY <2>1 DEF IInv, HeldInv, ThereInv, Held, ByName, AllKinds, Keys, IDs
  <2> QED BY <2>4, <2>5, <2>6 DEF IInv
<1> QED BY <1>1, <1>2

LEMMA Imports ==
  ASSUME NoneIsNoState, ReadKeeps, IInv, Import
  PROVE  IInv'
<1>1. /\ pc = "idle" /\ tfstate = None
      /\ UNCHANGED <<wanted, pc, kind, setting, there, dying, calls>>
  BY DEF Import
<1>2. PICK k \in Keys \ dying : there[k] # None /\
        \E s \in Importable(k) : \E state \in ReadOf(s) \ {None} :
            /\ tfstate' = state
            /\ mine' = HeldOf(mine \cup KeysOf(state), there)
            /\ excused' = excused \ KeysOf(state)
  BY DEF Import
<1>3. PICK s \in Importable(k) : \E state \in ReadOf(s) \ {None} :
            /\ tfstate' = state
            /\ mine' = HeldOf(mine \cup KeysOf(state), there)
            /\ excused' = excused \ KeysOf(state)
  BY <1>2
<1>4. PICK state \in ReadOf(s) \ {None} :
            /\ tfstate' = state
            /\ mine' = HeldOf(mine \cup KeysOf(state), there)
            /\ excused' = excused \ KeysOf(state)
  BY <1>3
<1>5. Readable(s)
  BY <1>2, <1>3 DEF ReadKeeps
<1>6. IsState(state) /\ state # None /\ Stated(tfstate') = KeysOf(state)
  BY <1>4, <1>5, StatedOfState DEF ReadKeeps
<1>7. calls = <<>> /\ mine \subseteq dying \cup excused
  BY <1>1 DEF IInv, ControlInv, MineInv, Known, Own, Stated
<1>8. mine' \subseteq dying' \cup excused' \cup Stated(tfstate')
  BY <1>1, <1>4, <1>6, <1>7 DEF HeldOf
<1>9. Own' = Stated(tfstate') /\ Configs' = Configs /\ (IsState(tfstate') => IsState(tfstate)')
  BY <1>1, SameKind
<1>10. MineInv'
  BY <1>1, <1>7, <1>8, <1>9 DEF MineInv, Known
<1>11. ControlInv'
  BY <1>1, <1>4, <1>6, <1>7, <1>9 DEF IInv, ControlInv, AllKinds
<1>12. HeldInv' /\ ThereInv'
  <2>1. \A j \in mine' : j \in Keys /\ Held(there[j])
    BY <1>4 DEF HeldOf
  <2> QED BY <1>1, <2>1 DEF IInv, HeldInv, ThereInv, Held, ByName, AllKinds, Keys, IDs
<1> QED BY <1>10, <1>11, <1>12 DEF IInv

\* An object goes, or somebody changes one.
LEMMA FewerAreMine ==
  ASSUME IInv, UNCHANGED <<wanted, tfstate, pc, kind, setting, calls, excused>>,
         mine' \subseteq mine, dying \cap mine' \subseteq dying',
         \A k \in mine' : Held(there'[k]), ThereInv'
  PROVE  IInv'
<1>1. /\ Own' = Own /\ Ends(calls)' = Ends(calls) /\ Configs' = Configs
      /\ Replaced(tfstate, wanted)' <=> Replaced(tfstate, wanted)
      /\ IsState(tfstate) => IsState(tfstate)'
      /\ WorkCalls(calls, Own) => WorkCalls(calls, Own)'
      /\ DeleteCalls(calls, Own) => DeleteCalls(calls, Own)'
      /\ \A k : (\E i \in DOMAIN calls : Disposes(calls[i], k)) => (\E i \in DOMAIN calls : Disposes(calls[i], k))'
      /\ \A k : Held(there'[k]) => Held(there[k])'
  <2>1. /\ tfstate' = tfstate /\ calls' = calls /\ wanted' = wanted /\ kind' = kind /\ setting' = setting
        /\ Stated(tfstate') = Own
    BY DEF Own
  <2>2. /\ WorkCalls(calls', Stated(tfstate')) <=> WorkCalls(calls, Own)
        /\ DeleteCalls(calls', Stated(tfstate')) <=> DeleteCalls(calls, Own)
    BY <2>1
  <2>3. /\ Replaced(tfstate', wanted') <=> Replaced(tfstate, wanted)
        /\ Ends(calls') = Ends(calls) /\ (IsState(tfstate') <=> IsState(tfstate))
    BY <2>1
  <2>4. \A k : (\E i \in DOMAIN calls' : Disposes(calls'[i], k)) <=> (\E i \in DOMAIN calls : Disposes(calls[i], k))
    BY <2>1
  <2> QED BY <2>1, <2>2, <2>3, <2>4, SameKind
<1>2. WorkInv => WorkInv'
  BY <1>1 DEF WorkInv, Known, Unsaved
<1>3. DeleteInv => DeleteInv'
  BY <1>1 DEF DeleteInv, Known
<1>4. MineInv'
  BY <1>1, <1>2, <1>3 DEF IInv, MineInv, Known
<1>5. ControlInv'
  BY <1>1 DEF IInv, ControlInv, AllKinds
<1>6. HeldInv'
  BY <1>1 DEF IInv, HeldInv, Keys, IDs
<1> QED BY <1>4, <1>5, <1>6 DEF IInv

LEMMA Vanishes ==
  ASSUME IInv, Vanish
  PROVE  IInv'
<1>1. PICK k \in dying :
        /\ there' = [there EXCEPT ![k] = None]
        /\ dying' = dying \ {k} /\ mine' = mine \ {k}
        /\ UNCHANGED <<wanted, tfstate, pc, kind, setting, calls, excused>>
  BY DEF Vanish
<1>2. DOMAIN there = Keys /\ \A j \in Keys : j # k => there'[j] = there[j]
  BY <1>1 DEF IInv, ThereInv
<1>3. \A j \in mine' : Held(there'[j])
  BY <1>1, <1>2 DEF IInv, HeldInv
<1>4. ThereInv'
  BY <1>1 DEF IInv, ThereInv, ByName, AllKinds, Keys, IDs
<1> QED BY <1>1, <1>3, <1>4, FewerAreMine

\* What somebody else makes of an object has its name.
LEMMA ObjectsHaveNames ==
  ASSUME kind \in ByName, NEW obj \in Objects
  PROVE  /\ "name" \in DOMAIN obj
         /\ kind = "subnet" => "space" \in DOMAIN obj
<1>1. CASE kind = "jaas_controller"
  BY <1>1 DEF Objects
<1>2. CASE kind = "kubernetes_cloud"
  BY <1>2 DEF Objects
<1>3. CASE kind = "secret_backend"
  BY <1>3 DEF Objects
<1>4. CASE kind = "offer"
  BY <1>4 DEF Objects
<1>5. CASE kind = "space"
  BY <1>5 DEF Objects
<1>6. CASE kind = "application"
  BY <1>6 DEF Objects, Apps
<1>7. CASE kind = "user"
  BY <1>7 DEF Objects, Configs, UserConfigs
<1>8. CASE kind = "cloud"
  BY <1>8 DEF Objects, Configs, CloudConfigs
<1>9. CASE kind = "subnet"
  BY <1>9 DEF Objects, Configs, SubnetConfigs
<1>10. CASE kind = "storage_pool"
  BY <1>10 DEF Objects, Configs, StoragePoolConfigs
<1>11. CASE kind = "ssh_key"
  BY <1>11 DEF Objects, Configs, SSHKeyConfigs
<1> QED BY <1>1, <1>2, <1>3, <1>4, <1>5, <1>6, <1>7, <1>8, <1>9, <1>10, <1>11 DEF ByName, AllKinds

LEMMA OthersChange ==
  ASSUME IInv, OutsideChange
  PROVE  IInv'
<1>1. UNCHANGED <<wanted, tfstate, pc, kind, setting, dying, calls, excused>>
  BY DEF OutsideChange
<1>2. PICK k \in Keys \ dying, obj \in Objects \cup {None} :
        /\ (obj # None /\ there[k] = None) => Fits(k, obj)
        /\ (obj # None /\ there[k] # None) =>
             \E x \in DOMAIN obj : /\ Without(obj, With(x)) = Without(there[k], With(x))
                                   /\ x = "name" => (kind \in {"group", "role", "secret"} /\ HoldersOf(obj.name, there) = {})
        /\ there' = [there EXCEPT ![k] = obj]
        /\ mine' = {j \in mine : Held(there'[j]) /\ (j = k => there[k] # None)}
  BY DEF OutsideChange
<1>3. ASSUME kind \in ByName, obj # None
      PROVE  /\ "name" \in DOMAIN obj /\ obj.name = k
             /\ kind = "subnet" => "space" \in DOMAIN obj
  <2>1. "name" \in DOMAIN obj /\ (kind = "subnet" => "space" \in DOMAIN obj)
    BY <1>2, <1>3, ObjectsHaveNames
  <2>2. CASE there[k] = None
    <3>1. Fits(k, obj)
      BY <1>2, <1>3, <2>2
    <3>2. k = obj.name
      BY <3>1, <1>3 DEF Fits, ByName, IDKinds
    <3> QED BY <2>1, <3>2
  <2>3. CASE there[k] # None
    <3>1. PICK x \in DOMAIN obj : x # "name" /\ Without(obj, With(x)) = Without(there[k], With(x))
      BY <1>2, <1>3, <2>3 DEF ByName
    <3>2. "name" \notin With(x)
      BY <3>1 DEF With
    <3>3. "name" \in DOMAIN there[k] /\ there[k].name = k
      BY <1>2, <1>3, <2>3 DEF IInv, ThereInv
    <3>4. Without(obj, With(x)).name = obj.name /\ Without(there[k], With(x)).name = there[k].name
      BY <2>1, <3>2, <3>3 DEF Without
    <3> QED BY <2>1, <3>1, <3>3, <3>4
  <2> QED BY <2>2, <2>3
<1>4. ThereInv'
  BY <1>1, <1>2, <1>3 DEF IInv, ThereInv, ByName, AllKinds, Keys, IDs
<1>5. mine' \subseteq mine /\ \A j \in mine' : Held(there'[j])
  BY <1>2
<1> QED BY <1>1, <1>4, <1>5, FewerAreMine

\* The configuration is edited, and an apply begins.
LEMMA EditsAndStarts ==
  ASSUME IInv, EditConfig \/ Start
  PROVE  IInv'
<1>1. UNCHANGED <<tfstate, kind, setting, there, dying, calls, mine, excused>>
  BY DEF EditConfig, Edit, Start, BeginApply
<1>2. pc = "idle" /\ calls = <<>> /\ mine \subseteq Known
  BY DEF EditConfig, Edit, Start, BeginApply, IInv, ControlInv, MineInv
<1>3. /\ wanted' \in Configs \cup {None} /\ pc' \in {"idle", "create", "read"}
      /\ pc' = "create" => tfstate = None /\ wanted' # None
      /\ pc' = "read" => tfstate # None
  BY DEF EditConfig, Edit, Start, BeginApply, IInv, ControlInv
<1>4. Own' = Own /\ Configs' = Configs /\ (IsState(tfstate') => IsState(tfstate)')
  <2>1. Stated(tfstate') = Own
    BY <1>1 DEF Own
  <2> QED BY <1>1, <2>1, SameKind
<1>5. MineInv'
  BY <1>1, <1>2, <1>3, <1>4 DEF MineInv, Known
<1>6. ControlInv'
  BY <1>1, <1>2, <1>3, <1>4 DEF IInv, ControlInv, AllKinds
<1>7. HeldInv' /\ ThereInv'
  BY <1>1 DEF IInv, HeldInv, ThereInv, Held, ByName, AllKinds, Keys, IDs
<1> QED BY <1>5, <1>6, <1>7 DEF IInv

LEMMA Begun == Init => IInv
<1> SUFFICES ASSUME Init PROVE IInv
  OBVIOUS
<1>1. kind \in AllKinds /\ wanted \in Configs /\ tfstate = None /\ pc = "idle" /\ calls = <<>> /\ mine = {}
      /\ there = [k \in Keys |-> IF kind = "subnet" /\ k \in Names THEN [name |-> k, space |-> "alpha"] ELSE None]
  BY KindsAssumption DEF Init, TerraformInit
<1>2. ThereInv
  BY <1>1 DEF ThereInv
<1> QED BY <1>1, <1>2 DEF IInv, HeldInv, ControlInv, MineInv

LEMMA Continued ==
  ASSUME NoneIsNoState, CreateKeeps, UpdateKeeps, DeleteKeeps, ReadKeeps, IInv, [Next]_vars
  PROVE  IInv'
<1>1. CASE UNCHANGED vars
  <2>1. mine' \subseteq mine /\ dying \cap mine' \subseteq dying' /\ (\A k \in mine' : Held(there'[k])) /\ ThereInv'
    BY <1>1 DEF vars, IInv, HeldInv, ThereInv, ByName, AllKinds, Keys, IDs
  <2> QED BY <1>1, <2>1, FewerAreMine DEF vars
<1> QED BY <1>1, Begins, Steps, Failures, Returns, Deletes, Reads, Imports, Vanishes, OthersChange, EditsAndStarts
        DEF Next, ApplyStep

-----------------------------------------------------------------------------
(* Putting calls together.                                                 *)

\* Putting two sequences together gives the third.
LEMMA Spliced ==
  ASSUME NEW T, NEW s \in Seq(T), NEW e \in Seq(T), NEW t \in Seq(T), Len(t) = Len(s) + Len(e),
         \A i \in 1..Len(s) : t[i] = s[i], \A i \in 1..Len(e) : t[Len(s) + i] = e[i]
  PROVE  s \o e = t
<1>1. /\ s \o e \in Seq(T) /\ Len(s \o e) = Len(s) + Len(e)
      /\ \A i \in 1..(Len(s) + Len(e)) : (s \o e)[i] = IF i <= Len(s) THEN s[i] ELSE e[i - Len(s)]
  BY ConcatProperties
<1>2. ASSUME NEW i \in 1..(Len(s) + Len(e)) PROVE (s \o e)[i] = t[i]
  <2>1. CASE i <= Len(s)
    BY <1>1, <2>1
  <2>2. CASE ~(i <= Len(s))
    <3>1. i - Len(s) \in 1..Len(e) /\ Len(s) + (i - Len(s)) = i
      BY <2>2
    <3> QED BY <1>1, <2>2, <3>1
  <2> QED BY <2>1, <2>2
<1> QED BY <1>1, <1>2, SeqEqual

LEMMA Tuples ==
  ASSUME NEW x1, NEW x2, NEW x3
  PROVE  /\ <<>> \o <<x1>> = <<x1>>
         /\ <<x1>> \o <<x2>> = <<x1, x2>>
         /\ <<x1, x2>> \o <<x3>> = <<x1, x2, x3>>
         /\ <<x1>> \o <<x2, x3>> = <<x1, x2, x3>>
<1> DEFINE S == {x1, x2, x3}
<1>1. <<>> \o <<x1>> = <<x1>>
  <2> DEFINE s == <<x1>>
  <2>1. s \in Seq(S)
    OBVIOUS
  <2> HIDE DEF s, S
  <2> QED BY <2>1, ConcatEmptySeq DEF s
<1>2. <<x1>> \o <<x2>> = <<x1, x2>>
  <2> DEFINE s == <<x1>>
             e == <<x2>>
             t == <<x1, x2>>
  <2>1. s \in Seq(S) /\ e \in Seq(S) /\ t \in Seq(S) /\ Len(s) = 1 /\ Len(e) = 1 /\ Len(t) = 2
    OBVIOUS
  <2>2. t[1] = s[1] /\ t[2] = e[1]
    OBVIOUS
  <2> HIDE DEF s, e, t, S
  <2>3. Len(t) = Len(s) + Len(e) /\ (\A i \in 1..Len(s) : t[i] = s[i]) /\ \A i \in 1..Len(e) : t[Len(s) + i] = e[i]
    BY <2>1, <2>2
  <2>4. s \o e = t
    BY <2>1, <2>3, Spliced, Zenon
  <2> QED BY <2>4 DEF s, e, t
<1>3. <<x1, x2>> \o <<x3>> = <<x1, x2, x3>>
  <2> DEFINE s == <<x1, x2>>
             e == <<x3>>
             t == <<x1, x2, x3>>
  <2>1. s \in Seq(S) /\ e \in Seq(S) /\ t \in Seq(S) /\ Len(s) = 2 /\ Len(e) = 1 /\ Len(t) = 3
    OBVIOUS
  <2>2. t[1] = s[1] /\ t[2] = s[2] /\ t[3] = e[1]
    OBVIOUS
  <2> HIDE DEF s, e, t, S
  <2>3. Len(t) = Len(s) + Len(e) /\ (\A i \in 1..Len(s) : t[i] = s[i]) /\ \A i \in 1..Len(e) : t[Len(s) + i] = e[i]
    BY <2>1, <2>2
  <2>4. s \o e = t
    BY <2>1, <2>3, Spliced, Zenon
  <2> QED BY <2>4 DEF s, e, t
<1>4. <<x1>> \o <<x2, x3>> = <<x1, x2, x3>>
  <2> DEFINE s == <<x1>>
             e == <<x2, x3>>
             t == <<x1, x2, x3>>
  <2>1. s \in Seq(S) /\ e \in Seq(S) /\ t \in Seq(S) /\ Len(s) = 1 /\ Len(e) = 2 /\ Len(t) = 3
    OBVIOUS
  <2>2. t[1] = s[1] /\ t[2] = e[1] /\ t[3] = e[2]
    OBVIOUS
  <2> HIDE DEF s, e, t, S
  <2>3. Len(t) = Len(s) + Len(e) /\ (\A i \in 1..Len(s) : t[i] = s[i]) /\ \A i \in 1..Len(e) : t[Len(s) + i] = e[i]
    BY <2>1, <2>2
  <2>4. s \o e = t
    BY <2>1, <2>3, Spliced, Zenon
  <2> QED BY <2>4 DEF s, e, t
<1> QED BY <1>1, <1>2, <1>3, <1>4

LEMMA LongerTuples ==
  ASSUME NEW x1, NEW x2, NEW x3, NEW x4
  PROVE  <<x1, x2, x3>> \o <<x4>> = <<x1, x2, x3, x4>>
<1> DEFINE S == {x1, x2, x3, x4}
<1> DEFINE s == <<x1, x2, x3>>
           e == <<x4>>
           t == <<x1, x2, x3, x4>>
<1>1. s \in Seq(S) /\ e \in Seq(S) /\ t \in Seq(S) /\ Len(s) = 3 /\ Len(e) = 1 /\ Len(t) = 4
  OBVIOUS
<1>2. t[1] = s[1] /\ t[2] = s[2] /\ t[3] = s[3] /\ t[4] = e[1]
  OBVIOUS
<1> HIDE DEF s, e, t, S
<1>3. Len(t) = Len(s) + Len(e) /\ (\A i \in 1..Len(s) : t[i] = s[i]) /\ \A i \in 1..Len(e) : t[Len(s) + i] = e[i]
  BY <1>1, <1>2
<1>4. s \o e = t
  BY <1>1, <1>3, Spliced, Zenon
<1> QED BY <1>4 DEF s, e, t

LEMMA TwoTuples ==
  ASSUME NEW x1, NEW x2, NEW x3, NEW x4
  PROVE  <<x1, x2>> \o <<x3, x4>> = <<x1, x2, x3, x4>>
<1> DEFINE S == {x1, x2, x3, x4}
<1> DEFINE s == <<x1, x2>>
           e == <<x3, x4>>
           t == <<x1, x2, x3, x4>>
<1>1. s \in Seq(S) /\ e \in Seq(S) /\ t \in Seq(S) /\ Len(s) = 2 /\ Len(e) = 2 /\ Len(t) = 4
  OBVIOUS
<1>2. t[1] = s[1] /\ t[2] = s[2] /\ t[3] = e[1] /\ t[4] = e[2]
  OBVIOUS
<1> HIDE DEF s, e, t, S
<1>3. Len(t) = Len(s) + Len(e) /\ (\A i \in 1..Len(s) : t[i] = s[i]) /\ \A i \in 1..Len(e) : t[Len(s) + i] = e[i]
  BY <1>1, <1>2
<1>4. s \o e = t
  BY <1>1, <1>3, Spliced, Zenon
<1> QED BY <1>4 DEF s, e, t

LEMMA LastOne ==
  ASSUME NEW S, NEW body \in Seq(S), NEW end, end.op \in {"returns", "fails"}, \A c \in S : c.op # "returns"
  PROVE  LET cs == body \o <<end>> IN
         /\ Final(cs) /\ cs[Len(cs)] = end /\ Len(cs) \in Nat /\ DOMAIN cs = 1..Len(cs)
         /\ \A i \in DOMAIN cs : cs[i] = end \/ cs[i] \in S
         /\ \A i \in DOMAIN body : i \in DOMAIN cs /\ cs[i] = body[i]
<1> DEFINE cs == body \o <<end>>
           T == S \cup {end}
<1>1. body \in Seq(T) /\ <<end>> \in Seq(T) /\ Len(<<end>>) = 1 /\ <<end>>[1] = end
  OBVIOUS
<1>2. /\ cs \in Seq(T)
      /\ Len(cs) = Len(body) + 1
      /\ \A i \in 1 .. Len(body) + 1 : cs[i] = IF i <= Len(body) THEN body[i] ELSE <<end>>[i - Len(body)]
  <2> HIDE DEF T
  <2> QED BY <1>1, ConcatProperties
<1> HIDE DEF cs
<1>3. Len(body) \in Nat /\ DOMAIN body = 1..Len(body) /\ DOMAIN cs = 1..(Len(body) + 1)
  BY <1>2
<1>4. cs[Len(cs)] = end
  BY <1>1, <1>2, <1>3
<1>5. \A i \in 1..Len(body) : cs[i] = body[i] /\ body[i] \in S
  BY <1>2, <1>3
<1>6. \A i \in DOMAIN cs : i = Len(cs) \/ i \in 1..Len(body)
  BY <1>2, <1>3
<1>7. \A i \in DOMAIN cs : cs[i].op = "returns" => i = Len(cs)
  BY <1>5, <1>6
<1>8. Final(cs)
  <2>1. cs \in Seq(ToSet(cs))
    BY <1>2, ItsOwnCalls
  <2> QED BY <2>1, <1>2, <1>3, <1>4, <1>7 DEF Final
<1> QED BY <1>2, <1>3, <1>4, <1>5, <1>6, <1>8 DEF cs

\* Create and Update of the kinds whose failures are excused.
LEMMA WorkOf ==
  ASSUME kind \in Unsaved, NEW S, NEW body \in Seq(S), NEW own, NEW state, IsState(state),
         \A c \in S : c.op # "returns" /\ WorkCall(c, own, KeysOf(state))
  PROVE  WorkCalls(body \o <<returns(state)>>, own) /\ Last(body \o <<returns(state)>>) = returns(state)
         /\ Ends(body \o <<returns(state)>>) = KeysOf(state)
<1> DEFINE end == returns(state)
           cs == body \o <<end>>
<1>1. end.op = "returns" /\ end.val = state /\ end.soft = <<>>
  BY DEF returns, Call
<1>2. WorkCall(end, own, KeysOf(state))
  BY <1>1 DEF WorkCall, Within, KeepsNames, Changing, Removing
<1> HIDE DEF end
<1>3. /\ Final(cs) /\ cs[Len(cs)] = end
      /\ \A i \in DOMAIN cs : cs[i] = end \/ cs[i] \in S
  BY <1>1, LastOne
<1> HIDE DEF cs
<1>4. Ends(cs) = KeysOf(state)
  BY <1>1, <1>3 DEF Ends
<1>5. WorkCalls(cs, own)
  BY <1>2, <1>3, <1>4 DEF WorkCalls
<1> QED BY <1>3, <1>4, <1>5 DEF cs, end, Last

LEMMA WorkThatStays ==
  ASSUME kind \in Unsaved, NEW S, NEW body \in Seq(S), NEW own, NEW state, IsState(state), KeysOf(state) = own,
         \A c \in S : c.op # "returns" /\ WorkCall(c, own, KeysOf(state))
  PROVE  Stays(body \o <<returns(state)>>, own)
<1> DEFINE cs == body \o <<returns(state)>>
<1>1. WorkCalls(cs, own) /\ Ends(cs) = KeysOf(state)
  BY WorkOf
<1> HIDE DEF cs
<1> QED BY <1>1 DEF cs, Stays

LEMMA WorkThatFails ==
  ASSUME kind \in Unsaved, NEW S, NEW cs \in Seq(S), cs # <<>>, NEW own, cs[Len(cs)].op = "fails",
         \A c \in S : c.op # "returns" /\ WorkCall(c, own, {})
  PROVE  WorkCalls(cs, own) /\ Ends(cs) = {}
<1>1. \A i \in DOMAIN cs : cs[i] \in S
  OBVIOUS
<1>2. Final(cs) /\ Ends(cs) = {}
  <2>1. cs \in Seq(ToSet(cs))
    BY ItsOwnCalls
  <2> QED BY <1>1, <2>1 DEF Final, Ends
<1> QED BY <1>1, <1>2 DEF WorkCalls

\* One call, whatever the kind.
LEMMA WorkOfOne ==
  ASSUME NEW c, c.op # "returns", NEW own, NEW state, IsState(state), WorkCall(c, own, KeysOf(state))
  PROVE  WorkCalls(<<c, returns(state)>>, own) /\ Last(<<c, returns(state)>>) = returns(state)
         /\ Ends(<<c, returns(state)>>) = KeysOf(state)
<1> DEFINE end == returns(state)
           cs == <<c, end>>
<1>1. end.op = "returns" /\ end.val = state /\ end.soft = <<>>
  BY DEF returns, Call
<1>2. WorkCall(end, own, KeysOf(state))
  BY <1>1 DEF WorkCall, Within, KeepsNames, Changing, Removing
<1> HIDE DEF end
<1>3. Final(cs) /\ Len(cs) = 2 /\ cs[1] = c /\ cs[2] = end /\ DOMAIN cs = {1, 2}
  <2>1. cs \in Seq(ToSet(cs)) /\ Len(cs) = 2 /\ cs[1] = c /\ cs[2] = end /\ DOMAIN cs = {1, 2} /\ cs # <<>>
    BY DEF ToSet
  <2> HIDE DEF cs
  <2> QED BY <2>1, <1>1 DEF Final
<1> HIDE DEF cs
<1>4. Ends(cs) = KeysOf(state)
  BY <1>1, <1>3 DEF Ends
<1>5. WorkCalls(cs, own)
  BY <1>1, <1>2, <1>3, <1>4 DEF WorkCalls, Within, Changing
<1> QED BY <1>3, <1>4, <1>5 DEF cs, end, Last

LEMMA WorkOfTwo ==
  ASSUME kind \in Unsaved, NEW c, NEW d, NEW own, NEW state, IsState(state),
         c.op # "returns", WorkCall(c, own, KeysOf(state)),
         d.op # "returns", WorkCall(d, own, KeysOf(state))
  PROVE  WorkCalls(<<c, d, returns(state)>>, own) /\ Last(<<c, d, returns(state)>>) = returns(state)
         /\ Ends(<<c, d, returns(state)>>) = KeysOf(state)
<1> DEFINE S == {c, d}
           body == <<c, d>>
<1>1. body \in Seq(S) /\ \A x \in S : x.op # "returns" /\ WorkCall(x, own, KeysOf(state))
  OBVIOUS
<1> HIDE DEF S, body
<1>2. WorkCalls(body \o <<returns(state)>>, own) /\ Last(body \o <<returns(state)>>) = returns(state)
      /\ Ends(body \o <<returns(state)>>) = KeysOf(state)
  BY <1>1, WorkOf
<1>3. body \o <<returns(state)>> = <<c, d, returns(state)>>
  BY Tuples DEF body
<1> QED BY <1>2, <1>3

LEMMA WorkOfThree ==
  ASSUME kind \in Unsaved, NEW c, NEW d, NEW e, NEW own, NEW state, IsState(state),
         c.op # "returns", WorkCall(c, own, KeysOf(state)),
         d.op # "returns", WorkCall(d, own, KeysOf(state)),
         e.op # "returns", WorkCall(e, own, KeysOf(state))
  PROVE  WorkCalls(<<c, d, e, returns(state)>>, own) /\ Last(<<c, d, e, returns(state)>>) = returns(state)
         /\ Ends(<<c, d, e, returns(state)>>) = KeysOf(state)
<1> DEFINE S == {c, d, e}
           body == <<c, d, e>>
<1>1. body \in Seq(S) /\ \A x \in S : x.op # "returns" /\ WorkCall(x, own, KeysOf(state))
  OBVIOUS
<1> HIDE DEF S, body
<1>2. WorkCalls(body \o <<returns(state)>>, own) /\ Last(body \o <<returns(state)>>) = returns(state)
      /\ Ends(body \o <<returns(state)>>) = KeysOf(state)
  BY <1>1, WorkOf
<1>3. body \o <<returns(state)>> = <<c, d, e, returns(state)>>
  <2> DEFINE end == returns(state)
  <2> HIDE DEF end
  <2>1. <<c, d, e>> \o <<end>> = <<c, d, e, end>>
    BY LongerTuples, Zenon
  <2> QED BY <2>1 DEF body, end
<1> QED BY <1>2, <1>3

LEMMA DeletionOf ==
  ASSUME NEW S, NEW body \in Seq(S), NEW own, NEW state,
         \A c \in S : c.op \notin {"returns", "set"} /\ DeleteCall(c, own)
  PROVE  LET cs == body \o <<returns(state)>> IN
         /\ DeleteCalls(cs, own)
         /\ \A i \in DOMAIN body : i \in DOMAIN cs /\ cs[i] = body[i]
<1> DEFINE end == returns(state)
           cs == body \o <<end>>
<1>1. end.op = "returns" /\ end.val = state /\ end.soft = <<>>
  BY DEF returns, Call
<1>2. DeleteCall(end, own)
  BY <1>1 DEF DeleteCall, Within, KeepsNames, Changing
<1> HIDE DEF end
<1>3. /\ Final(cs) /\ cs[Len(cs)] = end
      /\ \A i \in DOMAIN cs : cs[i] = end \/ cs[i] \in S
      /\ \A i \in DOMAIN body : i \in DOMAIN cs /\ cs[i] = body[i]
  BY <1>1, LastOne
<1> HIDE DEF cs
<1>4. DeleteCalls(cs, own)
  BY <1>1, <1>2, <1>3 DEF DeleteCalls
<1> QED BY <1>3, <1>4 DEF cs, end

\* The calls one by one.
LEMMA MakingCalls ==
  ASSUME NEW key, NEW obj, NEW own, NEW ends, key \in own \cup ends
  PROVE  /\ (kind \in ByName => "name" \in DOMAIN obj /\ obj.name = key /\ kind # "subnet") =>
              /\ WorkCall(add(key, obj), own, ends)
              /\ kind \in Replacing => WorkCall(put(key, obj), own, ends)
         /\ kind \notin ByName => WorkCall(addNamed(key, obj), own, ends)
         /\ (kind \in ByName /\ "name" \in DOMAIN obj => obj.name = key) => WorkCall(set(key, obj), own, ends)
         /\ add(key, obj).op # "returns" /\ addNamed(key, obj).op # "returns"
         /\ put(key, obj).op # "returns" /\ set(key, obj).op # "returns"
BY DEF WorkCall, Within, KeepsNames, Changing, Removing, add, put, set, addNamed, Call

LEMMA QuietCalls ==
  ASSUME NEW key, NEW fields, NEW own, NEW ends
  PROVE  /\ WorkCall(see(key, fields), own, ends) /\ WorkCall(check(key, fields), own, ends)
         /\ WorkCall(fails, own, ends)
         /\ kind \in NamedKinds => WorkCall(renameNamed(key, fields), own, ends)
         /\ see(key, fields).op # "returns" /\ check(key, fields).op # "returns" /\ fails.op = "fails"
         /\ renameNamed(key, fields).op # "returns"
BY DEF WorkCall, Within, KeepsNames, Changing, Removing, NamedKinds, ByName, see, check, fails, renameNamed, Call

LEMMA EndingCalls ==
  ASSUME NEW key, NEW fields, NEW own
  PROVE  /\ \A c \in {destroy(key), doom(key), gone(key), fails} :
              DeleteCall(c, own) /\ c.op \notin {"returns", "set"} /\ Disposes(c, key)
         /\ \A c \in {remove(key), drop(key)} :
              (key \in own \/ kind \in Replacing => DeleteCall(c, own)) /\ c.op \notin {"returns", "set"} /\ Disposes(c, key)
         /\ DeleteCall(see(key, fields), own) /\ see(key, fields).op \notin {"returns", "set"}
         /\ removeNamed(key).op \notin {"returns", "set"}
         /\ kind \in NamedKinds => DeleteCall(removeNamed(key), own) /\ \A k : Disposes(removeNamed(key), k)
BY DEF DeleteCall, Within, KeepsNames, Changing, NamedKinds, Disposes, remove, drop, destroy, doom, gone, see, removeNamed, fails, Call

LEMMA DeletionOfOne ==
  ASSUME NEW c, NEW own, NEW state, c.op \notin {"returns", "set"}, DeleteCall(c, own)
  PROVE  LET cs == <<c, returns(state)>> IN
         DeleteCalls(cs, own) /\ 1 \in DOMAIN cs /\ cs[1] = c
<1> DEFINE S == {c}
           body == <<c>>
<1>1. body \in Seq(S) /\ \A x \in S : x.op \notin {"returns", "set"} /\ DeleteCall(x, own)
  OBVIOUS
<1> HIDE DEF S, body
<1>2. DeleteCalls(body \o <<returns(state)>>, own)
  BY <1>1, DeletionOf
<1>3. body \o <<returns(state)>> = <<c, returns(state)>>
  BY Tuples DEF body
<1> DEFINE cs == <<c, returns(state)>>
<1>4. 1 \in DOMAIN cs /\ cs[1] = c
  OBVIOUS
<1> HIDE DEF cs
<1>5. body \o <<returns(state)>> = cs
  BY <1>3 DEF cs
<1> QED BY <1>2, <1>4, <1>5 DEF cs

LEMMA DeletionOfTwo ==
  ASSUME NEW c, NEW d, NEW own, NEW state,
         c.op \notin {"returns", "set"}, DeleteCall(c, own), d.op \notin {"returns", "set"}, DeleteCall(d, own)
  PROVE  LET cs == <<c, d, returns(state)>> IN
         DeleteCalls(cs, own) /\ {1, 2} \subseteq DOMAIN cs /\ cs[1] = c /\ cs[2] = d
<1> DEFINE S == {c, d}
           body == <<c, d>>
<1>1. body \in Seq(S) /\ \A x \in S : x.op \notin {"returns", "set"} /\ DeleteCall(x, own)
  OBVIOUS
<1> HIDE DEF S, body
<1>2. DeleteCalls(body \o <<returns(state)>>, own)
  BY <1>1, DeletionOf
<1>3. body \o <<returns(state)>> = <<c, d, returns(state)>>
  BY Tuples DEF body
<1> DEFINE cs == <<c, d, returns(state)>>
<1>4. {1, 2} \subseteq DOMAIN cs /\ cs[1] = c /\ cs[2] = d
  OBVIOUS
<1> HIDE DEF cs
<1>5. body \o <<returns(state)>> = cs
  BY <1>3 DEF cs
<1> QED BY <1>2, <1>4, <1>5 DEF cs

-----------------------------------------------------------------------------
(* The kinds whose objects are under their names.                          *)

LEMMA ConfigNames ==
  ASSUME kind \in ByName, NEW w \in Configs
  PROVE  "name" \in DOMAIN w /\ w.name \in Names /\ w.name \in Keys
<1>1. CASE kind = "user"
  BY <1>1 DEF Configs, UserConfigs, Keys
<1>2. CASE kind = "jaas_controller"
  BY <1>2 DEF Configs, ControllerConfigsOfJAAS, Keys
<1>3. CASE kind = "cloud"
  BY <1>3, NamesAssumption DEF Configs, CloudConfigs, Keys
<1>4. CASE kind = "kubernetes_cloud"
  BY <1>4 DEF Configs, KubernetesCloudConfigs, Keys
<1>5. CASE kind = "secret_backend"
  BY <1>5 DEF Configs, SecretBackendConfigs, Keys
<1>6. CASE kind = "offer"
  BY <1>6 DEF Configs, OfferConfigs, Keys
<1>7. CASE kind = "space"
  BY <1>7 DEF Configs, SpaceConfigs, Keys
<1>8. CASE kind = "subnet"
  BY <1>8 DEF Configs, SubnetConfigs, Keys
<1>9. CASE kind = "storage_pool"
  BY <1>9 DEF Configs, StoragePoolConfigs, Keys
<1>10. CASE kind = "ssh_key"
  BY <1>10 DEF Configs, SSHKeyConfigs, Keys
<1>11. CASE kind = "application"
  BY <1>11, NamesAssumption DEF Configs, AppConfigs, Keys
<1> QED BY <1>1, <1>2, <1>3, <1>4, <1>5, <1>6, <1>7, <1>8, <1>9, <1>10, <1>11 DEF ByName, AllKinds

LEMMA NamedState ==
  ASSUME kind \in ByName, NEW w \in Configs
  PROVE  IsState(StateOf(w.name, w)) /\ KeysOf(StateOf(w.name, w)) = {w.name}
<1>1. "name" \in DOMAIN w /\ w.name \in Names /\ w.name \in Keys
  BY ConfigNames
<1>2. LET s == StateOf(w.name, w) IN {"id", "name"} \subseteq DOMAIN s /\ s.id = w.name /\ s.name = w.name
  BY <1>1 DEF StateOf
<1> QED BY <1>1, <1>2 DEF IsState, Readable, KeysOf, ByName

LEMMA NamedKeys ==
  ASSUME kind \in ByName, NEW s
  PROVE  KeysOf(s) = {s.name}
BY DEF KeysOf, ByName

\* A state that is read has the name that is the ID.
LEMMA ReadsNames ==
  ASSUME NoneIsNoState, kind \in ByName, kind # "jaas_controller",
         \A s : Readable(s) => \A state \in ReadOf(s) :
           \/ state = None /\ there[s.id] = None
           \/ DOMAIN state = DOMAIN s /\ state.id = s.id /\ state.name = s.id,
         \A k \in Keys : there[k] # None => \A s \in Importable(k) : Readable(s)
  PROVE  ReadKeeps
<1>1. ASSUME NEW s, Readable(s), NEW state, DOMAIN state = DOMAIN s, state.id = s.id, state.name = s.id
      PROVE  IsState(state) /\ state # None /\ KeysOf(state) = {s.id}
  BY <1>1, NamedKeys DEF NoneIsNoState, IsState, Readable, ByName
<1>2. ASSUME NEW s, Readable(s), NEW state \in ReadOf(s), state # None
      PROVE  IsState(state)
  BY <1>1, <1>2
<1>3. ASSUME NEW s, IsState(s), NEW state \in ReadOf(s), NEW k \in KeysOf(s), k \in Keys, Held(there[k])
      PROVE  state # None /\ k \in KeysOf(state)
  <2>1. k = s.id /\ Readable(s)
    BY <1>3, NamedKeys DEF IsState
  <2>2. there[s.id] # None
    BY <2>1, <1>3 DEF Held
  <2> QED BY <1>1, <1>3, <2>1, <2>2
<1> QED BY <1>2, <1>3 DEF ReadKeeps

LEMMA UserKeeps ==
  ASSUME NoneIsNoState, kind = "user", ThereInv
  PROVE  CreateKeeps /\ UpdateKeeps /\ DeleteKeeps /\ ReadKeeps
<1>1. kind \in ByName /\ kind # "subnet"
  BY DEF ByName, AllKinds
<1>2. CreateKeeps
  <2> SUFFICES ASSUME NEW w \in Configs PROVE WorkCalls(Create(w), {})
    BY DEF CreateKeeps
  <2>1. WorkCall(CreateUser(w), {}, {w.name}) /\ CreateUser(w).op # "returns"
    BY <1>1, ConfigNames, MakingCalls DEF CreateUser
  <2> QED BY <1>1, <2>1, NamedState, WorkOfOne DEF Create, UserCreate
<1>3. UpdateKeeps
  <2> SUFFICES ASSUME NEW s, IsState(s), NEW w \in Configs, ~Replaced(s, w)
               PROVE  Stays(UserUpdate(s, w), KeysOf(s))
    BY DEF UpdateKeeps, Update, Stays
  <2>1. s.name = w.name
    BY DEF Replaced, UserReplaced
  <2>2. WorkCall(UpdateUser(w.name, w.password), KeysOf(s), {w.name})
        /\ UpdateUser(w.name, w.password).op # "returns"
    BY <1>1, <2>1, NamedKeys, MakingCalls DEF UpdateUser
  <2>3. KeysOf(s) = {w.name} /\ s.id = w.name
    BY <1>1, <2>1, NamedKeys DEF IsState
  <2> QED BY <1>1, <2>2, <2>3, NamedState, WorkOfOne, OnlyReturns DEF UserUpdate, Stays
<1>4. DeleteKeeps
  <2> SUFFICES ASSUME NEW s, IsState(s)
               PROVE  /\ DeleteCalls(UserDelete(s), KeysOf(s))
                      /\ \E i \in DOMAIN UserDelete(s) : Disposes(UserDelete(s)[i], s.id)
    BY <1>1, NamedKeys DEF DeleteKeeps, Delete, IsState
  <2>1. DeleteCall(remove(s.id), KeysOf(s)) /\ remove(s.id).op \notin {"returns", "set"} /\ Disposes(remove(s.id), s.id)
    BY <1>1, NamedKeys, EndingCalls DEF IsState
  <2> QED BY <2>1, DeletionOfOne DEF UserDelete, DestroyUser
<1>5. ReadKeeps
  <2>1. \A s : Readable(s) => \A state \in ReadOf(s) : DOMAIN state = DOMAIN s /\ state.id = s.id /\ state.name = s.id
    BY <1>1 DEF Readable, ReadOf, UserRead
  <2>2. \A k \in Keys : \A s \in Importable(k) : Readable(s)
    BY DEF Readable, Importable, UserImport
  <2> QED BY <1>1, <2>1, <2>2, ReadsNames
<1> QED BY <1>2, <1>3, <1>4, <1>5

\* Handlers of one call each, when Replaced is what would rename the object.
LEMMA UpdatesOneNamed ==
  ASSUME kind \in ByName, NEW s, IsState(s), NEW w \in Configs, s.name = w.name,
         NEW c, c.op # "returns", WorkCall(c, {w.name}, {w.name})
  PROVE  Stays(<<c, returns(StateOf(s.id, w))>>, KeysOf(s))
<1>1. s.id = w.name /\ KeysOf(s) = {w.name}
  BY NamedKeys DEF IsState
<1> QED BY <1>1, NamedState, WorkOfOne DEF Stays

LEMMA DeletesOneNamed ==
  ASSUME kind \in ByName, kind # "subnet",
         \A s : Delete(s) = <<remove(s.name), returns(None)>> \/ Delete(s) = <<remove(s.id), returns(None)>>
  PROVE  DeleteKeeps
<1> SUFFICES ASSUME NEW s, IsState(s)
             PROVE  /\ DeleteCalls(Delete(s), KeysOf(s))
                    /\ \E i \in DOMAIN Delete(s) : Disposes(Delete(s)[i], s.name)
  BY NamedKeys DEF DeleteKeeps
<1>1. Delete(s) = <<remove(s.name), returns(None)>>
  BY DEF IsState
<1>2. DeleteCall(remove(s.name), KeysOf(s)) /\ remove(s.name).op \notin {"returns", "set"}
      /\ Disposes(remove(s.name), s.name)
  BY NamedKeys, EndingCalls
<1> QED BY <1>1, <1>2, DeletionOfOne

LEMMA JAASControllerKeeps ==
  ASSUME NoneIsNoState, kind = "jaas_controller", ThereInv
  PROVE  CreateKeeps /\ UpdateKeeps /\ DeleteKeeps /\ ReadKeeps
<1>1. kind \in ByName /\ kind # "subnet"
  BY DEF ByName, AllKinds
<1>2. CreateKeeps
  <2> SUFFICES ASSUME NEW w \in Configs PROVE WorkCalls(JAASControllerCreate(w), {})
    BY DEF CreateKeeps, Create
  <2> DEFINE state == [StateOf(w.name, w) EXCEPT !.ca = infoOf(w).ca]
  <2>1. WorkCall(AddController(w), {}, {w.name}) /\ AddController(w).op # "returns"
    BY <1>1, ConfigNames, MakingCalls DEF AddController, infoOf
  <2>2. LET o == StateOf(w.name, w) IN
        {"id", "name"} \subseteq DOMAIN o /\ o.id = w.name /\ o.name = w.name /\ w.name \in Names /\ w.name \in Keys
    BY <1>1, ConfigNames DEF StateOf
  <2>3. {"id", "name"} \subseteq DOMAIN state /\ state.id = w.name /\ state.name = w.name
    BY <2>2
  <2> HIDE DEF state
  <2>4. IsState(state) /\ KeysOf(state) = {w.name}
    BY <1>1, <2>2, <2>3, NamedKeys DEF IsState, Readable
  <2> QED BY <2>1, <2>4, WorkOfOne DEF JAASControllerCreate, state
<1>3. UpdateKeeps
  BY GivesUp DEF UpdateKeeps, Stays, Update, JAASControllerUpdate
<1>4. DeleteKeeps
  <2>1. \A s : Delete(s) = <<remove(s.name), returns(None)>>
    BY DEF Delete, JAASControllerDelete, RemoveController
  <2> QED BY <1>1, <2>1, DeletesOneNamed
<1>5. ReadKeeps
  \* A controller that is listed is under its name.
  <2>1. ASSUME NEW c \in ListControllers(there) PROVE c.name \in Names /\ c.name \in Keys
    <3>1. PICK k \in Names : there[k] # None /\ c = there[k]
      BY <2>1 DEF ListControllers
    <3> QED BY <1>1, <3>1 DEF ThereInv, Keys
  <2>2. ASSUME NEW s, Readable(s), NEW state \in ReadOf(s)
        PROVE  /\ state # None => IsState(state) /\ state.name = s.id
               /\ state = None => \A c \in ListControllers(there) : c.name # s.id
    <3>1. CASE {c \in ListControllers(there) : c.name = s.id} = {}
      BY <2>2, <3>1 DEF ReadOf, JAASControllerRead
    <3>2. CASE {c \in ListControllers(there) : c.name = s.id} # {}
      <4> DEFINE found == {c \in ListControllers(there) : c.name = s.id}
      <4>0. JAASControllerRead(s, there) = {[s EXCEPT !.name = c.name, !.ca = c.ca] : c \in found}
        BY <3>2, Zenon DEF JAASControllerRead
      <4>3. state \in JAASControllerRead(s, there)
        BY <2>2 DEF ReadOf
      <4>1. PICK c \in found : state = [s EXCEPT !.name = c.name, !.ca = c.ca]
        BY <4>0, <4>3, Zenon
      <4>2. {"id", "name"} \subseteq DOMAIN state /\ state.id = s.id /\ state.name = s.id
        BY <1>1, <2>2, <4>1 DEF Readable
      <4>4. s.id \in Names /\ s.id \in Keys
        BY <2>1, <4>1
      <4> QED BY <1>1, <4>2, <4>4 DEF IsState, Readable, NoneIsNoState
    <3> QED BY <3>1, <3>2
  <2>3. ASSUME NEW s, IsState(s), NEW state \in ReadOf(s), NEW k \in KeysOf(s), k \in Keys, Held(there[k])
        PROVE  state # None /\ k \in KeysOf(state)
    <3>1. k = s.name /\ k = s.id /\ k \in Names /\ Readable(s)
      BY <1>1, <2>3, NamedKeys DEF IsState
    <3>2. there[k] \in ListControllers(there) /\ there[k].name = k
      BY <1>1, <2>3, <3>1 DEF Held, ListControllers, ThereInv
    <3> QED BY <1>1, <2>2, <2>3, <3>1, <3>2, NamedKeys
  <2>4. \A k \in Keys : \A s \in Importable(k) : Readable(s)
    BY DEF Readable, Importable, JAASControllerImport
  <2> QED BY <2>2, <2>3, <2>4 DEF ReadKeeps
<1> QED BY <1>2, <1>3, <1>4, <1>5

LEMMA CloudKeeps ==
  ASSUME NoneIsNoState, kind = "cloud", ThereInv
  PROVE  CreateKeeps /\ UpdateKeeps /\ DeleteKeeps /\ ReadKeeps
<1>1. kind \in ByName /\ kind # "subnet"
  BY DEF ByName, AllKinds
<1>2. CreateKeeps
  <2> SUFFICES ASSUME NEW w \in Configs PROVE WorkCalls(CloudCreate(w), {})
    BY DEF CreateKeeps, Create
  <2>1. WorkCall(AddCloud(w), {}, {w.name}) /\ AddCloud(w).op # "returns"
    BY <1>1, ConfigNames, MakingCalls DEF AddCloud
  <2> QED BY <1>1, <2>1, NamedState, WorkOfOne DEF CloudCreate
<1>3. UpdateKeeps
  <2> SUFFICES ASSUME NEW s, IsState(s), NEW w \in Configs, ~Replaced(s, w)
               PROVE  Stays(CloudUpdate(s, w), KeysOf(s))
    BY DEF UpdateKeeps, Update, Stays
  <2>1. s.name = w.name
    BY DEF Replaced, CloudReplaced
  <2>2. LET f == IF w.storage = None THEN Without(w, {"storage"}) ELSE w IN "name" \in DOMAIN f => f.name = w.name
    BY DEF Without
  <2>3. WorkCall(UpdateCloud(w), {w.name}, {w.name}) /\ UpdateCloud(w).op # "returns"
    BY <2>2, MakingCalls DEF UpdateCloud
  <2> QED BY <1>1, <2>1, <2>3, UpdatesOneNamed DEF CloudUpdate
<1>4. DeleteKeeps
  <2>1. \A s : Delete(s) = <<remove(s.name), returns(None)>>
    BY DEF Delete, CloudDelete, RemoveCloud
  <2> QED BY <1>1, <2>1, DeletesOneNamed
<1>5. ReadKeeps
  <2>1. ASSUME NEW s, Readable(s), NEW state \in ReadOf(s)
        PROVE  DOMAIN state = DOMAIN s /\ state.id = s.id /\ state.name = s.id
    <3>1. s.name = s.id
      BY <2>1 DEF Readable
    <3> DEFINE out == ReadCloud(s.name, there)
    <3>2. state = [s EXCEPT !.storage = out.storage, !.regions = orderedRegions(s.regions, out.regions)]
      BY <2>1 DEF ReadOf, CloudRead
    <3> HIDE DEF out
    <3> QED BY <3>1, <3>2
  <2>2. \A k \in Keys : \A s \in Importable(k) : Readable(s)
    BY DEF Importable
  <2> QED BY <1>1, <2>1, <2>2, ReadsNames
<1> QED BY <1>2, <1>3, <1>4, <1>5

LEMMA KubernetesCloudKeeps ==
  ASSUME NoneIsNoState, kind = "kubernetes_cloud", ThereInv
  PROVE  CreateKeeps /\ UpdateKeeps /\ DeleteKeeps /\ ReadKeeps
<1>1. kind \in ByName /\ kind # "subnet" /\ kind \in Unsaved
  BY DEF ByName, AllKinds, Unsaved
<1>2. CreateKeeps
  <2> SUFFICES ASSUME NEW w \in Configs PROVE WorkCalls(KubernetesCloudCreate(w), {})
    BY DEF CreateKeeps, Create
  <2> DEFINE obj == [KubernetesCloudOf(w) EXCEPT !.credential = None]
             c == add(w.name, obj)
             d == set(w.name, [credential |-> w.config])
             state == StateOf(w.name, w)
  <2>1. "name" \in DOMAIN obj /\ obj.name = w.name
    BY DEF KubernetesCloudOf
  <2>2. IsState(state) /\ KeysOf(state) = {w.name}
    BY <1>1, NamedState
  <2> HIDE DEF obj, state
  <2>3. WorkCall(c, {}, KeysOf(state)) /\ c.op # "returns" /\ WorkCall(d, {}, KeysOf(state)) /\ d.op # "returns"
    BY <1>1, <2>1, <2>2, MakingCalls
  <2> HIDE DEF c, d
  <2>4. KubernetesCloudCreate(w) = <<c, d, returns(state)>>
    BY Tuples DEF KubernetesCloudCreate, CreateKubernetesCloud, c, d, obj, state
  <2> QED BY <1>1, <2>2, <2>3, <2>4, WorkOfTwo
<1>3. UpdateKeeps
  <2> SUFFICES ASSUME NEW s, IsState(s), NEW w \in Configs, ~Replaced(s, w)
               PROVE  Stays(KubernetesCloudUpdate(s, w, setting.jaas), KeysOf(s))
    BY DEF UpdateKeeps, Update, Stays
  <2>1. s.name = w.name
    BY DEF Replaced, KubernetesCloudReplaced
  <2>2. WorkCall(UpdateKubernetesCloud(w), {w.name}, {w.name}) /\ UpdateKubernetesCloud(w).op # "returns"
    BY MakingCalls DEF UpdateKubernetesCloud
  <2> QED BY <1>1, <2>1, <2>2, UpdatesOneNamed, GivesUp DEF KubernetesCloudUpdate, Stays
<1>4. DeleteKeeps
  <2>1. \A s : Delete(s) = <<remove(s.name), returns(None)>>
    BY DEF Delete, KubernetesCloudDelete, RemoveCloud
  <2> QED BY <1>1, <2>1, DeletesOneNamed
<1>5. ReadKeeps
  <2>1. \A s : Readable(s) => \A state \in ReadOf(s) : DOMAIN state = DOMAIN s /\ state.id = s.id /\ state.name = s.id
    BY DEF Readable, ReadOf, KubernetesCloudRead
  <2>2. \A k \in Keys : \A s \in Importable(k) : Readable(s)
    BY DEF Importable
  <2> QED BY <1>1, <2>1, <2>2, ReadsNames
<1> QED BY <1>2, <1>3, <1>4, <1>5

LEMMA SecretBackendKeeps ==
  ASSUME NoneIsNoState, kind = "secret_backend", ThereInv
  PROVE  CreateKeeps /\ UpdateKeeps /\ DeleteKeeps /\ ReadKeeps
<1>1. kind \in ByName /\ kind # "subnet"
  BY DEF ByName, AllKinds
<1>2. CreateKeeps
  <2> SUFFICES ASSUME NEW w \in Configs PROVE WorkCalls(SecretBackendCreate(w), {})
    BY DEF CreateKeeps, Create
  <2>1. WorkCall(CreateSecretBackend(w), {}, {w.name}) /\ CreateSecretBackend(w).op # "returns"
    BY <1>1, MakingCalls DEF CreateSecretBackend, SecretBackendOf
  <2> QED BY <1>1, <2>1, NamedState, WorkOfOne DEF SecretBackendCreate
<1>3. UpdateKeeps
  <2> SUFFICES ASSUME NEW s, IsState(s), NEW w \in Configs
               PROVE  WorkCalls(SecretBackendUpdate(s, w), KeysOf(s))
    BY DEF UpdateKeeps, Update, Moving
  <2> DEFINE names == {"name"} \cup (IF w.interval # None THEN {"interval"} ELSE {})
                               \cup (IF w.version # s.version THEN {"content"} ELSE {})
             fields == [x \in names |-> SecretBackendOf(w)[x]]
             c == UpdateSecretBackend(s.name, fields)
             state == StateOf(w.name, w)
  <2>1. "name" \in DOMAIN fields /\ fields.name = w.name
    BY DEF SecretBackendOf
  <2>2. IsState(state) /\ KeysOf(state) = {w.name} /\ KeysOf(s) = {s.name} /\ s.name \in Keys
    BY <1>1, NamedState, NamedKeys DEF IsState, Readable
  <2>3. SecretBackendUpdate(s, w) = <<c, returns(state)>>
    BY DEF SecretBackendUpdate
  <2> HIDE DEF fields, state
  <2>4. c.op = "move" /\ c.key = s.name /\ c.val = fields /\ c.soft = <<>>
    BY DEF UpdateSecretBackend, move, Call
  <2> HIDE DEF c
  <2>5. WorkCall(c, KeysOf(s), KeysOf(state)) /\ c.op # "returns"
    BY <1>1, <2>1, <2>2, <2>4 DEF WorkCall, Within, KeepsNames, Removing
  <2> QED BY <2>2, <2>3, <2>5, WorkOfOne
<1>4. DeleteKeeps
  <2>1. \A s : Delete(s) = <<remove(s.name), returns(None)>>
    BY DEF Delete, SecretBackendDelete, RemoveSecretBackend
  <2> QED BY <1>1, <2>1, DeletesOneNamed
<1>5. ReadKeeps
  <2>1. ASSUME NEW s, Readable(s), NEW state \in ReadOf(s)
        PROVE  \/ state = None /\ there[s.id] = None
               \/ DOMAIN state = DOMAIN s /\ state.id = s.id /\ state.name = s.id
    <3>1. s.name = s.id /\ s.id \in Keys /\ {"id", "name"} \subseteq DOMAIN s
      BY <1>1, <2>1 DEF Readable
    <3>2. CASE there[s.id] = None
      BY <2>1, <3>1, <3>2 DEF ReadOf, SecretBackendRead, GetSecretBackend
    <3>3. CASE there[s.id] # None
      <4>1. state = [s EXCEPT !.name = there[s.id].name, !.interval = there[s.id].interval]
        BY <2>1, <3>1, <3>3 DEF ReadOf, SecretBackendRead, GetSecretBackend
      <4>2. there[s.id].name = s.id
        BY <1>1, <3>1, <3>3 DEF ThereInv
      <4> QED BY <3>1, <4>1, <4>2
    <3> QED BY <3>2, <3>3
  <2>2. \A k \in Keys : \A s \in Importable(k) : Readable(s)
    BY DEF Readable, Importable, SecretBackendImport
  <2> QED BY <1>1, <2>1, <2>2, ReadsNames
<1> QED BY <1>2, <1>3, <1>4, <1>5

LEMMA OfferKeeps ==
  ASSUME NoneIsNoState, kind = "offer", ThereInv
  PROVE  CreateKeeps /\ UpdateKeeps /\ DeleteKeeps /\ ReadKeeps
<1>1. kind \in ByName /\ kind # "subnet" /\ kind \in Unsaved
  BY DEF ByName, AllKinds, Unsaved
<1>2. CreateKeeps
  <2> SUFFICES ASSUME NEW w \in Configs PROVE WorkCalls(OfferCreate(w), {})
    BY DEF CreateKeeps, Create
  <2> DEFINE obj == [name |-> w.name, endpoints |-> w.endpoints, connected |-> FALSE]
             c == put(w.name, obj)
             d == findCreatedOffer(w)
             state == StateOf(w.name, w)
  <2>1. "name" \in DOMAIN obj /\ obj.name = w.name
    OBVIOUS
  <2>2. IsState(state) /\ KeysOf(state) = {w.name}
    BY <1>1, NamedState
  <2> HIDE DEF obj, state
  <2>3. WorkCall(c, {}, KeysOf(state)) /\ c.op # "returns" /\ WorkCall(d, {}, KeysOf(state)) /\ d.op # "returns"
    BY <1>1, <2>1, <2>2, MakingCalls, QuietCalls DEF findCreatedOffer, Replacing
  <2> HIDE DEF c, d
  <2>4. OfferCreate(w) = <<c, d, returns(state)>>
    BY Tuples DEF OfferCreate, CreateOffer, c, d, obj, state
  <2> QED BY <1>1, <2>2, <2>3, <2>4, WorkOfTwo
<1>3. UpdateKeeps
  <2> SUFFICES ASSUME NEW s, IsState(s), NEW w \in Configs, ~Replaced(s, w)
               PROVE  Stays(OfferUpdate(s, w), KeysOf(s))
    BY DEF UpdateKeeps, Update, Stays
  <2>1. s.id = w.name
    BY <1>1 DEF Replaced, OfferReplaced, IsState
  <2>2. KeysOf(s) = {w.name}
    BY <1>1, <2>1, NamedKeys DEF IsState
  <2> QED BY <1>1, <2>1, <2>2, NamedState, OnlyReturns DEF OfferUpdate, Stays
<1>4. DeleteKeeps
  <2> SUFFICES ASSUME NEW s, IsState(s)
               PROVE  /\ DeleteCalls(Delete(s), KeysOf(s))
                      /\ \E i \in DOMAIN Delete(s) : Disposes(Delete(s)[i], s.id)
    BY <1>1, NamedKeys DEF DeleteKeeps, IsState
  <2> DEFINE c == see(s.id, [connected |-> FALSE])
             d == remove(s.id)
             own == KeysOf(s)
  <2>1. /\ c.op \notin {"returns", "set"} /\ DeleteCall(c, own)
        /\ d.op \notin {"returns", "set"} /\ DeleteCall(d, own) /\ Disposes(d, s.id)
    BY EndingCalls DEF Replacing
  <2> HIDE DEF c, d, own
  <2>2. Delete(s) = <<d, returns(None)>> \/ Delete(s) = <<c, d, returns(None)>>
    BY Tuples DEF Delete, OfferDelete, DestroyOffer, c, d
  <2>3. CASE Delete(s) = <<d, returns(None)>>
    BY <2>1, <2>3, DeletionOfOne DEF own
  <2>4. CASE Delete(s) = <<c, d, returns(None)>>
    BY <2>1, <2>4, DeletionOfTwo DEF own
  <2> QED BY <2>2, <2>3, <2>4
<1>5. ReadKeeps
  <2>1. ASSUME NEW s, Readable(s), NEW state \in ReadOf(s)
        PROVE  \/ state = None /\ there[s.id] = None
               \/ DOMAIN state = DOMAIN s /\ state.id = s.id /\ state.name = s.id
    <3>1. s.id \in Keys /\ {"id", "name"} \subseteq DOMAIN s
      BY <1>1, <2>1 DEF Readable
    <3>2. CASE there[s.id] = None
      BY <2>1, <3>1, <3>2 DEF ReadOf, OfferRead, ReadOffer
    <3>3. CASE there[s.id] # None
      <4>1. state = [s EXCEPT !.name = there[s.id].name, !.endpoints = there[s.id].endpoints]
        BY <2>1, <3>1, <3>3 DEF ReadOf, OfferRead, ReadOffer
      <4>2. there[s.id].name = s.id
        BY <1>1, <3>1, <3>3 DEF ThereInv
      <4> QED BY <3>1, <4>1, <4>2
    <3> QED BY <3>2, <3>3
  <2>2. \A k \in Keys : \A s \in Importable(k) : Readable(s)
    BY DEF Readable, Importable, OfferImport
  <2> QED BY <1>1, <2>1, <2>2, ReadsNames
<1> QED BY <1>2, <1>3, <1>4, <1>5

LEMMA StoragePoolKeeps ==
  ASSUME NoneIsNoState, kind = "storage_pool", ThereInv
  PROVE  CreateKeeps /\ UpdateKeeps /\ DeleteKeeps /\ ReadKeeps
<1>1. kind \in ByName /\ kind # "subnet" /\ kind \in Unsaved
  BY DEF ByName, AllKinds, Unsaved
<1>2. CreateKeeps
  <2> SUFFICES ASSUME NEW w \in Configs PROVE WorkCalls(StoragePoolCreate(w), {})
    BY DEF CreateKeeps, Create
  <2> DEFINE c == CreatePool(w)
             d == see(w.name, [name |-> w.name])
             state == StateOf(w.name, w)
  <2>1. IsState(state) /\ KeysOf(state) = {w.name} /\ "name" \in DOMAIN w
    BY <1>1, NamedState, ConfigNames
  <2> HIDE DEF state
  <2>2. WorkCall(c, {}, KeysOf(state)) /\ c.op # "returns" /\ WorkCall(d, {}, KeysOf(state)) /\ d.op # "returns"
    BY <1>1, <2>1, MakingCalls, QuietCalls DEF CreatePool
  <2> HIDE DEF c, d
  <2>3. StoragePoolCreate(w) = <<c, d, returns(state)>>
    BY DEF StoragePoolCreate, c, d, state
  <2> QED BY <1>1, <2>1, <2>2, <2>3, WorkOfTwo
<1>3. UpdateKeeps
  <2> SUFFICES ASSUME NEW s, IsState(s), NEW w \in Configs, ~Replaced(s, w)
               PROVE  Stays(StoragePoolUpdate(s, w), KeysOf(s))
    BY DEF UpdateKeeps, Update, Stays
  <2> DEFINE c == UpdatePool(s.name, w.attrs)
             d == see(s.name, [attrs |-> w.attrs])
             state == StateOf(s.id, w)
             own == KeysOf(s)
  <2>1. s.name = w.name /\ s.id = w.name
    BY <1>1 DEF Replaced, StoragePoolReplaced, IsState
  <2>2. IsState(state) /\ KeysOf(state) = {s.name} /\ own = {s.name}
    BY <1>1, <2>1, NamedState, NamedKeys
  <2> HIDE DEF state, own
  <2>3. WorkCall(c, own, KeysOf(state)) /\ c.op # "returns" /\ WorkCall(d, own, KeysOf(state)) /\ d.op # "returns"
    BY <2>2, MakingCalls, QuietCalls DEF UpdatePool
  <2> HIDE DEF c, d
  <2>4. StoragePoolUpdate(s, w) = <<c, d, returns(state)>>
    BY DEF StoragePoolUpdate, c, d, state
  <2>5. WorkCalls(<<c, d, returns(state)>>, own) /\ Ends(<<c, d, returns(state)>>) = own
    BY <1>1, <2>2, <2>3, WorkOfTwo
  <2> QED BY <2>4, <2>5 DEF own, Stays
<1>4. DeleteKeeps
  <2> SUFFICES ASSUME NEW s, IsState(s)
               PROVE  /\ DeleteCalls(Delete(s), KeysOf(s))
                      /\ \E i \in DOMAIN Delete(s) : Disposes(Delete(s)[i], s.name)
    BY <1>1, NamedKeys DEF DeleteKeeps
  <2> DEFINE c == remove(s.name)
             d == gone(s.name)
             own == KeysOf(s)
  <2>1. /\ c.op \notin {"returns", "set"} /\ DeleteCall(c, own) /\ Disposes(c, s.name)
        /\ d.op \notin {"returns", "set"} /\ DeleteCall(d, own)
    BY <1>1, NamedKeys, EndingCalls
  <2> HIDE DEF c, d, own
  <2>2. Delete(s) = <<c, d, returns(None)>>
    BY DEF Delete, StoragePoolDelete, RemovePool, c, d
  <2> QED BY <2>1, <2>2, DeletionOfTwo DEF own
<1>5. ReadKeeps
  <2>1. ASSUME NEW s, Readable(s), NEW state \in ReadOf(s)
        PROVE  DOMAIN state = DOMAIN s /\ state.id = s.id /\ state.name = s.id
    <3>1. s.name = s.id /\ s.id \in Keys /\ {"id", "name"} \subseteq DOMAIN s
      BY <1>1, <2>1 DEF Readable
    <3> DEFINE pool == there[s.id]
               attrs == IF pool.attrs = None THEN s.attrs ELSE pool.attrs
    <3>2. pool # None /\ state = [s EXCEPT !.name = pool.name, !.provider = pool.provider, !.attrs = attrs]
      BY <2>1, <3>1 DEF ReadOf, StoragePoolRead, GetPool
    <3>3. pool.name = s.id
      BY <1>1, <3>1, <3>2 DEF ThereInv
    <3> HIDE DEF attrs, pool
    <3> QED BY <3>1, <3>2, <3>3
  <2>2. \A k \in Keys : \A s \in Importable(k) : Readable(s)
    BY DEF Readable, Importable, StoragePoolImport
  <2> QED BY <1>1, <2>1, <2>2, ReadsNames
<1> QED BY <1>2, <1>3, <1>4, <1>5

LEMMA SSHKeyKeeps ==
  ASSUME NoneIsNoState, kind = "ssh_key", ThereInv
  PROVE  CreateKeeps /\ UpdateKeeps /\ DeleteKeeps /\ ReadKeeps
<1>1. kind \in ByName /\ kind # "subnet"
  BY DEF ByName, AllKinds
<1>2. CreateKeeps
  <2> SUFFICES ASSUME NEW w \in Configs PROVE WorkCalls(SSHKeyCreate(w), {})
    BY DEF CreateKeeps, Create
  <2>1. WorkCall(CreateSSHKey(w), {}, {w.name}) /\ CreateSSHKey(w).op # "returns"
    BY <1>1, ConfigNames, MakingCalls DEF CreateSSHKey
  <2> QED BY <1>1, <2>1, NamedState, WorkOfOne DEF SSHKeyCreate
<1>3. UpdateKeeps
  BY OnlyReturns DEF UpdateKeeps, Stays, Update, SSHKeyUpdate
<1>4. DeleteKeeps
  <2>1. \A s : Delete(s) = <<remove(s.name), returns(None)>>
    BY DEF Delete, SSHKeyDelete, DeleteSSHKey
  <2> QED BY <1>1, <2>1, DeletesOneNamed
<1>5. ReadKeeps
  <2>1. \A s : Readable(s) => \A state \in ReadOf(s) :
          \/ state = None /\ there[s.id] = None
          \/ DOMAIN state = DOMAIN s /\ state.id = s.id /\ state.name = s.id
    BY DEF Readable, ReadOf, SSHKeyRead, ReadSSHKey
  <2>2. \A k \in Keys : \A s \in Importable(k) : Readable(s)
    BY DEF Importable
  <2> QED BY <1>1, <2>1, <2>2, ReadsNames
<1> QED BY <1>2, <1>3, <1>4, <1>5

\* What Delete changes goes with a call after it.
LEMMA DeletionAfterChange ==
  ASSUME NEW c, NEW d, NEW e, NEW own, NEW state,
         c.op = "set", DeleteCall(c, own), Disposes(d, c.key),
         d.op \notin {"returns", "set"}, DeleteCall(d, own), e.op \notin {"returns", "set"}, DeleteCall(e, own)
  PROVE  LET cs == <<c, d, e, returns(state)>> IN
         DeleteCalls(cs, own) /\ 2 \in DOMAIN cs /\ cs[2] = d
<1> DEFINE end == returns(state)
           cs == <<c, d, e, end>>
<1>1. end.op = "returns" /\ end.val = state /\ end.soft = <<>>
  BY DEF returns, Call
<1>2. DeleteCall(end, own)
  BY <1>1 DEF DeleteCall, Within, KeepsNames, Changing
<1> HIDE DEF end
<1>3. /\ cs \in Seq({c, d, e, end}) /\ Len(cs) = 4 /\ DOMAIN cs = {1, 2, 3, 4} /\ cs # <<>>
      /\ cs[1] = c /\ cs[2] = d /\ cs[3] = e /\ cs[4] = end
  OBVIOUS
<1> HIDE DEF cs
<1>4. Final(cs)
  <2>1. cs \in Seq(ToSet(cs))
    BY <1>3, ItsOwnCalls
  <2> QED BY <2>1, <1>1, <1>3 DEF Final
<1>5. \E j \in 1..Len(cs) : Disposes(cs[j], c.key)
  BY <1>3
<1>6. \A i \in DOMAIN cs : DeleteCall(cs[i], own) /\ (cs[i].op = "set" => i = 1 /\ cs[i] = c)
  BY <1>1, <1>2, <1>3
<1>7. DeleteCalls(cs, own)
  BY <1>4, <1>5, <1>6 DEF DeleteCalls
<1> QED BY <1>3, <1>7 DEF cs, end

LEMMA SpaceKeeps ==
  ASSUME NoneIsNoState, kind = "space", ThereInv
  PROVE  CreateKeeps /\ UpdateKeeps /\ DeleteKeeps /\ ReadKeeps
<1>1. kind \in ByName /\ kind # "subnet" /\ kind \in Unsaved
  BY DEF ByName, AllKinds, Unsaved
<1>2. CreateKeeps
  <2> SUFFICES ASSUME NEW w \in Configs PROVE WorkCalls(SpaceCreate(w), {})
    BY DEF CreateKeeps, Create
  <2> DEFINE c == CreateSpace(w.name)
             d == see(w.name, [name |-> w.name])
             state == StateOf(w.name, w)
  <2>1. IsState(state) /\ KeysOf(state) = {w.name} /\ "name" \in DOMAIN w
    BY <1>1, NamedState, ConfigNames
  <2> HIDE DEF state
  <2>2. WorkCall(c, {}, KeysOf(state)) /\ c.op # "returns" /\ WorkCall(d, {}, KeysOf(state)) /\ d.op # "returns"
    BY <1>1, <2>1, MakingCalls, QuietCalls DEF CreateSpace
  <2> HIDE DEF c, d
  <2>3. SpaceCreate(w) = <<c, d, returns(state)>>
    BY DEF SpaceCreate, c, d, state
  <2> QED BY <1>1, <2>1, <2>2, <2>3, WorkOfTwo
<1>3. UpdateKeeps
  BY GivesUp DEF UpdateKeeps, Stays, Update, SpaceUpdate
<1>4. DeleteKeeps
  <2> SUFFICES ASSUME NEW s, IsState(s)
               PROVE  /\ DeleteCalls(Delete(s), KeysOf(s))
                      /\ \E i \in DOMAIN Delete(s) : Disposes(Delete(s)[i], s.name)
    BY <1>1, NamedKeys DEF DeleteKeeps
  <2> DEFINE fields == [subnets |-> there[s.name].subnets \ {Min(there[s.name].subnets)}]
             b == set(s.name, fields)
             c == drop(s.name)
             d == gone(s.name)
             own == KeysOf(s)
  <2>1. /\ c.op \notin {"returns", "set"} /\ DeleteCall(c, own) /\ Disposes(c, s.name)
        /\ d.op \notin {"returns", "set"} /\ DeleteCall(d, own)
    BY <1>1, NamedKeys, EndingCalls
  <2>2. own = {s.name}
    BY <1>1, NamedKeys
  <2>3. b.op = "set" /\ b.key = s.name /\ b.val = fields /\ b.soft = <<>> /\ "name" \notin DOMAIN fields
    BY DEF set, Call
  <2> HIDE DEF b, c, d, own, fields
  <2>4. DeleteCall(b, own)
    BY <1>1, <2>2, <2>3 DEF DeleteCall, Within, KeepsNames
  <2>5. Delete(s) = <<c, d, returns(None)>> \/ Delete(s) = <<b, c, d, returns(None)>>
    <3> DEFINE end == returns(None)
    <3> HIDE DEF end
    <3>1. <<>> \o <<c>> = <<c>>
      BY Tuples, Zenon
    <3>6. <<c>> \o <<d, end>> = <<c, d, end>>
      BY Tuples
    <3>5. <<b>> \o <<c>> = <<b, c>>
      BY Tuples, Zenon
    <3>2. <<b, c>> \o <<d, end>> = <<b, c, d, end>>
      BY TwoTuples, Zenon
    <3>3. DeleteSpace(s.name, there) = <<>> \o <<c>> \/ DeleteSpace(s.name, there) = <<b>> \o <<c>>
      BY DEF DeleteSpace, moveAllSubnetsToAlpha, b, c, fields
    <3>4. Delete(s) = DeleteSpace(s.name, there) \o <<d, end>>
      BY DEF Delete, SpaceDelete, d, end
    <3> QED BY <3>1, <3>2, <3>3, <3>4, <3>5, <3>6 DEF end
  <2>6. CASE Delete(s) = <<c, d, returns(None)>>
    BY <2>1, <2>6, DeletionOfTwo DEF own
  <2>7. CASE Delete(s) = <<b, c, d, returns(None)>>
    BY <2>1, <2>3, <2>4, <2>7, DeletionAfterChange DEF own
  <2> QED BY <2>5, <2>6, <2>7
<1>5. ReadKeeps
  <2>1. \A s : Readable(s) => \A state \in ReadOf(s) :
          \/ state = None /\ there[s.id] = None
          \/ DOMAIN state = DOMAIN s /\ state.id = s.id /\ state.name = s.id
    BY DEF Readable, ReadOf, SpaceRead, ReadSpace
  <2>2. \A k \in Keys : \A s \in Importable(k) : Readable(s)
    BY DEF Readable, Importable, SpaceImport
  <2> QED BY <1>1, <2>1, <2>2, ReadsNames
<1> QED BY <1>2, <1>3, <1>4, <1>5

LEMMA SubnetKeeps ==
  ASSUME NoneIsNoState, kind = "subnet", ThereInv
  PROVE  CreateKeeps /\ UpdateKeeps /\ DeleteKeeps /\ ReadKeeps
<1>1. kind \in ByName /\ kind \in Unsaved
  BY DEF ByName, AllKinds, Unsaved
<1>2. CreateKeeps
  <2> SUFFICES ASSUME NEW w \in Configs PROVE WorkCalls(SubnetCreate(w), {})
    BY DEF CreateKeeps, Create
  <2> DEFINE b == check(w.name, [space |-> "alpha"])
             c == MoveSubnetToSpace(w.name, w.space)
             d == see(w.name, [space |-> w.space])
             state == StateOf(w.name, w)
  <2>1. IsState(state) /\ KeysOf(state) = {w.name}
    BY <1>1, NamedState
  <2> HIDE DEF state
  <2>2. /\ WorkCall(b, {}, KeysOf(state)) /\ b.op # "returns"
        /\ WorkCall(c, {}, KeysOf(state)) /\ c.op # "returns"
        /\ WorkCall(d, {}, KeysOf(state)) /\ d.op # "returns"
    BY <2>1, MakingCalls, QuietCalls DEF MoveSubnetToSpace
  <2>3. SubnetCreate(w) = (<<b>> \o <<c, d>>) \o <<returns(state)>>
    BY DEF SubnetCreate, MovedTo, state
  <2> DEFINE end == returns(state)
  <2> HIDE DEF b, c, d, end
  <2>4. <<b>> \o <<c, d>> = <<b, c, d>>
    BY Tuples, Zenon
  <2>5. <<b, c, d>> \o <<end>> = <<b, c, d, end>>
    BY LongerTuples, Zenon
  <2>6. SubnetCreate(w) = <<b, c, d, returns(state)>>
    BY <2>3, <2>4, <2>5 DEF end
  <2> QED BY <1>1, <2>1, <2>2, <2>6, WorkOfThree
<1>3. UpdateKeeps
  <2> SUFFICES ASSUME NEW s, IsState(s), NEW w \in Configs, ~Replaced(s, w)
               PROVE  Stays(SubnetUpdate(w), KeysOf(s))
    BY DEF UpdateKeeps, Update, Stays
  <2> DEFINE c == MoveSubnetToSpace(w.name, w.space)
             d == see(w.name, [space |-> w.space])
             state == StateOf(w.name, w)
             own == KeysOf(s)
  <2>1. IsState(state) /\ KeysOf(state) = {w.name}
    BY <1>1, NamedState
  <2> HIDE DEF state, own
  <2>2. /\ WorkCall(c, own, KeysOf(state)) /\ c.op # "returns"
        /\ WorkCall(d, own, KeysOf(state)) /\ d.op # "returns"
    BY <2>1, MakingCalls, QuietCalls DEF MoveSubnetToSpace
  <2> HIDE DEF c, d
  <2>3. SubnetUpdate(w) = <<c, d, returns(state)>>
    BY Tuples DEF SubnetUpdate, MovedTo, c, d, state
  <2>4. own = KeysOf(state)
    BY <1>1, <2>1, NamedKeys DEF own, Replaced, SubnetReplaced
  <2>5. WorkCalls(<<c, d, returns(state)>>, own) /\ Ends(<<c, d, returns(state)>>) = own
    BY <1>1, <2>1, <2>2, <2>4, WorkOfTwo
  <2> QED BY <2>3, <2>5 DEF own, Stays
<1>4. DeleteKeeps
  <2> SUFFICES ASSUME NEW s, IsState(s)
               PROVE  /\ DeleteCalls(Delete(s), KeysOf(s))
                      /\ s.name \in Keys /\ Held(there[s.name]) => \E i \in DOMAIN Delete(s) : Disposes(Delete(s)[i], s.name)
    BY <1>1, NamedKeys DEF DeleteKeeps
  <2>1. CASE Has(there[s.name], [space |-> "alpha"])
    <3>1. Delete(s) = <<returns(None)>>
      BY <2>1 DEF Delete, SubnetDelete
    <3>2. ~Held(there[s.name])
      BY <2>1 DEF Has, Held
    <3> QED BY <3>1, <3>2, OnlyReturns
  <2>2. CASE ~Has(there[s.name], [space |-> "alpha"])
    <3> DEFINE fields == [space |-> "alpha"]
               c == set(s.name, fields)
               d == see(s.name, fields)
               e == returns(None)
               own == KeysOf(s)
               cs == <<c, d, e>>
    <3>1. own = {s.name} /\ "space" \in DOMAIN fields /\ fields.space = "alpha" /\ "name" \notin DOMAIN fields
      BY <1>1, NamedKeys
    <3> HIDE DEF own, fields
    <3>2. /\ c.op = "set" /\ c.key = s.name /\ c.val = fields /\ c.soft = <<>>
          /\ e.op = "returns" /\ e.soft = <<>>
          /\ DeleteCall(d, own) /\ d.op \notin {"returns", "set"}
      BY EndingCalls DEF set, returns, Call
    <3> HIDE DEF c, d, e
    <3>3. DeleteCall(c, own) /\ DeleteCall(e, own) /\ Disposes(c, s.name)
      BY <3>1, <3>2 DEF DeleteCall, Within, KeepsNames, Changing, Disposes
    <3>4. Delete(s) = cs
      BY <2>2, Tuples DEF Delete, SubnetDelete, MovedTo, MoveSubnetToSpace, c, d, e, fields
    <3>5. /\ cs \in Seq({c, d, e}) /\ Len(cs) = 3 /\ DOMAIN cs = {1, 2, 3} /\ cs # <<>>
          /\ cs[1] = c /\ cs[2] = d /\ cs[3] = e
      OBVIOUS
    <3> HIDE DEF cs
    <3>6. Final(cs)
      <4>1. cs \in Seq(ToSet(cs))
        BY <3>5, ItsOwnCalls
      <4> QED BY <4>1, <3>2, <3>5 DEF Final
    <3>7. /\ \E j \in 1..Len(cs) : Disposes(cs[j], s.name)
          /\ \A i \in DOMAIN cs : DeleteCall(cs[i], own) /\ (cs[i].op = "set" => i = 1 /\ cs[i].key = s.name)
      BY <3>2, <3>3, <3>5
    <3>8. DeleteCalls(cs, own)
      BY <3>6, <3>7 DEF DeleteCalls
    <3> QED BY <3>3, <3>4, <3>5, <3>8 DEF own
  <2> QED BY <2>1, <2>2
<1>5. ReadKeeps
  <2>1. ASSUME NEW s, Readable(s), NEW state \in ReadOf(s)
        PROVE  DOMAIN state = DOMAIN s /\ state.id = s.id /\ state.name = s.id
    <3>1. {"id", "name"} \subseteq DOMAIN s
      BY <1>1, <2>1 DEF Readable
    <3>2. state = [s EXCEPT !.name = s.id, !.space = there[s.id].space]
      BY <2>1 DEF ReadOf, SubnetRead, ReadSubnet
    <3> QED BY <3>1, <3>2
  <2>2. \A k \in Keys : \A s \in Importable(k) : Readable(s)
    BY DEF Readable, Importable, SubnetImport
  <2> QED BY <1>1, <2>1, <2>2, ReadsNames
<1> QED BY <1>2, <1>3, <1>4, <1>5

LEMMA Joined ==
  ASSUME NEW S, NEW s \in Seq(S), NEW e \in Seq(S)
  PROVE  s \o e \in Seq(S)
BY ConcatProperties

\* The calls that an update of an application can consist of.
AppUpdateOf(S, s, w, app, own, ends) ==
  /\ UpdateApplication(s, w, app) \in Seq(S)
  /\ see(w.name, [name |-> w.name]) \in S
  /\ \A c \in S : c.op # "returns" /\ WorkCall(c, own, ends)

LEMMA AppUpdates ==
  ASSUME kind = "application", NEW s, NEW w \in Configs, NEW app, NEW own, NEW ends, w.name \in own
  PROVE  \E S : AppUpdateOf(S, s, w, app, own, ends)
<1> DEFINE refreshed == [resource |-> IF w.resource = None THEN 0 ELSE w.resource,
                         revision |-> w.revision,
                         new      |-> IF w.revision = 2 THEN app.default ELSE None,
                         config   |-> IF w.revision = 2 THEN app.config ELSE None]
           current  == EndpointBindings(app)
           updated  == computeUpdatedBindings(current, computeEndpointBindingsDeltas(s.bindings, w.bindings))
           kept     == DOMAIN current \ ({"new"} \ EndpointsOf(w.revision))
           fields   == [f \in {FieldOf(e) : e \in kept} |-> updated[EndpointOf(f)]]
           resource == [resource |-> refreshed.resource]
           asked    == [config |-> w.config]
           none     == [config |-> None]
           c1 == set(w.name, resource)
           c2 == set(w.name, refreshed)
           c3 == set(w.name, none)
           c4 == check(w.name, [revision |-> 2])
           c5 == set(w.name, asked)
           c6 == set(w.name, fields)
           c7 == see(w.name, [name |-> w.name])
           S  == {c1, c2, c3, c4, c5, c6, c7, fails}
<1>1. /\ "name" \notin DOMAIN refreshed /\ "name" \notin DOMAIN resource
      /\ "name" \notin DOMAIN asked /\ "name" \notin DOMAIN none
  OBVIOUS
<1>2. "name" \notin DOMAIN fields
  <2>1. \A e \in kept : FieldOf(e) \in {"default", "db", "new"}
    BY DEF EndpointBindings, EndpointsOf, FieldOf
  <2> QED BY <2>1
<1>3. UpdateCharmAndResources(s, w, app) \in {<<>>, <<c1>>, <<c2>>}
  BY DEF UpdateCharmAndResources
<1>4. UpdateConfigOf(s, w) \in {<<>>, <<c3>>, <<c4, c5>>}
  BY DEF UpdateConfigOf
<1>5. UpdateBindings(s, w, app) \in {<<>>, <<fails>>, <<c6>>}
  BY DEF UpdateBindings
<1> HIDE DEF refreshed, fields, resource, asked, none
<1>6. \A f : "name" \notin DOMAIN f => WorkCall(set(w.name, f), own, ends) /\ set(w.name, f).op # "returns"
  BY MakingCalls
<1>7. /\ WorkCall(c4, own, ends) /\ c4.op # "returns" /\ WorkCall(c7, own, ends) /\ c7.op # "returns"
      /\ WorkCall(fails, own, ends) /\ fails.op # "returns"
  BY QuietCalls
<1>8. \A c \in S : c.op # "returns" /\ WorkCall(c, own, ends)
  <2>1. \A c \in {c1, c2, c3, c5, c6} : c.op # "returns" /\ WorkCall(c, own, ends)
    BY <1>1, <1>2, <1>6
  <2> QED BY <2>1, <1>7
<1> HIDE DEF c1, c2, c3, c4, c5, c6, c7
<1>9. /\ <<>> \in Seq(S) /\ <<c1>> \in Seq(S) /\ <<c2>> \in Seq(S) /\ <<c3>> \in Seq(S)
      /\ <<c4, c5>> \in Seq(S) /\ <<fails>> \in Seq(S) /\ <<c6>> \in Seq(S) /\ c7 \in S
  OBVIOUS
<1> HIDE DEF S
<1>10. UpdateApplication(s, w, app) \in Seq(S)
  <2> DEFINE a == UpdateCharmAndResources(s, w, app)
             b == UpdateConfigOf(s, w)
             d == UpdateBindings(s, w, app)
  <2>1. a \in Seq(S) /\ b \in Seq(S) /\ d \in Seq(S)
    BY <1>3, <1>4, <1>5, <1>9
  <2>2. UpdateApplication(s, w, app) = <<fails>> \/ UpdateApplication(s, w, app) = a \o b \o d
    BY DEF UpdateApplication
  <2> HIDE DEF a, b, d
  <2>3. (a \o b) \o d \in Seq(S)
    BY <2>1, Joined
  <2> QED BY <1>9, <2>2, <2>3
<1> QED BY <1>8, <1>9, <1>10 DEF c7, AppUpdateOf

LEMMA ApplicationKeeps ==
  ASSUME NoneIsNoState, kind = "application", ThereInv
  PROVE  CreateKeeps /\ UpdateKeeps /\ DeleteKeeps /\ ReadKeeps
<1>1. kind \in ByName /\ kind # "subnet" /\ kind \in Unsaved
  BY DEF ByName, AllKinds, Unsaved
<1>2. CreateKeeps
  <2> SUFFICES ASSUME NEW w \in Configs PROVE WorkCalls(AppCreate(w), {})
    BY DEF CreateKeeps, Create
  <2> DEFINE c == CreateApplication(w)
             d == see(w.name, [name |-> w.name])
             state == StateOf(w.name, w)
  <2>1. IsState(state) /\ KeysOf(state) = {w.name}
    BY <1>1, NamedState
  <2> HIDE DEF state
  <2>2. WorkCall(c, {}, KeysOf(state)) /\ c.op # "returns"
    BY <1>1, <2>1, MakingCalls DEF CreateApplication
  <2>3. WorkCall(d, {}, KeysOf(state)) /\ d.op # "returns"
    BY QuietCalls
  <2> HIDE DEF c, d
  <2>4. AppCreate(w) = <<c, d, returns(state)>>
    BY DEF AppCreate, c, d, state
  <2> QED BY <1>1, <2>1, <2>2, <2>3, <2>4, WorkOfTwo
<1>3. UpdateKeeps
  <2> SUFFICES ASSUME NEW s, IsState(s), NEW w \in Configs, ~Replaced(s, w)
               PROVE  Stays(AppUpdate(s, w, there), KeysOf(s))
    BY DEF UpdateKeeps, Update, Stays
  <2> DEFINE update == UpdateApplication(s, w, there[s.name])
             c == see(w.name, [name |-> w.name])
             state == StateOf(s.id, w)
             own == KeysOf(s)
  <2>1. s.name = w.name /\ s.id = w.name
    BY <1>1 DEF Replaced, AppReplaced, IsState
  <2>2. IsState(state) /\ KeysOf(state) = {w.name} /\ own = {w.name} /\ w.name \in own
    BY <1>1, <2>1, NamedState, NamedKeys
  <2> HIDE DEF own, state
  <2>3. CASE update # <<>> /\ update[Len(update)] = fails
    <3>1. PICK S : /\ update \in Seq(S)
                   /\ c \in S
                   /\ \A x \in S : x.op # "returns" /\ WorkCall(x, own, {})
      <4>1. \E S : AppUpdateOf(S, s, w, there[s.name], own, {})
        BY <2>2, AppUpdates
      <4> QED BY <4>1 DEF AppUpdateOf
    <3>2. update[Len(update)].op = "fails" /\ AppUpdate(s, w, there) = update
      BY <2>3, QuietCalls DEF AppUpdate
    <3> HIDE DEF update
    <3>3. WorkCalls(update, own) /\ Ends(update) = {}
      BY <1>1, <2>3, <3>1, <3>2, WorkThatFails
    <3> QED BY <3>2, <3>3 DEF own, Stays
  <2>4. CASE ~(update # <<>> /\ update[Len(update)] = fails)
    <3>1. PICK S : /\ update \in Seq(S)
                   /\ c \in S
                   /\ \A x \in S : x.op # "returns" /\ WorkCall(x, own, KeysOf(state))
      <4>1. \E S : AppUpdateOf(S, s, w, there[s.name], own, KeysOf(state))
        BY <2>2, AppUpdates
      <4> QED BY <4>1 DEF AppUpdateOf
    <3>2. AppUpdate(s, w, there) = update \o <<c, returns(state)>>
      BY <2>4 DEF AppUpdate, state
    <3> DEFINE end == returns(state)
               T == S \cup {end}
    <3> HIDE DEF c, update, end
    <3>3. update \o <<c, end>> = (update \o <<c>>) \o <<end>>
      <4>1. <<c>> \o <<end>> = <<c, end>>
        BY Tuples, Zenon
      <4>2. update \in Seq(T) /\ <<c>> \in Seq(T) /\ <<end>> \in Seq(T)
        BY <3>1
      <4> HIDE DEF T
      <4> QED BY <4>1, <4>2, ConcatAssociative
    <3>4. update \o <<c>> \in Seq(S)
      BY <3>1, Joined
    <3> DEFINE body == update \o <<c>>
    <3> HIDE DEF body
    <3>5. Stays(body \o <<returns(state)>>, own)
      BY <1>1, <2>2, <3>1, <3>4, WorkThatStays DEF body
    <3> QED BY <3>2, <3>3, <3>5 DEF own, body, end
  <2> QED BY <2>3, <2>4
<1>4. DeleteKeeps
  <2> SUFFICES ASSUME NEW s, IsState(s)
               PROVE  /\ DeleteCalls(Delete(s), KeysOf(s))
                      /\ \E i \in DOMAIN Delete(s) : Disposes(Delete(s)[i], s.id)
    BY <1>1, NamedKeys DEF DeleteKeeps, IsState
  <2> DEFINE c == doom(s.id)
             d == gone(s.id)
             own == KeysOf(s)
  <2>1. /\ c.op \notin {"returns", "set"} /\ DeleteCall(c, own) /\ Disposes(c, s.id)
        /\ d.op \notin {"returns", "set"} /\ DeleteCall(d, own)
    BY EndingCalls
  <2> HIDE DEF c, d, own
  <2>2. Delete(s) = <<c, d, returns(None)>>
    BY DEF Delete, AppDelete, c, d
  <2> QED BY <2>1, <2>2, DeletionOfTwo DEF own
<1>5. ReadKeeps
  <2>1. ASSUME NEW s, Readable(s), NEW state \in ReadOf(s)
        PROVE  \/ state = None /\ there[s.id] = None
               \/ DOMAIN state = DOMAIN s /\ state.id = s.id /\ state.name = s.id
    <3>1. s.id \in Keys /\ {"id", "name"} \subseteq DOMAIN s
      BY <1>1, <2>1 DEF Readable
    <3>2. CASE there[s.id] = None
      BY <2>1, <3>1, <3>2 DEF ReadOf, AppRead
    <3>3. CASE there[s.id] # None
      <4> DEFINE app == there[s.id]
                 config == newConfigFromApplicationAPI(app.config, s.config)
                 resource == configureResourceData(s.resource, app)
                 bindings == IF ReadBindings(app) = None THEN s.bindings ELSE ReadBindings(app)
      <4>1. state = [s EXCEPT !.name = app.name, !.revision = app.revision, !.config = config,
                              !.resource = resource, !.bindings = bindings]
        BY <2>1, <3>1, <3>3 DEF ReadOf, AppRead
      <4>2. app.name = s.id
        BY <1>1, <3>1, <3>3 DEF ThereInv
      <4> HIDE DEF app, config, resource, bindings
      <4> QED BY <3>1, <4>1, <4>2
    <3> QED BY <3>2, <3>3
  <2>2. \A k \in Keys : \A s \in Importable(k) : Readable(s)
    BY DEF Readable, Importable, AppImport
  <2> QED BY <1>1, <2>1, <2>2, ReadsNames
<1> QED BY <1>2, <1>3, <1>4, <1>5

-----------------------------------------------------------------------------
(* The kinds whose objects are under identifiers.                          *)

\* What a state is about is in its ID.
ByID == {"credential", "group", "role", "secret", "machine", "model"}

LEMMA IDKeys ==
  ASSUME kind \in ByID, NEW s, NEW t, s.id = t.id
  PROVE  KeysOf(s) = KeysOf(t)
BY DEF ByID, KeysOf, Flagged

LEMMA IDState ==
  ASSUME kind \in ByID, NEW s, "id" \in DOMAIN s
  PROVE  IsState(s) /\ Readable(s)
BY DEF ByID, ByName, IsState, Readable

LEMMA StateOfID ==
  ASSUME NEW id, NEW w
  PROVE  "id" \in DOMAIN StateOf(id, w) /\ StateOf(id, w).id = id
BY DEF StateOf

LEMMA ReadsIDs ==
  ASSUME NoneIsNoState, kind \in ByID,
         \A s : Readable(s) => \A state \in ReadOf(s) :
           \/ state = None /\ \A k \in KeysOf(s) : there[k] = None
           \/ "id" \in DOMAIN state /\ state.id = s.id,
         \A k \in Keys : there[k] # None => \A s \in Importable(k) : "id" \in DOMAIN s
  PROVE  ReadKeeps
<1>1. \A s : Readable(s) => \A state \in ReadOf(s) : state # None => IsState(state)
  BY IDState
<1>2. ASSUME NEW s, IsState(s), NEW state \in ReadOf(s), NEW k \in KeysOf(s), k \in Keys, Held(there[k])
      PROVE  state # None /\ k \in KeysOf(state)
  <2>1. "id" \in DOMAIN state /\ state.id = s.id
    BY <1>2 DEF Held, IsState
  <2> QED BY <1>2, <2>1, IDKeys DEF NoneIsNoState
<1>3. \A k \in Keys : there[k] # None => \A s \in Importable(k) : Readable(s)
  BY IDState
<1> QED BY <1>1, <1>2, <1>3 DEF ReadKeeps

LEMMA GroupKeeps ==
  ASSUME NoneIsNoState, kind = "group", ThereInv
  PROVE  CreateKeeps /\ UpdateKeeps /\ DeleteKeeps /\ ReadKeeps
<1>1. kind \in ByID /\ kind \notin ByName
  BY DEF ByID, ByName
<1>2. CreateKeeps
  <2> SUFFICES ASSUME NEW w \in Configs PROVE WorkCalls(GroupCreate(w, there), {})
    BY DEF CreateKeeps, Create
  <2> DEFINE id == FreshID(there)
             state == StateOf(id, w)
  <2>1. IsState(state) /\ KeysOf(state) = {id}
    BY <1>1, IDState, StateOfID DEF KeysOf
  <2>2. GroupCreate(w, there) = <<AddGroup(id, w.name), returns(state)>>
    BY DEF GroupCreate
  <2> HIDE DEF id, state
  <2>3. WorkCall(AddGroup(id, w.name), {}, KeysOf(state)) /\ AddGroup(id, w.name).op # "returns"
    BY <1>1, <2>1, MakingCalls DEF AddGroup
  <2> QED BY <2>1, <2>2, <2>3, WorkOfOne
<1>3. UpdateKeeps
  <2> SUFFICES ASSUME NEW s, IsState(s), NEW w \in Configs
               PROVE  Stays(GroupUpdate(s, w), KeysOf(s))
    BY DEF UpdateKeeps, Update, Stays
  <2> DEFINE state == [s EXCEPT !.name = w.name]
             own == KeysOf(s)
  <2>1. IsState(state)
    BY <1>1, IDState DEF IsState, Readable
  <2>2. GroupUpdate(s, w) = <<RenameGroup(s.name, w.name), returns(state)>>
    BY DEF GroupUpdate
  <2> HIDE DEF own, state
  <2>3. WorkCall(RenameGroup(s.name, w.name), own, KeysOf(state)) /\ RenameGroup(s.name, w.name).op # "returns"
    BY QuietCalls DEF RenameGroup, NamedKinds
  <2>4. KeysOf(state) = own
    BY DEF KeysOf, own, state
  <2> QED BY <2>1, <2>2, <2>3, <2>4, WorkOfOne DEF own, Stays
<1>4. DeleteKeeps
  <2> SUFFICES ASSUME NEW s
               PROVE  /\ DeleteCalls(GroupDelete(s), KeysOf(s))
                      /\ \A k : \E i \in DOMAIN GroupDelete(s) : Disposes(GroupDelete(s)[i], k)
    BY DEF DeleteKeeps, Delete
  <2>1. LET c == removeNamed(s.name) IN
        DeleteCall(c, KeysOf(s)) /\ c.op \notin {"returns", "set"} /\ \A k : Disposes(c, k)
    BY EndingCalls DEF NamedKinds
  <2> QED BY <2>1, DeletionOfOne DEF GroupDelete, RemoveGroup
<1>5. ReadKeeps
  <2>1. \A s : Readable(s) => \A state \in ReadOf(s) : "id" \in DOMAIN state /\ state.id = s.id
    BY DEF Readable, ReadOf, GroupRead
  <2>2. \A k \in Keys : \A s \in Importable(k) : "id" \in DOMAIN s
    BY DEF Importable
  <2> QED BY <1>1, <2>1, <2>2, ReadsIDs
<1> QED BY <1>2, <1>3, <1>4, <1>5

LEMMA RoleKeeps ==
  ASSUME NoneIsNoState, kind = "role", ThereInv
  PROVE  CreateKeeps /\ UpdateKeeps /\ DeleteKeeps /\ ReadKeeps
<1>1. kind \in ByID /\ kind \notin ByName
  BY DEF ByID, ByName
<1>2. CreateKeeps
  <2> SUFFICES ASSUME NEW w \in Configs PROVE WorkCalls(RoleCreate(w, there), {})
    BY DEF CreateKeeps, Create
  <2> DEFINE id == FreshID(there)
             state == StateOf(id, w)
  <2>1. IsState(state) /\ KeysOf(state) = {id}
    BY <1>1, IDState, StateOfID DEF KeysOf
  <2>2. RoleCreate(w, there) = <<AddRole(id, w.name), returns(state)>>
    BY DEF RoleCreate
  <2> HIDE DEF id, state
  <2>3. WorkCall(AddRole(id, w.name), {}, KeysOf(state)) /\ AddRole(id, w.name).op # "returns"
    BY <1>1, <2>1, MakingCalls DEF AddRole
  <2> QED BY <2>1, <2>2, <2>3, WorkOfOne
<1>3. UpdateKeeps
  <2> SUFFICES ASSUME NEW s, IsState(s), NEW w \in Configs
               PROVE  Stays(RoleUpdate(s, w), KeysOf(s))
    BY DEF UpdateKeeps, Update, Stays
  <2> DEFINE state == [s EXCEPT !.name = w.name]
             own == KeysOf(s)
  <2>1. IsState(state)
    BY <1>1, IDState DEF IsState, Readable
  <2>2. RoleUpdate(s, w) = <<RenameRole(s.name, w.name), returns(state)>>
    BY DEF RoleUpdate
  <2> HIDE DEF own, state
  <2>3. WorkCall(RenameRole(s.name, w.name), own, KeysOf(state)) /\ RenameRole(s.name, w.name).op # "returns"
    BY QuietCalls DEF RenameRole, NamedKinds
  <2>4. KeysOf(state) = own
    BY DEF KeysOf, own, state
  <2> QED BY <2>1, <2>2, <2>3, <2>4, WorkOfOne DEF own, Stays
<1>4. DeleteKeeps
  <2> SUFFICES ASSUME NEW s
               PROVE  /\ DeleteCalls(RoleDelete(s), KeysOf(s))
                      /\ \A k : \E i \in DOMAIN RoleDelete(s) : Disposes(RoleDelete(s)[i], k)
    BY DEF DeleteKeeps, Delete
  <2>1. LET c == removeNamed(s.name) IN
        DeleteCall(c, KeysOf(s)) /\ c.op \notin {"returns", "set"} /\ \A k : Disposes(c, k)
    BY EndingCalls DEF NamedKinds
  <2> QED BY <2>1, DeletionOfOne DEF RoleDelete, RemoveRole
<1>5. ReadKeeps
  <2>1. \A s : Readable(s) => \A state \in ReadOf(s) : "id" \in DOMAIN state /\ state.id = s.id
    BY DEF Readable, ReadOf, RoleRead
  <2>2. \A k \in Keys : \A s \in Importable(k) : "id" \in DOMAIN s
    BY DEF Importable
  <2> QED BY <1>1, <2>1, <2>2, ReadsIDs
<1> QED BY <1>2, <1>3, <1>4, <1>5

LEMMA SecretKeeps ==
  ASSUME NoneIsNoState, kind = "secret", ThereInv
  PROVE  CreateKeeps /\ UpdateKeeps /\ DeleteKeeps /\ ReadKeeps
<1>1. kind \in ByID /\ kind \notin ByName
  BY DEF ByID, ByName
<1>2. CreateKeeps
  <2> SUFFICES ASSUME NEW w \in Configs PROVE WorkCalls(SecretCreate(w, there), {})
    BY DEF CreateKeeps, Create
  <2> DEFINE id == FreshID(there)
             state == StateOf(id, w)
             c == CreateSecret(id, w)
  <2>1. IsState(state) /\ KeysOf(state) = {id}
    BY <1>1, IDState, StateOfID DEF KeysOf
  <2>2. SecretCreate(w, there) = <<c, returns(state)>>
    BY DEF SecretCreate
  <2> HIDE DEF id, state
  <2>3. WorkCall(c, {}, KeysOf(state)) /\ c.op # "returns"
    <3> DEFINE secret == [name |-> w.name, info |-> w.info, content |-> resolveSecretValue(w)]
    <3>1. c = add(id, secret) \/ c = addNamed(id, secret)
      BY DEF CreateSecret
    <3> HIDE DEF secret, c
    <3> QED BY <1>1, <2>1, <3>1, MakingCalls
  <2> HIDE DEF c
  <2> QED BY <2>1, <2>2, <2>3, WorkOfOne
<1>3. UpdateKeeps
  <2> SUFFICES ASSUME NEW s, IsState(s), NEW w \in Configs
               PROVE  Stays(SecretUpdate(s, w), KeysOf(s))
    BY DEF UpdateKeeps, Update, Stays
  <2> DEFINE changed == {x \in {"name", "info"} : s[x] # w[x]} \cup (IF contentChanged(s, w) THEN {"content"} ELSE {})
             fields == [x \in changed |-> IF x = "content" THEN resolveSecretValue(w) ELSE w[x]]
             c == UpdateSecret(s.id, fields)
             state == StateOf(s.id, w)
             own == KeysOf(s)
  <2>1. IsState(state) /\ KeysOf(state) = {s.id}
    BY <1>1, IDState, StateOfID DEF KeysOf
  <2>2. SecretUpdate(s, w) = <<c, returns(state)>>
    BY DEF SecretUpdate
  <2> HIDE DEF own, state, fields
  <2>3. WorkCall(c, own, KeysOf(state)) /\ c.op # "returns"
    BY <1>1, <2>1, MakingCalls DEF UpdateSecret
  <2> HIDE DEF c
  <2>4. KeysOf(state) = own
    BY <2>1 DEF KeysOf, own
  <2> QED BY <2>1, <2>2, <2>3, <2>4, WorkOfOne DEF own, Stays
<1>4. DeleteKeeps
  <2> SUFFICES ASSUME NEW s
               PROVE  /\ DeleteCalls(SecretDelete(s), KeysOf(s))
                      /\ \E i \in DOMAIN SecretDelete(s) : Disposes(SecretDelete(s)[i], s.id)
    BY DEF DeleteKeeps, Delete, KeysOf
  <2>1. LET c == drop(s.id) IN
        DeleteCall(c, KeysOf(s)) /\ c.op \notin {"returns", "set"} /\ Disposes(c, s.id)
    BY EndingCalls DEF KeysOf
  <2> QED BY <2>1, DeletionOfOne DEF SecretDelete, DeleteSecret
<1>5. ReadKeeps
  <2>1. ASSUME NEW s, Readable(s), NEW state \in ReadOf(s) PROVE "id" \in DOMAIN state /\ state.id = s.id
    <3> DEFINE secret == ReadSecret(s.id, there)
               name == IF s.name = None THEN None ELSE secret.name
               info == IF s.info = None THEN None ELSE secret.info
               value == IF s.value = None THEN None ELSE IF secret.content[1] = "plain" THEN secret.content[2] ELSE 0
    <3>1. state = [s EXCEPT !.name = name, !.info = info, !.value = value]
      BY <2>1 DEF ReadOf, SecretRead
    <3> HIDE DEF name, info, value
    <3> QED BY <2>1, <3>1 DEF Readable
  <2>2. \A k \in Keys : \A s \in Importable(k) : "id" \in DOMAIN s
    BY DEF Importable, SecretImport
  <2> QED BY <1>1, <2>1, <2>2, ReadsIDs
<1> QED BY <1>2, <1>3, <1>4, <1>5

\* A call at the end of the others, before the handler returns.
LEMMA LastTwo ==
  ASSUME NEW S, NEW body \in Seq(S), NEW c \in S, NEW end
  PROVE  body \o <<c, end>> = (body \o <<c>>) \o <<end>> /\ body \o <<c>> \in Seq(S)
<1> DEFINE T == S \cup {end}
<1>1. <<c>> \o <<end>> = <<c, end>>
  BY Tuples, Zenon
<1>2. body \in Seq(T) /\ <<c>> \in Seq(T) /\ <<end>> \in Seq(T)
  OBVIOUS
<1>3. body \o <<c>> \in Seq(S)
  BY Joined
<1> HIDE DEF T
<1>4. (body \o <<c>>) \o <<end>> = body \o (<<c>> \o <<end>>)
  BY <1>2, ConcatAssociative
<1> QED BY <1>1, <1>3, <1>4

\* Create and Update of a credential.
LEMMA CredentialWork ==
  ASSUME kind = "credential", NEW w, NEW own
  PROVE  /\ WorkCalls(CreateCredential(w) \o <<returns(StateOf(newCredentialID(w), w))>>, own)
         /\ UpdateCredential(w) = CreateCredential(w)
<1>1. kind \in ByID /\ kind \notin ByName /\ kind \in Unsaved
  BY DEF ByID, ByName, Unsaved
<1> DEFINE state == StateOf(newCredentialID(w), w)
           obj == [name |-> w.name, auth |-> w.auth]
           c == put("client", obj)
           d == put("controller", obj)
           ends == KeysOf(state)
           S == {x \in {c, d, fails} : x.op # "returns" /\ WorkCall(x, own, ends)}
<1>2. IsState(state)
  BY <1>1, IDState, StateOfID
<1>3. (w.client => "client" \in ends) /\ (w.controller => "controller" \in ends)
  BY StateOfID DEF KeysOf, Flagged, newCredentialID
<1> HIDE DEF state, obj
<1>4. (w.client => c \in S) /\ (w.controller => d \in S) /\ fails \in S
  <2>1. w.client => c.op # "returns" /\ WorkCall(c, own, ends)
    <3> SUFFICES ASSUME w.client PROVE c.op # "returns" /\ WorkCall(c, own, ends)
      OBVIOUS
    <3>1. "client" \in own \cup ends
      BY <1>3
    <3> HIDE DEF ends
    <3> QED BY <1>1, <3>1 DEF WorkCall, Within, Changing, Removing, Replacing, put, Call
  <2>2. w.controller => d.op # "returns" /\ WorkCall(d, own, ends)
    <3> SUFFICES ASSUME w.controller PROVE d.op # "returns" /\ WorkCall(d, own, ends)
      OBVIOUS
    <3>1. "controller" \in own \cup ends
      BY <1>3
    <3> HIDE DEF ends
    <3> QED BY <1>1, <3>1 DEF WorkCall, Within, Changing, Removing, Replacing, put, Call
  <2>3. fails.op # "returns" /\ WorkCall(fails, own, ends)
    BY QuietCalls
  <2> HIDE DEF c, d, ends
  <2> QED BY <2>1, <2>2, <2>3
<1>5. CreateCredential(w) \in Seq(S)
  <2>1. CreateCredential(w) = IF Flagged(w) = {} THEN <<fails>> ELSE putClient(w) \o putController(w)
    BY DEF CreateCredential
  <2>2. /\ putClient(w) = IF w.client THEN <<c>> ELSE <<>>
        /\ putController(w) = IF w.controller THEN <<d>> ELSE <<>>
    BY DEF putClient, putController, c, d, obj
  <2> HIDE DEF c, d, S
  <2>3. putClient(w) \in Seq(S) /\ putController(w) \in Seq(S) /\ <<fails>> \in Seq(S)
    BY <1>4, <2>2
  <2>4. putClient(w) \o putController(w) \in Seq(S)
    BY <2>3, Joined
  <2> QED BY <2>1, <2>3, <2>4
<1>6. \A x \in S : x.op # "returns" /\ WorkCall(x, own, KeysOf(state))
  OBVIOUS
<1> DEFINE body == CreateCredential(w)
<1> HIDE DEF S, body
<1>7. WorkCalls(body \o <<returns(state)>>, own)
  BY <1>1, <1>2, <1>5, <1>6, WorkOf DEF body
<1>8. UpdateCredential(w) = CreateCredential(w)
  BY DEF UpdateCredential, CreateCredential
<1> QED BY <1>7, <1>8 DEF state, body

LEMMA CredentialKeeps ==
  ASSUME NoneIsNoState, kind = "credential", ThereInv
  PROVE  CreateKeeps /\ UpdateKeeps /\ DeleteKeeps /\ ReadKeeps
<1>1. kind \in ByID /\ kind \notin ByName
  BY DEF ByID, ByName
<1>2. CreateKeeps
  BY CredentialWork DEF CreateKeeps, Create, CredentialCreate
<1>3. UpdateKeeps
  <2> SUFFICES ASSUME NEW s, NEW w PROVE WorkCalls(CredentialUpdate(s, w), KeysOf(s))
    BY DEF UpdateKeeps, Update, Moving
  <2> QED BY CredentialWork DEF CredentialUpdate
<1>4. DeleteKeeps
  <2> SUFFICES ASSUME NEW s, IsState(s)
               PROVE  /\ DeleteCalls(CredentialDelete(s), KeysOf(s))
                      /\ \A k \in KeysOf(s) : \E i \in DOMAIN CredentialDelete(s) : Disposes(CredentialDelete(s)[i], k)
    BY DEF DeleteKeeps, Delete
  <2> DEFINE own == KeysOf(s)
             c == remove("controller")
             d == remove("client")
             S == {c, d}
             body == DestroyCredential(s.id)
             first == IF s.id.controller THEN <<c>> ELSE <<>>
             second == IF s.id.client THEN <<d>> ELSE <<>>
  <2>1. \A x \in S : x.op \notin {"returns", "set"} /\ DeleteCall(x, own)
    BY EndingCalls DEF Replacing
  <2>2. Disposes(c, "controller") /\ Disposes(d, "client")
    BY EndingCalls
  <2>3. body = first \o second
    BY DEF DestroyCredential
  <2>4. \A k \in own : (k = "client" /\ s.id.client) \/ (k = "controller" /\ s.id.controller)
    BY DEF KeysOf, Flagged
  <2> HIDE DEF c, d, own, body
  <2>5. /\ body \in Seq(S)
        /\ s.id.controller => 1 \in DOMAIN body /\ body[1] = c
        /\ s.id.client => \E i \in DOMAIN body : body[i] = d
    <3>1. CASE s.id.controller /\ s.id.client
      <4>1. <<c>> \o <<d>> = <<c, d>>
        BY Tuples, Zenon
      <4>2. body = <<c, d>>
        BY <2>3, <3>1, <4>1
      <4>3. 1 \in DOMAIN <<c, d>> /\ <<c, d>>[1] = c /\ 2 \in DOMAIN <<c, d>> /\ <<c, d>>[2] = d /\ <<c, d>> \in Seq(S)
        OBVIOUS
      <4> QED BY <4>2, <4>3
    <3>2. CASE s.id.controller /\ ~s.id.client
      <4>1. <<c>> \in Seq(S) /\ 1 \in DOMAIN <<c>> /\ <<c>>[1] = c
        OBVIOUS
      <4>2. first = <<c>> /\ second = <<>>
        BY <3>2
      <4> HIDE DEF S, first, second
      <4>3. body = <<c>>
        BY <2>3, <4>1, <4>2, ConcatEmptySeq
      <4> QED BY <3>2, <4>1, <4>3
    <3>3. CASE ~s.id.controller /\ s.id.client
      <4>1. <<d>> \in Seq(S) /\ 1 \in DOMAIN <<d>> /\ <<d>>[1] = d
        OBVIOUS
      <4>2. first = <<>> /\ second = <<d>>
        BY <3>3
      <4> HIDE DEF S, first, second
      <4>3. body = <<d>>
        BY <2>3, <4>1, <4>2, ConcatEmptySeq
      <4> QED BY <3>3, <4>1, <4>3
    <3>4. CASE ~s.id.controller /\ ~s.id.client
      <4>1. <<>> \in Seq(S)
        OBVIOUS
      <4>2. first = <<>> /\ second = <<>>
        BY <3>4
      <4> HIDE DEF S, first, second
      <4>3. body = <<>>
        BY <2>3, <4>1, <4>2, ConcatEmptySeq
      <4> QED BY <3>4, <4>1, <4>3
    <3> QED BY <3>1, <3>2, <3>3, <3>4
  <2> DEFINE cs == body \o <<returns(None)>>
  <2> HIDE DEF S
  <2>6. DeleteCalls(cs, own) /\ \A i \in DOMAIN body : i \in DOMAIN cs /\ cs[i] = body[i]
    BY <2>1, <2>5, DeletionOf
  <2>7. CredentialDelete(s) = cs
    BY DEF CredentialDelete, body
  <2> HIDE DEF cs
  <2>8. \A k \in own : \E i \in DOMAIN cs : Disposes(cs[i], k)
    BY <2>2, <2>4, <2>5, <2>6
  <2> QED BY <2>6, <2>7, <2>8 DEF own
<1>5. ReadKeeps
  <2>1. \A s : \A state \in ReadOf(s) : "id" \in DOMAIN state /\ state.id = s.id
    BY StateOfID DEF ReadOf, CredentialRead
  <2>2. \A k \in Keys : \A s \in Importable(k) : "id" \in DOMAIN s
    BY DEF Importable, CredentialImport
  <2> QED BY <1>1, <2>1, <2>2, ReadsIDs
<1> QED BY <1>2, <1>3, <1>4, <1>5

LEMMA ControllerKeeps ==
  ASSUME NoneIsNoState, kind = "controller", ThereInv
  PROVE  CreateKeeps /\ UpdateKeeps /\ DeleteKeeps /\ ReadKeeps
<1>1. kind \notin ByName /\ kind \in Unsaved
  BY DEF ByName, Unsaved
<1>2. \A s : {"id", "uuid"} \subseteq DOMAIN s => IsState(s) /\ Readable(s) /\ KeysOf(s) = {s.uuid}
  BY <1>1 DEF IsState, Readable, KeysOf
<1>3. \A id, uuid, w : LET s == StateWith(id, uuid, w) IN {"id", "uuid"} \subseteq DOMAIN s /\ s.uuid = uuid
  BY DEF StateWith
<1>4. CreateKeeps
  <2> SUFFICES ASSUME NEW w \in Configs PROVE WorkCalls(ControllerCreate(w, there), {})
    BY DEF CreateKeeps, Create
  <2> DEFINE key == FreshID(there)
             c == Bootstrap(key, w)
             d == ReadConnectionInfo(key)
             state == StateWith(w.name, key, w)
  <2>1. IsState(state) /\ KeysOf(state) = {key}
    BY <1>2, <1>3
  <2>2. ControllerCreate(w, there) = <<c, d, returns(state)>>
    BY DEF ControllerCreate
  <2> HIDE DEF state, key
  <2>3. WorkCall(c, {}, KeysOf(state)) /\ c.op # "returns"
    BY <1>1, <2>1, MakingCalls DEF Bootstrap
  <2>4. WorkCall(d, {}, KeysOf(state)) /\ d.op # "returns"
    BY QuietCalls DEF ReadConnectionInfo
  <2> HIDE DEF c, d
  <2> QED BY <1>1, <2>1, <2>2, <2>3, <2>4, WorkOfTwo
<1>5. UpdateKeeps
  <2> SUFFICES ASSUME NEW s, IsState(s), NEW w \in Configs
               PROVE  Stays(ControllerUpdate(s, w), KeysOf(s))
    BY DEF UpdateKeeps, Update, Stays
  <2> DEFINE own == KeysOf(s)
             state == StateWith(s.id, s.uuid, w)
             c == set(s.uuid, [config |-> w.config])
             d == set(s.uuid, [modelconfig |-> w.modelconfig])
             e == set(s.uuid, [version |-> w.version])
             S == {c, d, e}
             body == UpdateConfig(s, w) \o UpgradeController(s, w)
  <2>1. IsState(state) /\ KeysOf(state) = {s.uuid} /\ own = {s.uuid}
    BY <1>2, <1>3 DEF KeysOf
  <2>2. UpdateConfig(s, w) = (IF w.config \in {None, s.config} THEN <<>> ELSE <<c>>)
                             \o (IF s.modelconfig = w.modelconfig THEN <<>> ELSE <<d>>)
    BY DEF UpdateConfig
  <2>3. UpgradeController(s, w) = IF s.version = w.version THEN <<>> ELSE <<e>>
    BY DEF UpgradeController
  <2> HIDE DEF own, state
  <2>4. \A x \in S : x.op # "returns" /\ WorkCall(x, own, KeysOf(state))
    <3>1. \A f : set(s.uuid, f).op # "returns" /\ WorkCall(set(s.uuid, f), own, KeysOf(state))
      BY <1>1, <2>1, MakingCalls
    <3> QED BY <3>1
  <2> HIDE DEF c, d, e
  <2>5. body \in Seq(S)
    <3> DEFINE a == IF w.config \in {None, s.config} THEN <<>> ELSE <<c>>
               b == IF s.modelconfig = w.modelconfig THEN <<>> ELSE <<d>>
    <3>0. <<>> \in Seq(S) /\ <<c>> \in Seq(S) /\ <<d>> \in Seq(S) /\ <<e>> \in Seq(S)
      OBVIOUS
    <3> HIDE DEF S
    <3>1. a \in Seq(S) /\ b \in Seq(S) /\ UpgradeController(s, w) \in Seq(S)
      BY <2>3, <3>0
    <3> HIDE DEF S, a, b
    <3>2. a \o b \in Seq(S) /\ UpdateConfig(s, w) = a \o b
      BY <3>1, <2>2, Joined DEF a, b
    <3> QED BY <3>1, <3>2, Joined
  <2>6. ControllerUpdate(s, w) = body \o <<returns(state)>>
    BY DEF ControllerUpdate, state
  <2> HIDE DEF S, body
  <2>7. Stays(body \o <<returns(state)>>, own)
    BY <1>1, <2>1, <2>4, <2>5, WorkThatStays
  <2> QED BY <2>6, <2>7 DEF own
<1>6. DeleteKeeps
  <2> SUFFICES ASSUME NEW s, IsState(s)
               PROVE  /\ DeleteCalls(ControllerDelete(s, setting.skip), KeysOf(s))
                      /\ \E i \in DOMAIN ControllerDelete(s, setting.skip) :
                           Disposes(ControllerDelete(s, setting.skip)[i], s.uuid)
    BY DEF DeleteKeeps, Delete, KeysOf
  <2> DEFINE own == KeysOf(s)
             b == IF checkVersionsMatch(s.binary, s.version) THEN remove(s.uuid) ELSE fails
             c == skippable(b, setting.skip)
  <2>1. DeleteCall(b, own) /\ b.op \notin {"returns", "set"} /\ Disposes(b, s.uuid)
    BY EndingCalls DEF KeysOf
  <2>2. c.op = b.op /\ c.key = b.key /\ c.val = b.val /\ (c.soft # <<>> => setting.skip)
    BY DEF skippable, soft, remove, fails, Call
  <2>3. ControllerDelete(s, setting.skip) = <<c, returns(None)>>
    BY DEF ControllerDelete
  <2> HIDE DEF b, c, own
  <2>4. DeleteCall(c, own) /\ c.op \notin {"returns", "set"} /\ Disposes(c, s.uuid)
    BY <1>1, <2>1, <2>2 DEF DeleteCall, Within, Disposes
  <2> QED BY <2>3, <2>4, DeletionOfOne DEF own
<1>7. ReadKeeps
  <2>1. ASSUME NEW s, Readable(s), NEW state \in ReadOf(s)
        PROVE  {"id", "uuid"} \subseteq DOMAIN state /\ state.uuid = s.uuid
    <3> DEFINE c == Config(s.uuid, there)
               config == newConfigFromModelConfigAPI(c.config, s.config)
               modelconfig == newConfigFromModelConfigAPI(c.modelconfig, s.modelconfig)
    <3>1. state = [s EXCEPT !.version = c.version, !.config = config, !.modelconfig = modelconfig]
      BY <2>1 DEF ReadOf, ControllerRead
    <3> HIDE DEF c, config, modelconfig
    <3> QED BY <2>1, <3>1 DEF Readable
  <2>2. \A k \in Keys : \A s \in Importable(k) : Readable(s)
    BY <1>1 DEF Readable, Importable, ControllerImport
  <2>3. \A s : IsState(s) => Readable(s)
    BY DEF IsState
  <2>4. \A s : Readable(s) => \A state \in ReadOf(s) : IsState(state) /\ KeysOf(state) = KeysOf(s) /\ state # None
    BY <1>2, <2>1 DEF NoneIsNoState, KeysOf
  <2> QED BY <2>2, <2>3, <2>4 DEF ReadKeeps
<1> QED BY <1>4, <1>5, <1>6, <1>7

\* A handler that saves the state after its first call.
LEMMA WorkThatSaves ==
  ASSUME NEW c, c.op # "returns", NEW S, NEW body \in Seq(S), NEW own, NEW state, IsState(state),
         own \subseteq KeysOf(state), WorkCall(c, own, KeysOf(state)), kind \notin ByName,
         \A d \in S : d.op # "returns" /\ WorkCall(d, own, KeysOf(state))
  PROVE  WorkCalls((<<c, saves(state)>> \o body) \o <<returns(state)>>, own)
<1> DEFINE save == saves(state)
           end == returns(state)
           T == S \cup {c, save}
           two == <<c, save>>
           all == two \o body
           cs == all \o <<end>>
<1>1. /\ end.op = "returns" /\ end.val = state /\ end.soft = <<>>
      /\ save.op = "saves" /\ save.val = state /\ save.soft = <<>>
  BY DEF returns, saves, Call
<1> HIDE DEF save, end
<1>2. WorkCall(end, own, KeysOf(state)) /\ WorkCall(save, own, KeysOf(state))
  BY <1>1 DEF WorkCall, Within, Changing, Removing
<1>3. \A d \in T : d.op # "returns" /\ WorkCall(d, own, KeysOf(state))
  BY <1>1, <1>2
<1>4. two \in Seq(T) /\ body \in Seq(T) /\ Len(two) = 2 /\ two[1] = c /\ two[2] = save
  OBVIOUS
<1> HIDE DEF T, two
<1>5. all \in Seq(T) /\ Len(all) = 2 + Len(body) /\ all[1] = c /\ all[2] = save /\ {1, 2} \subseteq DOMAIN all
  <2>1. /\ all \in Seq(T) /\ Len(all) = Len(two) + Len(body)
        /\ \A i \in 1..(Len(two) + Len(body)) : all[i] = IF i <= Len(two) THEN two[i] ELSE body[i - Len(two)]
    BY <1>4, ConcatProperties
  <2>2. Len(body) \in Nat
    BY <1>4
  <2> HIDE DEF all
  <2> QED BY <1>4, <2>1, <2>2
<1> HIDE DEF all
<1>6. /\ Final(cs) /\ cs[Len(cs)] = end /\ Len(cs) \in Nat /\ DOMAIN cs = 1..Len(cs)
      /\ \A i \in DOMAIN cs : cs[i] = end \/ cs[i] \in T
      /\ \A i \in DOMAIN all : i \in DOMAIN cs /\ cs[i] = all[i]
  BY <1>1, <1>3, <1>5, LastOne
<1> HIDE DEF cs
<1>7. Ends(cs) = KeysOf(state)
  BY <1>1, <1>6 DEF Ends
<1>8. \A i \in DOMAIN cs : WorkCall(cs[i], own, Ends(cs))
  BY <1>2, <1>3, <1>6, <1>7
<1>9. ASSUME NEW i \in DOMAIN cs
      PROVE  \/ Within(cs[i], own)
             \/ i < Len(cs) /\ cs[i + 1].op \in {"returns", "saves"}
             \/ \E j \in 1..(i - 1) : cs[j].op = "saves"
  <2>1. cs[2] = save /\ 2 \in DOMAIN cs
    BY <1>5, <1>6
  <2>2. CASE i = 1
    BY <2>1, <2>2, <1>1, <1>6
  <2>3. CASE i = 2
    BY <2>1, <2>3, <1>1 DEF Within, Changing
  <2>4. CASE i # 1 /\ i # 2
    <3>1. 2 \in 1..(i - 1)
      BY <2>4, <1>6
    <3> QED BY <2>1, <3>1, <1>1
  <2> QED BY <2>2, <2>3, <2>4
<1>10. WorkCalls(cs, own)
  BY <1>6, <1>8, <1>9 DEF WorkCalls
<1> QED BY <1>10 DEF cs, all, two, save, end

LEMMA SkippableCalls ==
  ASSUME NEW c, NEW own, DeleteCall(c, own), c.op \notin {"returns", "set"},
         c = gone(c.key)
  PROVE  DeleteCall(skippable(c, setting.skip), own) /\ skippable(c, setting.skip).op \notin {"returns", "set"}
<1> DEFINE d == skippable(c, setting.skip)
<1>1. d.op = c.op /\ d.key = c.key /\ d.val = c.val /\ (d.soft # <<>> => setting.skip)
  BY DEF skippable, soft, gone, Call
<1> HIDE DEF d
<1>2. DeleteCall(d, own)
  BY <1>1 DEF DeleteCall, Within, KeepsNames
<1> QED BY <1>1, <1>2 DEF d

LEMMA MachineKeeps ==
  ASSUME NoneIsNoState, kind = "machine", ThereInv
  PROVE  CreateKeeps /\ UpdateKeeps /\ DeleteKeeps /\ ReadKeeps
<1>1. kind \in ByID /\ kind \notin ByName
  BY DEF ByID, ByName
<1>2. CreateKeeps
  <2> SUFFICES ASSUME NEW w \in Configs PROVE WorkCalls(MachineCreate(w, there), {})
    BY DEF CreateKeeps, Create
  <2> DEFINE key == FreshID(there)
             state == StateOf(newMachineID(key, w.name), w)
             c == CreateMachine(key, w)
             d == SetAnnotations(key, w.annotations)
             e == waitForMachine(key)
             S == {d, e}
             notes == updateAnnotations(key, None, w.annotations)
  <2>1. IsState(state) /\ KeysOf(state) = {key}
    BY <1>1, IDState, StateOfID DEF KeysOf, newMachineID, modelMachineIDAndName
  <2>2. MachineCreate(w, there) = (<<c, saves(state)>> \o notes) \o <<e, returns(state)>>
    BY DEF MachineCreate
  <2>3. notes = <<>> \/ notes = <<d>>
    BY DEF updateAnnotations
  <2> HIDE DEF state, key, notes
  <2>4. /\ WorkCall(c, {}, KeysOf(state)) /\ c.op # "returns"
        /\ WorkCall(d, {}, KeysOf(state)) /\ d.op # "returns"
        /\ WorkCall(e, {}, KeysOf(state)) /\ e.op # "returns"
    BY <1>1, <2>1, MakingCalls, QuietCalls DEF CreateMachine, SetAnnotations, waitForMachine
  <2> HIDE DEF c, d, e
  <2>5. \A x \in S : x.op # "returns" /\ WorkCall(x, {}, KeysOf(state))
    BY <2>4
  <2>6. notes \in Seq(S) /\ e \in S
    <3>1. <<>> \in Seq(S) /\ <<d>> \in Seq(S) /\ e \in S
      OBVIOUS
    <3> HIDE DEF S
    <3> QED BY <2>3, <3>1
  <2> DEFINE save == saves(state)
             end == returns(state)
             two == <<c, save>>
             body == notes \o <<e>>
             T == S \cup {c, save}
  <2>7. two \in Seq(T) /\ notes \in Seq(T) /\ e \in T /\ <<e>> \in Seq(T)
    BY <2>6
  <2> HIDE DEF S, T, two, save, end
  <2>8. body \in Seq(S)
    BY <2>6, LastTwo
  <2>9. (two \o notes) \o <<e, end>> = ((two \o notes) \o <<e>>) \o <<end>>
    <3>1. two \o notes \in Seq(T)
      BY <2>7, Joined
    <3> QED BY <2>7, <3>1, LastTwo
  <2>10. (two \o notes) \o <<e>> = two \o body
    BY <2>7, ConcatAssociative
  <2> HIDE DEF body
  <2>11. WorkCalls((<<c, saves(state)>> \o body) \o <<returns(state)>>, {})
    BY <1>1, <2>1, <2>4, <2>5, <2>8, WorkThatSaves
  <2> QED BY <2>2, <2>9, <2>10, <2>11 DEF two, save, end
<1>3. UpdateKeeps
  <2> SUFFICES ASSUME NEW s, IsState(s), NEW w \in Configs
               PROVE  Stays(MachineUpdate(s, w), KeysOf(s))
    BY DEF UpdateKeeps, Update, Stays
  <2> DEFINE key == modelMachineIDAndName(s.id).machine
             id == newMachineID(key, w.name)
             state == [s EXCEPT !.name = w.name, !.annotations = w.annotations, !.id = id]
             c == SetAnnotations(key, w.annotations)
             end == returns(state)
             own == KeysOf(s)
             notes == updateAnnotations(key, s.annotations, w.annotations)
  <2>1. MachineUpdate(s, w) = notes \o <<end>>
    BY DEF MachineUpdate
  <2>2. modelMachineIDAndName(id).machine = key /\ own = {key}
    BY DEF newMachineID, modelMachineIDAndName, KeysOf
  <2> HIDE DEF id, key
  <2>3. "id" \in DOMAIN state /\ state.id = id
    BY DEF IsState, Readable
  <2>4. notes = <<>> \/ notes = <<c>>
    BY DEF updateAnnotations
  <2> HIDE DEF state, notes, own
  <2>5. IsState(state) /\ KeysOf(state) = {key}
    BY <1>1, <2>2, <2>3, IDState DEF KeysOf
  <2>6. WorkCall(c, own, KeysOf(state)) /\ c.op # "returns"
    BY <1>1, <2>5, MakingCalls DEF SetAnnotations
  <2> HIDE DEF c
  <2>7. CASE notes = <<>>
    <3>1. <<>> \o <<end>> = <<end>>
      BY Tuples, Zenon
    <3> QED BY <2>1, <2>2, <2>5, <2>7, <3>1, OnlyReturns DEF own, Stays
  <2>8. CASE notes = <<c>>
    <3>1. <<c>> \o <<end>> = <<c, end>>
      BY Tuples, Zenon
    <3>2. WorkCalls(<<c, returns(state)>>, own) /\ Ends(<<c, returns(state)>>) = own
      BY <2>2, <2>5, <2>6, WorkOfOne
    <3> QED BY <2>1, <2>8, <3>1, <3>2 DEF own, Stays
  <2> QED BY <2>4, <2>7, <2>8
<1>4. DeleteKeeps
  <2> SUFFICES ASSUME NEW s, IsState(s)
               PROVE  LET key == modelMachineIDAndName(s.id).machine
                          cs  == MachineDelete(s, setting.skip)
                      IN  DeleteCalls(cs, KeysOf(s)) /\ \E i \in DOMAIN cs : Disposes(cs[i], key)
    BY DEF DeleteKeeps, Delete, KeysOf
  <2> DEFINE key == modelMachineIDAndName(s.id).machine
             own == KeysOf(s)
             c == doom(key)
             d == skippable(gone(key), setting.skip)
             S == {c, d}
             body == <<c, c, d>>
             end == returns(None)
             cs == MachineDelete(s, setting.skip)
  <2> HIDE DEF key
  <2>1. c.op \notin {"returns", "set"} /\ DeleteCall(c, own) /\ Disposes(c, key)
    BY EndingCalls
  <2>2. d.op \notin {"returns", "set"} /\ DeleteCall(d, own)
    <3>1. gone(key).key = key
      BY DEF gone, Call
    <3>2. gone(key).op \notin {"returns", "set"} /\ DeleteCall(gone(key), own)
      BY EndingCalls
    <3> QED BY <3>1, <3>2, SkippableCalls
  <2>3. cs = <<c, c, d, end>>
    BY DEF MachineDelete, DestroyMachine, key
  <2> HIDE DEF c, d, own, end, cs
  <2>4. <<c, c, d>> \o <<end>> = <<c, c, d, end>>
    BY LongerTuples, Zenon
  <2>5. body \in Seq(S) /\ 1 \in DOMAIN body /\ body[1] = c /\ \A x \in S : x.op \notin {"returns", "set"} /\ DeleteCall(x, own)
    BY <2>1, <2>2
  <2>6. cs = body \o <<end>>
    BY <2>3, <2>4
  <2> HIDE DEF body, S
  <2>7. /\ DeleteCalls(body \o <<returns(None)>>, own)
        /\ \A i \in DOMAIN body : i \in DOMAIN (body \o <<returns(None)>>) /\ (body \o <<returns(None)>>)[i] = body[i]
    BY <2>5, DeletionOf
  <2> QED BY <2>1, <2>5, <2>6, <2>7 DEF own, end, cs, key
<1>5. ReadKeeps
  <2>1. ASSUME NEW s, Readable(s), NEW state \in ReadOf(s) PROVE "id" \in DOMAIN state /\ state.id = s.id
    <3> DEFINE key == modelMachineIDAndName(s.id).machine
               name == modelMachineIDAndName(s.id).name
               machine == ReadMachine(key, there)
    <3>1. state = [s EXCEPT !.name = name, !.constraints = machine.constraints, !.annotations = machine.annotations]
      BY <2>1 DEF ReadOf, MachineRead
    <3> HIDE DEF name, machine
    <3> QED BY <2>1, <3>1 DEF Readable
  <2>2. \A k \in Keys : \A s \in Importable(k) : "id" \in DOMAIN s
    BY DEF Importable, MachineImport
  <2> QED BY <1>1, <2>1, <2>2, ReadsIDs
<1> QED BY <1>2, <1>3, <1>4, <1>5

LEMMA ModelKeeps ==
  ASSUME NoneIsNoState, kind = "model", ThereInv
  PROVE  CreateKeeps /\ UpdateKeeps /\ DeleteKeeps /\ ReadKeeps
<1>1. kind \in ByID /\ kind \notin ByName /\ kind \in Unsaved
  BY DEF ByID, ByName, Unsaved
<1>2. \A s : "id" \in DOMAIN s => IsState(s) /\ KeysOf(s) = {s.id}
  BY <1>1, IDState DEF KeysOf
<1>3. CreateKeeps
  <2> SUFFICES ASSUME NEW w \in Configs PROVE WorkCalls(ModelCreate(w, there), {})
    BY DEF CreateKeeps, Create
  <2> DEFINE key == FreshID(there)
             credential == credentialOf(w)
             state == [StateOf(key, w) EXCEPT !.agent = 2, !.credential = credential]
             noBackend == [state EXCEPT !.backend = None]
             noAgent == [state EXCEPT !.agent = None]
             b1 == SetModelSecretBackend(key, w.backend)
             s1 == see(key, [name |-> w.name])
             c1 == AddModel(key, w)
             c2 == SetModelConstraints(key, w.constraints)
             c3 == SetAnnotations(key, w.annotations)
             c4 == soft(b1, noBackend)
             c5 == soft(s1, noAgent)
             S  == {c1, c2, c3, c4, c5}
             make == CreateModel(key, w)
             notes == updateAnnotations(key, None, w.annotations)
             backend == IF w.backend = None THEN <<>> ELSE <<c4>>
             body == (make \o notes) \o backend
             end == returns(state)
  <2>1. ModelCreate(w, there) = body \o <<c5, end>>
    BY DEF ModelCreate
  <2>2. make = <<c1>> \o (IF w.constraints = None THEN <<>> ELSE <<c2>>)
    BY DEF CreateModel
  <2>3. notes = <<>> \/ notes = <<c3>>
    BY DEF updateAnnotations
  <2>4. "id" \in DOMAIN StateOf(key, w) /\ StateOf(key, w).id = key
    BY StateOfID
  <2> HIDE DEF credential, key
  <2>5. "id" \in DOMAIN state /\ state.id = key
    BY <2>4
  <2> HIDE DEF state
  <2>6. "id" \in DOMAIN noBackend /\ noBackend.id = key /\ "id" \in DOMAIN noAgent /\ noAgent.id = key
    BY <2>5
  <2> HIDE DEF noBackend, noAgent
  <2> DEFINE ends == KeysOf(state)
  <2>7. /\ IsState(state) /\ ends = {key}
        /\ IsState(noBackend) /\ KeysOf(noBackend) = ends
        /\ IsState(noAgent) /\ KeysOf(noAgent) = ends
    BY <1>2, <2>5, <2>6
  <2> HIDE DEF ends
  <2>8. /\ WorkCall(c1, {}, ends) /\ c1.op # "returns"
        /\ WorkCall(c2, {}, ends) /\ c2.op # "returns"
        /\ WorkCall(c3, {}, ends) /\ c3.op # "returns"
        /\ WorkCall(b1, {}, ends) /\ b1.op = "set"
    BY <1>1, <2>7, MakingCalls DEF AddModel, SetModelConstraints, SetAnnotations, SetModelSecretBackend, set, Call
  <2>9. WorkCall(s1, {}, ends) /\ s1.op = "see"
    BY QuietCalls DEF see, Call
  <2>10. /\ c4.op = b1.op /\ c4.key = b1.key /\ c4.val = b1.val /\ c4.soft[1] = noBackend
         /\ c5.op = s1.op /\ c5.key = s1.key /\ c5.val = s1.val /\ c5.soft[1] = noAgent
    BY DEF soft, SetModelSecretBackend, set, see, Call
  <2> HIDE DEF c1, c2, c3, c4, c5, b1, s1
  <2>11. WorkCall(c4, {}, ends) /\ WorkCall(c5, {}, ends)
    BY <1>1, <2>7, <2>8, <2>9, <2>10 DEF WorkCall, Within, Changing, Removing
  <2>12. \A x \in S : x.op # "returns" /\ WorkCall(x, {}, ends)
    BY <2>8, <2>9, <2>10, <2>11
  <2>13. /\ <<>> \in Seq(S) /\ <<c1>> \in Seq(S) /\ <<c2>> \in Seq(S) /\ <<c3>> \in Seq(S) /\ <<c4>> \in Seq(S)
         /\ c5 \in S
    OBVIOUS
  <2> HIDE DEF S
  <2>14. make \in Seq(S) /\ notes \in Seq(S) /\ backend \in Seq(S)
    <3> DEFINE more == IF w.constraints = None THEN <<>> ELSE <<c2>>
    <3>1. more \in Seq(S)
      BY <2>13
    <3>2. make = <<c1>> \o more
      BY <2>2
    <3> HIDE DEF more, make
    <3>3. make \in Seq(S)
      BY <2>13, <3>1, <3>2, Joined
    <3> QED BY <2>3, <2>13, <3>3
  <2> HIDE DEF make, notes, backend, end
  <2>15. body \in Seq(S)
    <3>1. make \o notes \in Seq(S)
      BY <2>14, Joined
    <3> QED BY <2>14, <3>1, Joined
  <2> HIDE DEF body
  <2>16. body \o <<c5, end>> = (body \o <<c5>>) \o <<end>> /\ body \o <<c5>> \in Seq(S)
    BY <2>13, <2>15, LastTwo
  <2> DEFINE all == body \o <<c5>>
  <2> HIDE DEF all
  <2>17. WorkCalls(all \o <<returns(state)>>, {})
    BY <1>1, <2>7, <2>12, <2>16, WorkOf DEF ends, all
  <2> QED BY <2>1, <2>16, <2>17 DEF all, end
<1>4. UpdateKeeps
  <2> SUFFICES ASSUME NEW s, IsState(s), NEW w
               PROVE  Stays(ModelUpdate(s, w), KeysOf(s))
    BY DEF UpdateKeeps, Update, Stays
  <2> DEFINE own == KeysOf(s)
             state == StateOf(s.id, w)
             config == [config |-> w.config]
             c1 == SetAnnotations(s.id, w.annotations)
             c2 == set(s.id, config)
             c3 == SetModelConstraints(s.id, w.constraints)
             c4 == SetModelSecretBackend(s.id, w.backend)
             c5 == UpgradeModel(s.id, w.agent)
             S  == {c1, c2, c3, c4, c5, fails}
             notes == updateAnnotations(s.id, s.annotations, w.annotations)
             model == UpdateModel(s, w)
             backend == IF s.backend = w.backend THEN <<>> ELSE <<c4>>
             agent == IF s.agent = w.agent THEN <<>> ELSE <<c5>>
             body == ((notes \o model) \o backend) \o agent
             first == IF s.config = w.config THEN <<>> ELSE <<c2>>
             last3 == IF s.credential = w.credential THEN <<>> ELSE <<fails>>
  <2>1. ModelUpdate(s, w) = body \o <<returns(state)>>
    BY DEF ModelUpdate
  <2>2. notes = <<>> \/ notes = <<c1>>
    BY DEF updateAnnotations
  <2>3. model = <<>> \/ model = (first \o <<c3>>) \o last3
    BY DEF UpdateModel, ChangeModelCredential
  <2>4. IsState(state) /\ KeysOf(state) = {s.id} /\ own = {s.id}
    BY <1>2, StateOfID DEF KeysOf
  <2> HIDE DEF state, own, config
  <2>5. /\ WorkCall(c1, own, KeysOf(state)) /\ c1.op # "returns"
        /\ WorkCall(c2, own, KeysOf(state)) /\ c2.op # "returns"
        /\ WorkCall(c3, own, KeysOf(state)) /\ c3.op # "returns"
        /\ WorkCall(c4, own, KeysOf(state)) /\ c4.op # "returns"
        /\ WorkCall(c5, own, KeysOf(state)) /\ c5.op # "returns"
    BY <1>1, <2>4, MakingCalls DEF SetAnnotations, SetModelConstraints, SetModelSecretBackend, UpgradeModel
  <2>6. WorkCall(fails, own, KeysOf(state)) /\ fails.op # "returns"
    BY QuietCalls
  <2> HIDE DEF c1, c2, c3, c4, c5
  <2>7. \A x \in S : x.op # "returns" /\ WorkCall(x, own, KeysOf(state))
    BY <2>5, <2>6
  <2>8. /\ <<>> \in Seq(S) /\ <<c1>> \in Seq(S) /\ <<c2>> \in Seq(S) /\ <<c3>> \in Seq(S) /\ <<c4>> \in Seq(S)
        /\ <<c5>> \in Seq(S) /\ <<fails>> \in Seq(S)
    OBVIOUS
  <2> HIDE DEF S
  <2>9. first \in Seq(S) /\ last3 \in Seq(S) /\ notes \in Seq(S) /\ backend \in Seq(S) /\ agent \in Seq(S)
    BY <2>2, <2>8
  <2> HIDE DEF first, last3, notes, model, backend, agent
  <2>10. model \in Seq(S)
    <3>1. first \o <<c3>> \in Seq(S)
      BY <2>8, <2>9, Joined
    <3>2. (first \o <<c3>>) \o last3 \in Seq(S)
      BY <2>9, <3>1, Joined
    <3> QED BY <2>3, <2>8, <3>2
  <2>11. body \in Seq(S)
    <3>1. notes \o model \in Seq(S)
      BY <2>9, <2>10, Joined
    <3>2. (notes \o model) \o backend \in Seq(S)
      BY <2>9, <3>1, Joined
    <3> QED BY <2>9, <3>2, Joined
  <2> HIDE DEF body
  <2>12. Stays(body \o <<returns(state)>>, own)
    BY <1>1, <2>4, <2>7, <2>11, WorkThatStays
  <2> QED BY <2>1, <2>12 DEF own
<1>5. DeleteKeeps
  <2> SUFFICES ASSUME NEW s, IsState(s)
               PROVE  LET cs == ModelDelete(s, setting.skip) IN
                      DeleteCalls(cs, KeysOf(s)) /\ \E i \in DOMAIN cs : Disposes(cs[i], s.id)
    BY DEF DeleteKeeps, Delete, KeysOf
  <2> DEFINE own == KeysOf(s)
             c == destroy(s.id)
             d == skippable(gone(s.id), setting.skip)
  <2>1. c.op \notin {"returns", "set"} /\ DeleteCall(c, own) /\ Disposes(c, s.id)
    BY EndingCalls
  <2>2. d.op \notin {"returns", "set"} /\ DeleteCall(d, own)
    <3>1. gone(s.id).key = s.id
      BY DEF gone, Call
    <3>2. gone(s.id).op \notin {"returns", "set"} /\ DeleteCall(gone(s.id), own)
      BY EndingCalls
    <3> QED BY <3>1, <3>2, SkippableCalls
  <2>3. ModelDelete(s, setting.skip) = <<c, d, returns(None)>>
    BY DEF ModelDelete
  <2> HIDE DEF c, d, own
  <2> QED BY <2>1, <2>2, <2>3, DeletionOfTwo DEF own
<1>6. ReadKeeps
  <2>1. ASSUME NEW s, Readable(s), NEW state \in ReadOf(s)
        PROVE  \/ state = None /\ there[s.id] = None
               \/ "id" \in DOMAIN state /\ state.id = s.id
    <3> DEFINE model == ReadModel(s.id, there)
               imported == s.name = None
               constraints == IF model.constraints = None THEN 0 ELSE model.constraints
               f1 == newConfigFromModelConfigAPI(model.config, s.config)
               f2 == IF s.constraints # None \/ (imported /\ model.constraints # None) THEN constraints ELSE None
               f3 == IF model.annotations = None THEN s.annotations ELSE model.annotations
               f4 == IF s.backend = None THEN None ELSE model.backend
               read == [s EXCEPT !.name = model.name, !.config = f1, !.constraints = f2, !.annotations = f3,
                                 !.backend = f4, !.agent = model.agent, !.credential = model.credential]
    <3>1. model = there[s.id]
      BY DEF ReadModel
    <3>2. IF model = None THEN state = None ELSE state = read
      BY <2>1 DEF ReadOf, ModelRead
    <3> HIDE DEF model, f1, f2, f3, f4
    <3> QED BY <2>1, <3>1, <3>2 DEF Readable
  <2>2. ASSUME NEW s, Readable(s), NEW state \in ReadOf(s)
        PROVE  \/ state = None /\ \A k \in KeysOf(s) : there[k] = None
               \/ "id" \in DOMAIN state /\ state.id = s.id
    BY <2>1, <2>2 DEF KeysOf
  <2>3. \A k \in Keys : \A s \in Importable(k) : "id" \in DOMAIN s
    BY DEF Importable, ModelImport
  <2> QED BY <1>1, <2>2, <2>3, ReadsIDs
<1> QED BY <1>3, <1>4, <1>5, <1>6

-----------------------------------------------------------------------------
(* The theorem.                                                            *)

LEMMA HandlersKeep ==
  ASSUME NoneIsNoState, kind \in AllKinds, ThereInv
  PROVE  CreateKeeps /\ UpdateKeeps /\ DeleteKeeps /\ ReadKeeps
BY UserKeeps, CredentialKeeps, GroupKeeps, RoleKeeps, JAASControllerKeeps, CloudKeeps, KubernetesCloudKeeps,
   SecretBackendKeeps, OfferKeeps, SpaceKeeps, SubnetKeeps, SecretKeeps, StoragePoolKeeps, SSHKeyKeeps,
   MachineKeeps, ModelKeeps, ControllerKeeps, ApplicationKeeps DEF AllKinds

\* Between two applies, an object that the resource made, read or imported is in
\* its state, or told to go, or lost for a reason that is listed: whatever calls
\* Create, Update and Delete of the kind make, in whatever order they fail.
THEOREM OrphansAreExplained ==
  ASSUME NoneIsNoState
  PROVE  Spec => []OrphansExplained
<1>1. Init => IInv
  BY Begun
<1>2. IInv /\ [Next]_vars => IInv'
  <2>1. IInv => CreateKeeps /\ UpdateKeeps /\ DeleteKeeps /\ ReadKeeps
    BY HandlersKeep DEF IInv, ControlInv
  <2> QED BY <2>1, Continued
<1>3. IInv => OrphansExplained
  <2> SUFFICES ASSUME IInv, pc = "idle" PROVE mine \subseteq dying \cup excused \cup Stated(tfstate)
    BY DEF OrphansExplained
  <2>1. calls = <<>>
    BY DEF IInv, ControlInv
  <2> QED BY <2>1 DEF IInv, MineInv, Known, Own
<1> QED BY <1>1, <1>2, <1>3, PTL DEF Spec

-----------------------------------------------------------------------------
(* A call touches what is the resource's.  Its handler names what was in   *)
(* the state or what it has just made; what it has made, nobody had.       *)

Touching == {"set", "move", "remove", "drop"}

\* When c has been made, the object under k is the resource's, or nobody's.
Grounds(c, k) ==
  /\ c.key = k
  /\ \/ c.op \in {"add", "add_named"}
     \/ kind = "subnet" /\ c.op = "check" /\ "space" \in DOMAIN c.val /\ c.val.space = "alpha"

\* A handler's calls touch what is in own, or what one of them gave grounds for.
TouchesOwn(cs, own) ==
  \A i \in DOMAIN cs : cs[i].op \in Touching =>
    cs[i].key \in own \/ \E j \in 1..(i - 1) : Grounds(cs[j], cs[i].key)

\* What is left of such calls, once what was held under own has been found ours.
SafeAt(k, at, ours) == k \in Keys /\ Held(at[k]) => k \in ours
SafeCalls(cs, at, ours) ==
  \A i \in DOMAIN cs : cs[i].op \in Touching =>
    SafeAt(cs[i].key, at, ours) \/ \E j \in 1..(i - 1) : Grounds(cs[j], cs[i].key)

SafeInv ==
  kind \notin Replacing /\ Alone =>
    /\ pc \in {"create", "update", "delete"} /\ calls = <<>> => \A k \in Own : SafeAt(k, there, mine)
    /\ SafeCalls(calls, there, mine)

-----------------------------------------------------------------------------
(* The calls of every handler, of every kind.                              *)

LEMMA FirstOf ==
  ASSUME NEW S, NEW s \in Seq(S), NEW e \in Seq(S), Len(s) >= 1
  PROVE  s \o e \in Seq(S) /\ Len(s \o e) >= 1 /\ (s \o e)[1] = s[1]
BY ConcatProperties

LEMMA MakesFirst ==
  ASSUME kind \in AllKinds \ {"credential", "offer", "subnet"}, NEW w
  PROVE  Create(w)[1].op \in {"add", "add_named"}
<1>1. CASE kind = "user"
  BY <1>1 DEF Create, UserCreate, CreateUser, add, Call
<1>2. CASE kind \in {"group", "role"}
  BY <1>2 DEF Create, GroupCreate, AddGroup, RoleCreate, AddRole, addNamed, Call
<1>3. CASE kind = "jaas_controller"
  BY <1>3 DEF Create, JAASControllerCreate, AddController, add, Call
<1>4. CASE kind = "cloud"
  BY <1>4 DEF Create, CloudCreate, AddCloud, add, Call
<1>5. CASE kind = "kubernetes_cloud"
  <2> DEFINE c == add(w.name, [KubernetesCloudOf(w) EXCEPT !.credential = None])
             d == set(w.name, [credential |-> w.config])
             e == returns(StateOf(w.name, w))
  <2>1. c.op = "add"
    BY DEF add, Call
  <2>2. Create(w) = <<c, d>> \o <<e>>
    BY <1>5 DEF Create, KubernetesCloudCreate, CreateKubernetesCloud
  <2> HIDE DEF c, d, e
  <2>3. Create(w) = <<c, d, e>>
    BY <2>2, Tuples
  <2> QED BY <2>1, <2>3
<1>6. CASE kind = "secret_backend"
  BY <1>6 DEF Create, SecretBackendCreate, CreateSecretBackend, add, Call
<1>7. CASE kind = "space"
  BY <1>7 DEF Create, SpaceCreate, CreateSpace, add, Call
<1>8. CASE kind = "secret"
  BY <1>8 DEF Create, SecretCreate, CreateSecret, add, addNamed, Call
<1>9. CASE kind = "storage_pool"
  BY <1>9 DEF Create, StoragePoolCreate, CreatePool, add, Call
<1>10. CASE kind = "ssh_key"
  BY <1>10 DEF Create, SSHKeyCreate, CreateSSHKey, add, Call
<1>11. CASE kind = "machine"
  <2> DEFINE key == FreshID(there)
             state == StateOf(newMachineID(key, w.name), w)
             c == CreateMachine(key, w)
             d == saves(state)
             notes == updateAnnotations(key, None, w.annotations)
             e == SetAnnotations(key, w.annotations)
             f == waitForMachine(key)
             g == returns(state)
             S == {c, d, e, f, g}
  <2>1. c.op = "add"
    BY DEF CreateMachine, add, Call
  <2>2. Create(w) = (<<c, d>> \o notes) \o <<f, g>>
    BY <1>11 DEF Create, MachineCreate
  <2>3. notes = <<>> \/ notes = <<e>>
    BY DEF updateAnnotations
  <2> HIDE DEF c, d, e, f, g, notes, key, state
  <2>4. <<c, d>> \in Seq(S) /\ notes \in Seq(S) /\ <<f, g>> \in Seq(S) /\ Len(<<c, d>>) >= 1 /\ <<c, d>>[1] = c
    <3>1. <<>> \in Seq(S) /\ <<e>> \in Seq(S) /\ <<c, d>> \in Seq(S) /\ <<f, g>> \in Seq(S)
      OBVIOUS
    <3>2. Len(<<c, d>>) >= 1 /\ <<c, d>>[1] = c
      OBVIOUS
    <3> HIDE DEF S
    <3> QED BY <2>3, <3>1, <3>2
  <2> HIDE DEF S
  <2>5. (<<c, d>> \o notes) \in Seq(S) /\ (<<c, d>> \o notes)[1] = c /\ Len(<<c, d>> \o notes) >= 1
    BY <2>4, FirstOf
  <2> QED BY <2>1, <2>2, <2>4, <2>5, FirstOf
<1>12. CASE kind = "model"
  <2> DEFINE key == FreshID(there)
             state == [StateOf(key, w) EXCEPT !.agent = 2, !.credential = credentialOf(w)]
             c == AddModel(key, w)
             d == SetModelConstraints(key, w.constraints)
             e == SetAnnotations(key, w.annotations)
             f == soft(SetModelSecretBackend(key, w.backend), [state EXCEPT !.backend = None])
             g == soft(see(key, [name |-> w.name]), [state EXCEPT !.agent = None])
             h == returns(state)
             S == {c, d, e, f, g, h}
             more == IF w.constraints = None THEN <<>> ELSE <<d>>
             make == CreateModel(key, w)
             notes == updateAnnotations(key, None, w.annotations)
             backend == IF w.backend = None THEN <<>> ELSE <<f>>
  <2>1. c.op = "add_named"
    BY DEF AddModel, addNamed, Call
  <2>2. Create(w) = ((make \o notes) \o backend) \o <<g, h>>
    BY <1>12 DEF Create, ModelCreate
  <2>3. notes = <<>> \/ notes = <<e>>
    BY DEF updateAnnotations
  <2>4. make = <<c>> \o more
    BY DEF CreateModel
  <2> HIDE DEF c, d, e, f, g, h, make, notes, key, state
  <2>5. /\ <<c>> \in Seq(S) /\ Len(<<c>>) >= 1 /\ <<c>>[1] = c
        /\ more \in Seq(S) /\ notes \in Seq(S) /\ backend \in Seq(S) /\ <<g, h>> \in Seq(S)
    <3>1. /\ <<>> \in Seq(S) /\ <<c>> \in Seq(S) /\ <<d>> \in Seq(S) /\ <<e>> \in Seq(S) /\ <<f>> \in Seq(S)
          /\ <<g, h>> \in Seq(S)
      OBVIOUS
    <3>2. Len(<<c>>) >= 1 /\ <<c>>[1] = c
      OBVIOUS
    <3> HIDE DEF S
    <3> QED BY <2>3, <3>1, <3>2
  <2> HIDE DEF S, more, backend
  <2>6. make \in Seq(S) /\ Len(make) >= 1 /\ make[1] = c
    BY <2>4, <2>5, FirstOf
  <2> DEFINE two == make \o notes
             three == two \o backend
  <2>7. two \in Seq(S) /\ Len(two) >= 1 /\ two[1] = c
    BY <2>5, <2>6, FirstOf
  <2> HIDE DEF two
  <2>8. three \in Seq(S) /\ Len(three) >= 1 /\ three[1] = c
    BY <2>5, <2>7, FirstOf
  <2> HIDE DEF three
  <2>9. (three \o <<g, h>>)[1] = c
    BY <2>5, <2>8, FirstOf
  <2> QED BY <2>1, <2>2, <2>9 DEF three, two
<1>13. CASE kind = "controller"
  BY <1>13 DEF Create, ControllerCreate, Bootstrap, add, Call
<1>14. CASE kind = "application"
  BY <1>14 DEF Create, AppCreate, CreateApplication, add, Call
<1> QED BY <1>1, <1>2, <1>3, <1>4, <1>5, <1>6, <1>7, <1>8, <1>9, <1>10, <1>11, <1>12, <1>13, <1>14 DEF AllKinds

LEMMA CreatesOwn ==
  ASSUME kind \in AllKinds \ Replacing, CreateKeeps, NEW w \in Configs
  PROVE  TouchesOwn(Create(w), {})
<1> DEFINE cs == Create(w)
<1>1. WorkCalls(cs, {}) /\ Final(cs)
  BY DEF CreateKeeps, WorkCalls
<1>2. CASE kind = "subnet"
  <2> DEFINE b == check(w.name, [space |-> "alpha"])
             c == MoveSubnetToSpace(w.name, w.space)
             d == see(w.name, [space |-> w.space])
             e == returns(StateOf(w.name, w))
  <2>1. /\ Grounds(b, w.name) /\ b.op = "check" /\ c.op = "set" /\ c.key = w.name
        /\ d.op = "see" /\ e.op = "returns"
    BY <1>2 DEF Grounds, check, see, returns, MoveSubnetToSpace, set, Call
  <2>2. cs = (<<b>> \o <<c, d>>) \o <<e>>
    BY <1>2 DEF Create, SubnetCreate, MovedTo
  <2> HIDE DEF b, c, d, e
  <2>3. <<b>> \o <<c, d>> = <<b, c, d>>
    BY Tuples, Zenon
  <2>4. <<b, c, d>> \o <<e>> = <<b, c, d, e>>
    BY LongerTuples, Zenon
  <2>5. cs = <<b, c, d, e>>
    BY <2>2, <2>3, <2>4
  <2> HIDE DEF cs
  <2> QED BY <2>1, <2>5 DEF TouchesOwn, Touching, cs
<1>3. CASE kind # "subnet"
  <2>1. cs[1].op \in {"add", "add_named"} /\ 1 \in DOMAIN cs
    BY <1>1, <1>3, MakesFirst DEF Final, Replacing
  <2> HIDE DEF cs
  <2>2. ASSUME NEW i \in DOMAIN cs PROVE WorkCall(cs[i], {}, Ends(cs))
    BY <1>1 DEF WorkCalls
  <2>3. cs[1].key \in Ends(cs)
    BY <2>1, <2>2 DEF WorkCall, Within, Changing
  <2>4. \A k, l \in Ends(cs) : k = l
    BY <1>3 DEF Ends, KeysOf, Replacing
  <2>5. ASSUME NEW i \in DOMAIN cs, cs[i].op \in Touching
        PROVE  \E j \in 1..(i - 1) : Grounds(cs[j], cs[i].key)
    <3>1. cs[i].key \in Ends(cs)
      BY <2>2, <2>5 DEF WorkCall, Within, Changing, Touching, Removing
    <3>2. i # 1
      BY <2>1, <2>5 DEF Touching
    <3>3. 1 \in 1..(i - 1)
      BY <1>1, <2>5, <3>2 DEF Final
    <3> QED BY <2>1, <2>3, <2>4, <3>1, <3>3 DEF Grounds
  <2> QED BY <2>5 DEF TouchesOwn, cs
<1> QED BY <1>2, <1>3

LEMMA UpdatesOwn ==
  ASSUME kind \in AllKinds \ Replacing, NEW s, NEW w,
         WorkCalls(Update(s, w), KeysOf(s)), kind \notin Moving => Stays(Update(s, w), KeysOf(s))
  PROVE  TouchesOwn(Update(s, w), KeysOf(s))
<1> DEFINE cs == Update(s, w)
           own == KeysOf(s)
<1>1. ASSUME NEW i \in DOMAIN cs PROVE WorkCall(cs[i], own, Ends(cs))
  BY DEF WorkCalls
<1>2. CASE kind \notin Moving
  <2>1. Ends(cs) \subseteq own
    BY <1>2 DEF Stays
  <2> HIDE DEF cs, own
  <2> QED BY <1>1, <2>1 DEF TouchesOwn, WorkCall, Within, Changing, Touching, Removing, cs, own
<1>3. CASE kind = "secret_backend"
  <2> DEFINE c == UpdateSecretBackend(s.name, [x \in {"name"} \cup (IF w.interval # None THEN {"interval"} ELSE {})
                         \cup (IF w.version # s.version THEN {"content"} ELSE {}) |-> SecretBackendOf(w)[x]])
             d == returns(StateOf(w.name, w))
  <2>1. c.op = "move" /\ c.key = s.name /\ d.op = "returns" /\ own = {s.name}
    BY <1>3 DEF UpdateSecretBackend, move, returns, Call, KeysOf
  <2>2. cs = <<c, d>>
    BY <1>3 DEF Update, SecretBackendUpdate
  <2> HIDE DEF c, d, cs
  <2> QED BY <2>1, <2>2 DEF TouchesOwn, Touching, cs
<1> QED BY <1>2, <1>3 DEF Moving, Replacing

LEMMA DeletesOwn ==
  ASSUME kind \notin Replacing, NEW cs, NEW own, DeleteCalls(cs, own)
  PROVE  TouchesOwn(cs, own)
BY DEF TouchesOwn, DeleteCalls, DeleteCall, Within, Changing, Touching

-----------------------------------------------------------------------------
(* Every action keeps SafeInv.                                             *)

LEMMA SafeNext ==
  ASSUME kind' = kind, setting' = setting,
         kind \notin Replacing /\ Alone' =>
           /\ pc' \in {"create", "update", "delete"} /\ calls' = <<>> =>
                \A k \in Stated(tfstate') : SafeAt(k, there', mine')
           /\ SafeCalls(calls', there', mine')
  PROVE  SafeInv'
<1>1. Own' = Stated(tfstate')
  BY SameKind
<1>2. (\A k \in Stated(tfstate') : SafeAt(k, there', mine')) => (\A k \in Own : SafeAt(k, there, mine))'
  BY <1>1 DEF SafeAt, Held, Keys, IDs
<1>3. SafeCalls(calls', there', mine') => SafeCalls(calls, there, mine)'
  BY DEF SafeCalls, SafeAt, Held, Keys, IDs, Touching, Grounds
<1> QED BY <1>2, <1>3 DEF SafeInv, Replacing

LEMMA NoCallsAreSafe ==
  ASSUME NEW at, NEW ours
  PROVE  SafeCalls(<<>>, at, ours) /\ SafeCalls(<<fails>>, at, ours)
         /\ \A v : SafeCalls(<<returns(v)>>, at, ours)
<1>1. \A c : c.op \notin Touching => SafeCalls(<<c>>, at, ours)
  BY DEF SafeCalls
<1>2. fails.op \notin Touching /\ \A v : returns(v).op \notin Touching
  BY DEF Touching, fails, returns, Call
<1>3. SafeCalls(<<>>, at, ours)
  BY DEF SafeCalls
<1> QED BY <1>1, <1>2, <1>3

LEMMA SafeMade ==
  ASSUME NEW c, NEW k, Made(c), SafeAt(k, there, mine)
  PROVE  SafeAt(k, there', mine')
BY DEF SafeAt, Made, HeldOf, Changed

LEMMA GroundsMade ==
  ASSUME NEW c, NEW k, DOMAIN there = Keys, Made(c), ~Refuses(c, there), Grounds(c, k)
  PROVE  SafeAt(k, there', mine')
<1>1. Target(c, there) = k
  BY DEF Grounds, Target
<1>2. CASE c.op \in {"add", "add_named"}
  <2>1. there[k] = None
    BY <1>1, <1>2 DEF Refuses
  <2> QED BY <2>1, SafeMade DEF SafeAt, Held
<1>3. CASE kind = "subnet" /\ c.op = "check" /\ "space" \in DOMAIN c.val /\ c.val.space = "alpha"
  <2>1. there[k].space = "alpha"
    BY <1>1, <1>3 DEF Refuses, Has
  <2> QED BY <1>3, <2>1, SafeMade DEF SafeAt, Held
<1> QED BY <1>2, <1>3 DEF Grounds

LEMMA StepsAreSafe ==
  ASSUME IInv, SafeInv, Step
  PROVE  SafeInv'
<1> DEFINE c == Head(calls)
<1>1. /\ calls # <<>> /\ c.op # "returns" /\ ~Refuses(c, there) /\ Made(c)
      /\ calls' = Tail(calls) /\ pc' = pc /\ kind' = kind /\ setting' = setting /\ touched' = touched
  BY DEF Step
<1>2. Final(calls) /\ c = calls[1] /\ DOMAIN there = Keys
  BY <1>1, Running DEF IInv, ThereInv
<1>3. c.op \notin {"returns", "fails"}
  BY <1>1 DEF Refuses
<1>4. /\ Len(calls) \in Nat /\ calls' # <<>>
      /\ DOMAIN calls = 1..Len(calls) /\ DOMAIN calls' = 1..(Len(calls) - 1)
      /\ \A i \in 1..(Len(calls) - 1) : calls'[i] = calls[i + 1]
  BY <1>1, <1>2, <1>3, GoesOn DEF Final
<1> HIDE DEF c
<1>5. ASSUME SafeCalls(calls, there, mine)
      PROVE  SafeCalls(calls', there', mine')
  <2> SUFFICES ASSUME NEW i \in DOMAIN calls', calls'[i].op \in Touching
               PROVE  SafeAt(calls'[i].key, there', mine') \/ \E j \in 1..(i - 1) : Grounds(calls'[j], calls'[i].key)
    BY DEF SafeCalls
  <2>1. i \in 1..(Len(calls) - 1) /\ i + 1 \in DOMAIN calls /\ calls'[i] = calls[i + 1] /\ (i + 1) - 1 = i
    BY <1>4
  <2>2. \/ SafeAt(calls'[i].key, there, mine)
        \/ \E j \in 1..i : Grounds(calls[j], calls'[i].key)
    BY <1>5, <2>1 DEF SafeCalls
  <2>3. CASE SafeAt(calls'[i].key, there, mine)
    BY <1>1, <2>3, SafeMade
  <2>4. CASE \E j \in 1..i : Grounds(calls[j], calls'[i].key)
    <3>1. PICK j \in 1..i : Grounds(calls[j], calls'[i].key)
      BY <2>4
    <3>2. CASE j = 1
      BY <1>1, <1>2, <3>1, <3>2, GroundsMade
    <3>3. CASE j # 1
      <4>1. j - 1 \in 1..(i - 1) /\ j - 1 \in 1..(Len(calls) - 1) /\ (j - 1) + 1 = j
        BY <2>1, <3>3
      <4>2. calls'[j - 1] = calls[j]
        BY <4>1, <1>4
      <4> QED BY <4>1, <4>2, <3>1
    <3> QED BY <3>2, <3>3
  <2> QED BY <2>2, <2>3, <2>4
<1>6. Alone' => Alone
  BY <1>1 DEF Alone
<1> QED BY <1>1, <1>4, <1>5, <1>6, SafeNext DEF SafeInv

LEMMA BeginsSafely ==
  ASSUME IInv, SafeInv, Begin, CreateKeeps, UpdateKeeps, DeleteKeeps
  PROVE  SafeInv'
<1>1. /\ calls = <<>> /\ pc \in {"create", "update", "delete"}
      /\ calls' = IF PlanRefused THEN <<fails>>
                  ELSE CASE pc = "create" -> Create(wanted)
                         [] pc = "update" -> Update(tfstate, Plan(tfstate, wanted))
                         [] pc = "delete" -> Delete(tfstate)
      /\ touched' = IF pc = "create" THEN touched \ {"unseen"} ELSE touched
      /\ UNCHANGED <<wanted, tfstate, pc, kind, setting, there, dying, mine, excused>>
  BY DEF Begin
<1>2. ControlInv /\ kind \in AllKinds
  BY DEF IInv, ControlInv
<1>3. CASE PlanRefused
  BY <1>1, <1>3, NoCallsAreSafe, SafeNext
<1>4. CASE ~PlanRefused
  <2> SUFFICES ASSUME kind \notin Replacing, Alone'
               PROVE  calls' # <<>> /\ SafeCalls(calls', there', mine')
    BY <1>1, SafeNext
  <2>1. CASE pc = "create"
    <3>1. TouchesOwn(calls', {}) /\ WorkCalls(calls', {})
      BY <1>1, <1>2, <1>4, <2>1, CreatesOwn DEF ControlInv, CreateKeeps
    <3> QED BY <3>1 DEF TouchesOwn, SafeCalls, WorkCalls, Final
  <2>2. CASE pc = "update"
    <3>1. IsState(tfstate) /\ Own = KeysOf(tfstate) /\ calls' = Update(tfstate, Plan(tfstate, wanted))
      BY <1>1, <1>2, <1>4, <2>2 DEF ControlInv, Own, Stated
    <3>2. kind \notin {"ssh_key", "model"} =>
            Plan(tfstate, wanted) \in Configs /\ ~Replaced(tfstate, Plan(tfstate, wanted))
      <4>1. kind \notin {"ssh_key", "model"} => Plan(tfstate, wanted) = wanted
        BY DEF Plan
      <4> QED BY <4>1, <2>2, <1>1, <1>2 DEF ControlInv
    <3>3. /\ WorkCalls(calls', Own)
          /\ kind \notin Moving => Stays(calls', Own)
      BY <3>1, <3>2, Zenon DEF UpdateKeeps
    <3>4. TouchesOwn(calls', Own) /\ calls' # <<>>
      BY <1>2, <3>1, <3>3, UpdatesOwn DEF WorkCalls, Final
    <3>5. \A k \in Own : SafeAt(k, there, mine)
      BY <1>1, <2>2 DEF SafeInv, Alone
    <3> QED BY <1>1, <3>4, <3>5 DEF TouchesOwn, SafeCalls
  <2>3. CASE pc = "delete"
    <3>1. IsState(tfstate) /\ Own = KeysOf(tfstate) /\ calls' = Delete(tfstate)
      BY <1>1, <1>2, <1>4, <2>3 DEF ControlInv, Own, Stated
    <3>2. DeleteCalls(calls', Own)
      BY <3>1 DEF DeleteKeeps
    <3>3. TouchesOwn(calls', Own) /\ calls' # <<>>
      BY <3>2, DeletesOwn DEF DeleteCalls, Final
    <3>4. \A k \in Own : SafeAt(k, there, mine)
      BY <1>1, <2>3 DEF SafeInv, Alone
    <3> QED BY <1>1, <3>3, <3>4 DEF TouchesOwn, SafeCalls
  <2> QED BY <1>1, <2>1, <2>2, <2>3
<1> QED BY <1>3, <1>4

LEMMA OthersAreSafe ==
  ASSUME IInv, SafeInv,
         \/ Refused \/ CallFails \/ AnswerLost \/ Returned \/ Deleted \/ Read \/ ReadFails
         \/ Vanish \/ OutsideChange \/ Import \/ EditConfig \/ Start \/ UNCHANGED vars
  PROVE  SafeInv'
<1>1. CASE Refused \/ CallFails \/ AnswerLost
  <2>1. /\ kind' = kind /\ setting' = setting
        /\ \/ calls' = <<returns(Head(calls).soft[1])>>
           \/ calls' = <<>> /\ pc' = "idle"
    BY <1>1 DEF Refused, CallFails, AnswerLost, Fails, Errored
  <2>2. CASE calls' = <<returns(Head(calls).soft[1])>>
    BY <2>1, <2>2, SafeNext, NoCallsAreSafe
  <2>3. CASE calls' = <<>> /\ pc' = "idle"
    BY <2>1, <2>3, SafeNext, NoCallsAreSafe
  <2> QED BY <2>1, <2>2, <2>3
<1>2. CASE Returned \/ Deleted
  <2>1. /\ kind' = kind /\ setting' = setting /\ calls' = <<>>
        /\ pc' = "idle" \/ tfstate' = None
    BY <1>2 DEF Returned, Deleted, Destroyed
  <2> QED BY <2>1, SafeNext, NoCallsAreSafe DEF Stated
<1>3. CASE Read
  <2>1. PICK state \in ReadOf(tfstate) :
          /\ tfstate' = state
          /\ mine' = IF state = None THEN mine ELSE HeldOf(mine \cup KeysOf(state), there)
    BY <1>3 DEF Read, Refreshed
  <2>2. kind' = kind /\ setting' = setting /\ calls' = calls /\ there' = there /\ calls = <<>>
    BY <1>3 DEF Read, Refreshed, IInv, ControlInv
  <2>3. \A k \in Stated(tfstate') : SafeAt(k, there', mine')
    BY <2>1, <2>2 DEF Stated, SafeAt, HeldOf
  <2> QED BY <2>2, <2>3, SafeNext, NoCallsAreSafe
<1>4. CASE ReadFails \/ EditConfig \/ Import \/ Start
  <2>1. /\ kind' = kind /\ setting' = setting /\ calls' = calls /\ calls = <<>>
        /\ pc' \in {"idle", "read"} \/ tfstate' = None
    BY <1>4 DEF ReadFails, Errored, EditConfig, Edit, Import, Start, BeginApply, IInv, ControlInv
  <2> QED BY <2>1, SafeNext, NoCallsAreSafe DEF Stated
<1>5. CASE Vanish \/ OutsideChange
  <2>1. /\ kind' = kind /\ setting' = setting /\ calls' = calls /\ pc' = pc
        /\ pc = "idle" \/ "now" \in touched'
    BY <1>5 DEF Vanish, OutsideChange
  <2>2. CASE pc = "idle"
    <3>1. calls = <<>>
      BY <2>2 DEF IInv, ControlInv
    <3> QED BY <2>1, <2>2, <3>1, SafeNext, NoCallsAreSafe
  <2>3. CASE "now" \in touched'
    <3>1. ~Alone'
      BY <2>3 DEF Alone
    <3> QED BY <2>1, <3>1, SafeNext
  <2> QED BY <2>1, <2>2, <2>3
<1>6. CASE UNCHANGED vars
  <2>1. /\ kind' = kind /\ setting' = setting /\ calls' = calls /\ pc' = pc /\ tfstate' = tfstate /\ there' = there
        /\ mine' = mine /\ (Alone' <=> Alone)
    BY <1>6 DEF vars, Alone
  <2>2. Own = Stated(tfstate')
    BY <2>1 DEF Own
  <2> QED BY <2>1, <2>2, SafeNext DEF SafeInv
<1> QED BY <1>1, <1>2, <1>3, <1>4, <1>5, <1>6

-----------------------------------------------------------------------------
(* Groups and roles are changed by name: a name is one object's, and it is *)
(* the resource's until a change from outside comes between.               *)

\* A state of a group or role, and the calls of its handlers for state s.
IsNamed(s) == "name" \in DOMAIN s /\ s.id \in Keys
NamedCall(c, i, s) ==
  /\ c.op \in {"add_named", "rename_named", "remove_named", "returns", "fails"}
  /\ c.op \in Naming => i = 1 /\ s # None /\ c.key = s.name
  /\ c.op = "add_named" => "name" \in DOMAIN c.val
  /\ c.op = "returns" => c.val = None \/ IsNamed(c.val)
  /\ c.soft = <<>>
NamedCalls(cs, s) == \A i \in DOMAIN cs : NamedCall(cs[i], i, s)

NamesAt(at) ==
  \A k \in Keys : at[k] # None =>
    /\ "name" \in DOMAIN at[k]
    /\ \A j \in Keys : at[j] # None /\ at[j].name = at[k].name => j = k
IsAt(s, at, ours) == at[s.id] # None /\ at[s.id].name = s.name /\ s.id \in ours

\* A handler has made no call yet, or the next one is by a name.
Fresh == pc \in {"create", "update", "delete"} /\ (calls = <<>> \/ calls[1].op \in Naming)

NamedInv ==
  kind \in NamedKinds =>
    /\ NamesAt(there)
    /\ tfstate # None => IsNamed(tfstate)
    /\ NamedCalls(calls, tfstate)
    /\ Alone /\ Fresh /\ tfstate # None => IsAt(tfstate, there, mine)

LEMMA NamedNext ==
  ASSUME kind' = kind,
         kind \in NamedKinds =>
           /\ NamesAt(there')
           /\ tfstate' # None => IsNamed(tfstate')
           /\ NamedCalls(calls', tfstate')
           /\ Alone' /\ Fresh' /\ tfstate' # None => IsAt(tfstate', there', mine')
  PROVE  NamedInv'
<1>1. NamesAt(there') => NamesAt(there)'
  BY DEF NamesAt, Keys, IDs
<1>2. IsNamed(tfstate') => IsNamed(tfstate)'
  BY DEF IsNamed, Keys, IDs
<1>3. NamedCalls(calls', tfstate') => NamedCalls(calls, tfstate)'
  BY DEF NamedCalls, NamedCall, IsNamed, Naming, Keys, IDs
<1>4. IsAt(tfstate', there', mine') => IsAt(tfstate, there, mine)'
  BY DEF IsAt
<1> QED BY <1>1, <1>2, <1>3, <1>4 DEF NamedInv, NamedKinds

LEMMA NamedTuples ==
  ASSUME NEW s
  PROVE  /\ NamedCalls(<<>>, s)
         /\ \A c : NamedCall(c, 1, s) => NamedCalls(<<c>>, s)
         /\ \A c, d : NamedCall(c, 1, s) /\ NamedCall(d, 2, s) => NamedCalls(<<c, d>>, s)
BY DEF NamedCalls

LEMMA NamedHandlers ==
  ASSUME kind \in NamedKinds, NEW w \in Configs
  PROVE  /\ NamedCalls(Create(w), None)
         /\ \A s : IsNamed(s) /\ s # None => NamedCalls(Update(s, w), s)
<1> DEFINE id == FreshID(there)
           made == StateOf(id, w)
<1>1. w \in [name : Names]
  BY DEF Configs, GroupConfigs, NamedKinds
<1>2. id \in Keys
  <2>1. \E k \in IDs : there[k] = None \/ \A j \in IDs : there[j] # None
    BY DEF IDs
  <2> QED BY <2>1 DEF FreshID, Keys
<1>3. IsNamed(made)
  BY <1>1, <1>2 DEF IsNamed, StateOf
<1> HIDE DEF id, made
<1>4. NamedCall(returns(made), 2, None) /\ NamedCall(addNamed(id, [name |-> w.name]), 1, None)
  BY <1>3 DEF NamedCall, Naming, returns, addNamed, Call
<1>5. Create(w) = <<addNamed(id, [name |-> w.name]), returns(made)>>
  BY DEF Create, GroupCreate, RoleCreate, AddGroup, AddRole, NamedKinds, id, made
<1>6. ASSUME NEW s, IsNamed(s), s # None
      PROVE  NamedCalls(Update(s, w), s)
  <2> DEFINE new == [s EXCEPT !.name = w.name]
  <2>1. IsNamed(new)
    BY <1>6 DEF IsNamed
  <2> HIDE DEF new
  <2>2. NamedCall(returns(new), 2, s) /\ NamedCall(renameNamed(s.name, w.name), 1, s)
    BY <1>6, <2>1 DEF NamedCall, Naming, returns, renameNamed, Call
  <2>3. Update(s, w) = <<renameNamed(s.name, w.name), returns(new)>>
    BY DEF Update, GroupUpdate, RoleUpdate, RenameGroup, RenameRole, NamedKinds, new
  <2> QED BY <2>2, <2>3, NamedTuples
<1> QED BY <1>4, <1>5, <1>6, NamedTuples

LEMMA NamedDeletes ==
  ASSUME kind \in NamedKinds, NEW s, s # None
  PROVE  NamedCalls(Delete(s), s)
<1>1. NamedCall(returns(None), 2, s) /\ NamedCall(removeNamed(s.name), 1, s)
  BY DEF NamedCall, Naming, returns, removeNamed, Call
<1>2. Delete(s) = <<removeNamed(s.name), returns(None)>>
  BY DEF Delete, GroupDelete, RoleDelete, RemoveGroup, RemoveRole, NamedKinds
<1> QED BY <1>1, <1>2, NamedTuples

\* What such a call leaves has names of its own.
LEMMA NamedMade ==
  ASSUME ThereInv, NEW c, NEW i, NEW s, NamedCall(c, i, s), NamesAt(there), ~Refuses(c, there), Made(c)
  PROVE  NamesAt(there')
<1>1. there' = After(c, there) /\ DOMAIN there = Keys
  BY DEF Made, ThereInv
<1>2. CASE c.op \in {"returns", "fails"}
  BY <1>1, <1>2, AfterCall DEF Changing, Removing
<1>3. CASE c.op = "add_named"
  <2>1. there' = [there EXCEPT ![c.key] = c.val] /\ HoldersOf(c.val.name, there) = {} /\ "name" \in DOMAIN c.val
    BY <1>1, <1>3 DEF After, Refuses, Target, NamedCall
  <2> QED BY <1>1, <2>1 DEF NamesAt, HoldersOf
<1>4. CASE c.op = "rename_named"
  <2> DEFINE k == Target(c, there)
  <2>1. there' = [there EXCEPT ![k] = [there[k] EXCEPT !.name = c.val]] /\ HoldersOf(c.val, there) = {} /\ k # None
    BY <1>1, <1>4 DEF After, Refuses
  <2>2. k \in HoldersOf(c.key, there)
    BY <1>4, <2>1 DEF Target
  <2>3. k \in Keys /\ there[k] # None
    BY <2>2 DEF HoldersOf
  <2> HIDE DEF k
  <2>4. "name" \in DOMAIN there[k]
    BY <2>3 DEF NamesAt
  <2>5. there'[k].name = c.val /\ "name" \in DOMAIN there'[k] /\ \A j \in Keys : j # k => there'[j] = there[j]
    BY <1>1, <2>1, <2>3, <2>4
  <2>6. \A j \in Keys : there[j] # None => there[j].name # c.val
    BY <2>1 DEF HoldersOf
  <2> QED BY <2>3, <2>5, <2>6 DEF NamesAt
<1>5. CASE c.op = "remove_named"
  <2>1. \A j \in Keys : there'[j] = None \/ there'[j] = there[j]
    BY <1>1, <1>5, AfterCall DEF Reach, Removing
  <2> QED BY <2>1 DEF NamesAt
<1> QED BY <1>2, <1>3, <1>4, <1>5 DEF NamedCall

LEMMA NamedSteps ==
  ASSUME IInv, NamedInv, Step
  PROVE  NamedInv'
<1> DEFINE c == Head(calls)
<1>1. /\ calls # <<>> /\ c.op # "returns" /\ ~Refuses(c, there) /\ Made(c)
      /\ IF c.op = "saves" THEN tfstate' = c.val /\ tainted' = TRUE ELSE tfstate' = tfstate
      /\ calls' = Tail(calls) /\ kind' = kind
  BY DEF Step
<1>2. Final(calls) /\ c = calls[1] /\ 1 \in DOMAIN calls /\ ThereInv
  BY <1>1, Running DEF IInv
<1>3. c.op \notin {"returns", "fails"}
  BY <1>1 DEF Refuses
<1>4. /\ Len(calls) \in Nat /\ calls' # <<>> /\ Len(calls) > 1
      /\ DOMAIN calls = 1..Len(calls) /\ DOMAIN calls' = 1..(Len(calls) - 1)
      /\ \A i \in 1..(Len(calls) - 1) : calls'[i] = calls[i + 1]
  BY <1>1, <1>2, <1>3, GoesOn DEF Final
<1> HIDE DEF c
<1> SUFFICES ASSUME kind \in NamedKinds
             PROVE  /\ NamesAt(there') /\ tfstate' = tfstate /\ NamedCalls(calls', tfstate) /\ ~Fresh'
  BY <1>1, NamedNext DEF NamedInv
<1>5. NamedCalls(calls, tfstate) /\ NamesAt(there)
  BY DEF NamedInv
<1>6. NamedCall(c, 1, tfstate)
  BY <1>2, <1>5 DEF NamedCalls
<1>7. NamesAt(there')
  BY <1>1, <1>2, <1>5, <1>6, NamedMade
<1>8. tfstate' = tfstate
  BY <1>1, <1>6 DEF NamedCall
<1>9. ASSUME NEW i \in DOMAIN calls'
      PROVE  calls'[i].op \notin Naming /\ NamedCall(calls'[i], i, tfstate)
  <2>1. i + 1 \in DOMAIN calls /\ i + 1 # 1 /\ calls'[i] = calls[i + 1]
    BY <1>4
  <2>2. NamedCall(calls'[i], i + 1, tfstate)
    BY <1>5, <2>1 DEF NamedCalls
  <2> QED BY <2>1, <2>2 DEF NamedCall
<1>10. ~Fresh'
  <2>1. 1 \in DOMAIN calls'
    BY <1>4
  <2>2. calls'[1].op \notin Naming
    BY <1>9, <2>1
  <2> QED BY <1>4, <2>2 DEF Fresh, Naming
<1> QED BY <1>7, <1>8, <1>9, <1>10 DEF NamedCalls

LEMMA NamedBegins ==
  ASSUME NoneIsNoState, IInv, NamedInv, Begin
  PROVE  NamedInv'
<1>1. /\ calls = <<>> /\ pc \in {"create", "update", "delete"}
      /\ calls' = IF PlanRefused THEN <<fails>>
                  ELSE CASE pc = "create" -> Create(wanted)
                         [] pc = "update" -> Update(tfstate, Plan(tfstate, wanted))
                         [] pc = "delete" -> Delete(tfstate)
      /\ touched' = IF pc = "create" THEN touched \ {"unseen"} ELSE touched
      /\ UNCHANGED <<wanted, tfstate, pc, kind, setting, there, dying, mine, excused>>
  BY DEF Begin
<1> SUFFICES ASSUME kind \in NamedKinds
             PROVE  /\ NamedCalls(calls', tfstate)
                    /\ Alone' /\ Fresh' /\ tfstate # None => IsAt(tfstate, there, mine)
  BY <1>1, NamedNext DEF NamedInv
<1>2. ~PlanRefused /\ ControlInv
  BY DEF PlanRefused, NamedKinds, IInv
<1>3. CASE pc = "create"
  <2>1. tfstate = None /\ wanted \in Configs /\ calls' = Create(wanted)
    BY <1>1, <1>2, <1>3 DEF ControlInv
  <2> QED BY <2>1, NamedHandlers
<1>4. CASE pc = "update"
  <2>1. tfstate # None /\ wanted \in Configs /\ calls' = Update(tfstate, wanted) /\ IsNamed(tfstate)
    BY <1>1, <1>2, <1>4 DEF ControlInv, Plan, NamedKinds, NamedInv
  <2>2. Alone' => IsAt(tfstate, there, mine)
    BY <1>1, <1>4, <2>1 DEF NamedInv, Alone, Fresh
  <2> QED BY <2>1, <2>2, NamedHandlers
<1>5. CASE pc = "delete"
  <2>1. tfstate # None /\ calls' = Delete(tfstate)
    BY <1>1, <1>2, <1>5 DEF ControlInv
  <2>2. Alone' => IsAt(tfstate, there, mine)
    BY <1>1, <1>5, <2>1 DEF NamedInv, Alone, Fresh
  <2> QED BY <2>1, <2>2, NamedDeletes
<1> QED BY <1>1, <1>3, <1>4, <1>5

LEMMA NamedFails ==
  ASSUME IInv, NamedInv, Refused \/ CallFails \/ AnswerLost
  PROVE  NamedInv'
<1> DEFINE c == Head(calls)
<1>1. /\ kind' = kind /\ tfstate' = tfstate /\ calls # <<>>
      /\ c.soft # <<>> \/ (calls' = <<>> /\ pc' = "idle")
      /\ there' = there \/ (Made(c) /\ ~Refuses(c, there))
  BY DEF Refused, CallFails, AnswerLost, Fails, Errored
<1>2. c = calls[1] /\ 1 \in DOMAIN calls /\ ThereInv
  BY <1>1, Running DEF IInv
<1> HIDE DEF c
<1> SUFFICES ASSUME kind \in NamedKinds
             PROVE  NamesAt(there') /\ NamedCalls(calls', tfstate) /\ ~Fresh'
  BY <1>1, NamedNext DEF NamedInv
<1>3. NamedCall(c, 1, tfstate) /\ NamesAt(there)
  BY <1>2 DEF NamedInv, NamedCalls
<1>4. NamesAt(there')
  BY <1>1, <1>2, <1>3, NamedMade
<1> QED BY <1>1, <1>3, <1>4, NamedTuples DEF NamedCall, Fresh

LEMMA NamedReads ==
  ASSUME NoneIsNoState, IInv, NamedInv, Read
  PROVE  NamedInv'
<1>1. PICK state \in ReadOf(tfstate) :
        /\ tfstate' = state
        /\ mine' = IF state = None THEN mine ELSE HeldOf(mine \cup KeysOf(state), there)
  BY DEF Read, Refreshed
<1>2. kind' = kind /\ calls' = calls /\ there' = there /\ calls = <<>> /\ tfstate # None
  BY DEF Read, Refreshed, IInv, ControlInv
<1> SUFFICES ASSUME kind \in NamedKinds
             PROVE  tfstate' # None => IsNamed(tfstate') /\ IsAt(tfstate', there', mine')
  BY <1>2, NamedNext, NamedTuples DEF NamedInv
<1>3. IsNamed(tfstate)
  BY <1>2 DEF NamedInv
<1>4. there[tfstate.id] # None /\ state = [tfstate EXCEPT !.name = there[tfstate.id].name]
  BY <1>1 DEF ReadOf, GroupRead, RoleRead, ReadGroupByUUID, ReadRoleByUUID, NamedKinds
<1>5. IsNamed(state) /\ state.id = tfstate.id /\ state.name = there[tfstate.id].name
  BY <1>3, <1>4 DEF IsNamed
<1>6. state # None => state.id \in mine'
  <2>1. KeysOf(state) = {state.id}
    BY DEF KeysOf, NamedKinds
  <2> QED BY <1>1, <1>4, <1>5, <2>1 DEF HeldOf, Held, NamedKinds, IsNamed
<1> QED BY <1>1, <1>2, <1>4, <1>5, <1>6 DEF IsAt

LEMMA NamedChanges ==
  ASSUME IInv, NamedInv, Vanish \/ OutsideChange
  PROVE  NamedInv'
<1>1. /\ kind' = kind /\ calls' = calls /\ tfstate' = tfstate /\ pc' = pc
      /\ pc = "idle" \/ "now" \in touched'
  BY DEF Vanish, OutsideChange
<1>2. ~(Alone' /\ Fresh')
  BY <1>1 DEF Alone, Fresh
<1> SUFFICES ASSUME kind \in NamedKinds PROVE NamesAt(there')
  BY <1>1, <1>2, NamedNext DEF NamedInv
<1>3. NamesAt(there) /\ DOMAIN there = Keys
  BY DEF NamedInv, IInv, ThereInv
<1>4. CASE Vanish
  <2>1. PICK k \in dying : there' = [there EXCEPT ![k] = None]
    BY <1>4 DEF Vanish
  <2> QED BY <1>3, <2>1 DEF NamesAt
<1>5. CASE OutsideChange
  <2>1. PICK k \in Keys \ dying, obj \in Objects \cup {None} :
          /\ (obj # None /\ there[k] = None) => Fits(k, obj)
          /\ (obj # None /\ there[k] # None) =>
               \E x \in DOMAIN obj : x = "name" => HoldersOf(obj.name, there) = {}
          /\ there' = [there EXCEPT ![k] = obj]
    BY <1>5 DEF OutsideChange
  <2>2. obj # None => obj \in [name : Names]
    BY <2>1 DEF Objects, Configs, GroupConfigs, NamedKinds
  <2>3. obj # None => HoldersOf(obj.name, there) = {}
    <3>1. CASE obj # None /\ there[k] = None
      BY <2>1, <2>2, <3>1, NamesAssumption DEF Fits, IDKinds, NamedKinds
    <3>2. CASE obj # None /\ there[k] # None
      BY <2>1, <2>2, <3>2
    <3> QED BY <3>1, <3>2
  <2> QED BY <1>3, <2>1, <2>2, <2>3 DEF NamesAt, HoldersOf
<1> QED BY <1>4, <1>5

LEMMA NamedOthers ==
  ASSUME NoneIsNoState, IInv, NamedInv,
         \/ Returned \/ Deleted \/ ReadFails \/ Import \/ EditConfig \/ Start \/ UNCHANGED vars
  PROVE  NamedInv'
<1>1. CASE Returned
  <2>1. /\ calls # <<>> /\ pc \in {"create", "update"} /\ Head(calls).op = "returns" /\ tfstate' = Head(calls).val
        /\ pc' = "idle" /\ calls' = <<>> /\ kind' = kind /\ there' = there
    BY <1>1 DEF Returned
  <2>2. Head(calls) = calls[1] /\ 1 \in DOMAIN calls
    BY <2>1, Running DEF IInv
  <2>3. kind \in NamedKinds => NamedCall(calls[1], 1, tfstate)
    BY <2>2 DEF NamedInv, NamedCalls
  <2>4. kind \in NamedKinds /\ tfstate' # None => IsNamed(tfstate')
    BY <2>1, <2>2, <2>3 DEF NamedCall
  <2> QED BY <2>1, <2>4, NamedNext, NamedTuples DEF NamedInv, Fresh
<1>2. CASE Deleted
  <2>1. tfstate' = None /\ calls' = <<>> /\ kind' = kind /\ there' = there
    BY <1>2 DEF Deleted, Destroyed
  <2> QED BY <2>1, NamedNext, NamedTuples DEF NamedInv
<1>3. CASE ReadFails \/ EditConfig \/ Start
  <2>1. /\ kind' = kind /\ there' = there /\ calls' = calls /\ tfstate' = tfstate /\ mine' = mine
        /\ pc' \in {"idle", "read"} \/ tfstate' = None
    BY <1>3 DEF ReadFails, Errored, EditConfig, Edit, Start, BeginApply
  <2> QED BY <2>1, NamedNext DEF NamedInv, Fresh
<1>4. CASE Import
  <2>1. kind' = kind /\ kind \notin NamedKinds
    BY <1>4 DEF Import, Importable, NamedKinds
  <2> QED BY <2>1, NamedNext
<1>5. CASE UNCHANGED vars
  <2>1. /\ kind' = kind /\ there' = there /\ calls' = calls /\ tfstate' = tfstate /\ mine' = mine
        /\ (Alone' <=> Alone) /\ (Fresh' <=> Fresh)
    BY <1>5 DEF vars, Alone, Fresh, Naming
  <2> QED BY <2>1, NamedNext DEF NamedInv
<1> QED BY <1>1, <1>2, <1>3, <1>4, <1>5

-----------------------------------------------------------------------------
(* The second theorem.                                                     *)

\* A call changes what is the resource's.
LEMMA ChangesOwn ==
  ASSUME IInv, SafeInv, NamedInv, calls # <<>>, Alone, kind \notin Replacing,
         Head(calls).op # "returns", ~Refuses(Head(calls), there), Made(Head(calls))
  PROVE  HeldOf(Changed(there, there'), there) \subseteq mine
<1> DEFINE c == Head(calls)
<1>1. c = calls[1] /\ 1 \in DOMAIN calls /\ DOMAIN there = Keys /\ there' = After(c, there)
  BY Running DEF IInv, ThereInv, Made
<1>2. /\ c.op # "put"
      /\ c.op \in Naming => kind \in NamedKinds
  BY <1>1, Running DEF IInv, WorkInv, DeleteInv, WorkCalls, DeleteCalls, WorkCall, DeleteCall, Naming, Removing
<1>3. c.op \in Touching => SafeAt(c.key, there, mine)
  <2>1. \A j : j \notin 1..(1 - 1)
    OBVIOUS
  <2> QED BY <1>1, <2>1 DEF SafeInv, SafeCalls
<1>4. kind \in NamedKinds => NamedCall(c, 1, tfstate)
  BY <1>1 DEF NamedInv, NamedCalls
<1>5. ~Refuses(c, there)
  OBVIOUS
<1> HIDE DEF c
<1> SUFFICES ASSUME NEW k \in Keys, there[k] # there'[k], Held(there[k]) PROVE k \in mine
  BY DEF HeldOf, Changed
<1>6. there[k] # None
  BY DEF Held
<1>7. k \in Reach(c, there) /\ c.op \in Changing \cup Removing \cup {"rename_named"}
  BY <1>1, AfterCall
<1>8. k \in Reach(c, there) => k = Target(c, there) \/ (c.op = "move" /\ k = c.val.name)
  BY DEF Reach
<1>9. CASE c.op \in {"add", "add_named"}
  <2>1. Target(c, there) = c.key
    BY <1>9 DEF Target
  <2>2. k = c.key
    BY <1>7, <1>9, <1>8, <2>1
  <2>3. there[c.key] = None
    BY <1>9, <1>5, <2>1 DEF Refuses
  <2> QED BY <1>6, <2>2, <2>3
<1>10. CASE c.op \in {"set", "remove", "drop"}
  BY <1>3, <1>7, <1>10 DEF Reach, Target, Touching, SafeAt
<1>11. CASE c.op = "move"
  <2>1. Target(c, there) = c.key
    BY <1>11 DEF Target
  <2>2. k = c.key \/ (k = c.val.name /\ c.val.name # c.key)
    BY <1>7, <1>8, <2>1
  <2>3. k = c.key
    BY <1>6, <1>11, <1>5, <2>1, <2>2 DEF Refuses
  <2> QED BY <1>3, <1>11, <2>3 DEF Touching, SafeAt
<1>12. CASE c.op \in Naming
  <2>1. tfstate # None /\ c.key = tfstate.name /\ kind \in NamedKinds
    BY <1>2, <1>4, <1>12 DEF NamedCall
  <2>2. k \in HoldersOf(tfstate.name, there)
    <3>1. k = Target(c, there)
      BY <1>7, <1>12, <1>8 DEF Naming
    <3>2. Target(c, there) # None
      BY <1>12, <1>5 DEF Refuses, Naming
    <3> DEFINE keys == HoldersOf(c.key, there)
    <3>3. Target(c, there) = IF keys = {} THEN None ELSE CHOOSE j \in keys : TRUE
      BY <1>12 DEF Target, Naming
    <3> HIDE DEF keys
    <3>4. Target(c, there) \in keys
      BY <3>2, <3>3
    <3> QED BY <2>1, <3>1, <3>4 DEF keys
  <2>3. IsNamed(tfstate) /\ NamesAt(there) /\ IsAt(tfstate, there, mine)
    BY <1>1, <1>12, <2>1, Running DEF NamedInv, Fresh, IInv
  <2>4. k = tfstate.id
    BY <2>2, <2>3 DEF HoldersOf, NamesAt, IsAt, IsNamed
  <2> QED BY <2>3, <2>4 DEF IsAt
<1> QED BY <1>2, <1>7, <1>9, <1>10, <1>11, <1>12 DEF Changing, Removing, Naming

TInv == IInv /\ SafeInv /\ NamedInv

\* As long as nobody comes between, no call of Create, Update or Delete of any kind
\* changes an object that the resource has not made, read or imported, and no loss
\* of an answer, failed call or edited configuration leads to one that does.
THEOREM OthersAreUntouched ==
  ASSUME NoneIsNoState
  PROVE  Spec => OthersUntouched
<1>1. Init => TInv
  <2> SUFFICES ASSUME Init PROVE TInv
    OBVIOUS
  <2>1. /\ kind \in Kinds /\ tfstate = None /\ pc = "idle" /\ calls = <<>>
        /\ there = [k \in Keys |-> IF kind = "subnet" /\ k \in Names THEN [name |-> k, space |-> "alpha"] ELSE None]
    BY DEF Init, TerraformInit
  <2>2. SafeInv
    BY <2>1 DEF SafeInv, SafeCalls
  <2>3. NamedInv
    BY <2>1 DEF NamedInv, NamesAt, NamedCalls, NamedKinds
  <2> QED BY <2>2, <2>3, Begun DEF TInv
<1>2. TInv /\ [Next]_vars => TInv'
  <2> SUFFICES ASSUME TInv, [Next]_vars PROVE TInv'
    OBVIOUS
  <2>1. CreateKeeps /\ UpdateKeeps /\ DeleteKeeps /\ ReadKeeps
    BY HandlersKeep DEF TInv, IInv, ControlInv
  <2>2. IInv'
    BY <2>1, Continued DEF TInv
  <2>3. SafeInv'
    BY <2>1, StepsAreSafe, BeginsSafely, OthersAreSafe DEF TInv, Next, ApplyStep
  <2>4. NamedInv'
    BY NamedSteps, NamedBegins, NamedFails, NamedReads, NamedChanges, NamedOthers DEF TInv, Next, ApplyStep
  <2> QED BY <2>2, <2>3, <2>4 DEF TInv
<1>3. TInv /\ [Next]_vars => [(calls' # calls /\ Alone /\ kind \notin {"credential", "offer"})
                              => HeldOf(Changed(there, there'), there) \subseteq mine]_vars
  <2> SUFFICES ASSUME TInv, Next, calls' # calls, Alone, kind \notin {"credential", "offer"}
               PROVE  HeldOf(Changed(there, there'), there) \subseteq mine
    OBVIOUS
  <2>1. CASE Step \/ AnswerLost
    <3>1. /\ calls # <<>> /\ Head(calls).op # "returns" /\ ~Refuses(Head(calls), there) /\ Made(Head(calls))
      BY <2>1 DEF Step, AnswerLost
    <3> QED BY <3>1, ChangesOwn DEF TInv, Replacing
  <2>2. CASE ~(Step \/ AnswerLost)
    <3>1. there' = there
      BY <2>2 DEF Next, ApplyStep, Start, Read, ReadFails, Begin, Refused, CallFails, Returned, Deleted,
                  Vanish, OutsideChange, Import, EditConfig
    <3> QED BY <3>1 DEF HeldOf, Changed
  <2> QED BY <2>1, <2>2
<1> QED BY <1>1, <1>2, <1>3, PTL DEF Spec, OthersUntouched

-----------------------------------------------------------------------------
(* What a handler returns is what was planned, but for named exceptions.   *)

\* A machine's state has its name in its ID too.
Identified(s) ==
  kind = "machine" => /\ {"id", "name", "constraints", "annotations", "hostname"} \subseteq DOMAIN s
                      /\ s.id = newMachineID(s.id[1], s.id[2])
Shaped(s) == Identified(s) /\ (kind = "machine" => s.name = s.id[2])

\* What v may be otherwise than planned in, when the handler returns it.
Excepted(v) == IF kind = "model" THEN pc = "create" /\ v.backend # wanted.backend ELSE PlannedOtherwise
AsPlanned(v) == Shaped(v) /\ (Excepted(v) \/ Consistent(v))

\* Calls of a Create or Update that return, or save, what is planned only.
Quiet(c) == c.op \notin {"returns", "saves"} /\ c.soft = <<>>
PlannedCall(c) ==
  /\ c.op = "saves" => kind = "machine" /\ pc = "create"
  /\ c.op \in {"returns", "saves"} => AsPlanned(c.val)
  /\ c.soft # <<>> => AsPlanned(c.soft[1])
PlannedCalls(cs) == cs \in Seq(ToSet(cs)) /\ \A i \in DOMAIN cs : PlannedCall(cs[i])

PlanInv ==
  /\ tfstate # None => Shaped(tfstate)
  /\ pc = "update" /\ calls = <<>> => ~Replaced(tfstate, Plan(tfstate, wanted))
  /\ pc \in {"create", "update"} => PlannedCalls(calls)

-----------------------------------------------------------------------------
(* What Create and Update of every kind return.                            *)

LEMMA PlannedTuples ==
  /\ PlannedCalls(<<>>)
  /\ \A c : PlannedCall(c) => PlannedCalls(<<c>>)
  /\ \A c, d : PlannedCall(c) /\ PlannedCall(d) => PlannedCalls(<<c, d>>)
  /\ \A c, d, e : PlannedCall(c) /\ PlannedCall(d) /\ PlannedCall(e) => PlannedCalls(<<c, d, e>>)
<1>1. PlannedCalls(<<>>)
  BY DEF PlannedCalls, ToSet
<1>2. ASSUME NEW c, PlannedCall(c) PROVE PlannedCalls(<<c>>)
  <2>1. <<c>> \in Seq({c}) /\ ToSet(<<c>>) = {c}
    BY DEF ToSet
  <2> QED BY <1>2, <2>1 DEF PlannedCalls
<1>3. ASSUME NEW c, NEW d, PlannedCall(c), PlannedCall(d) PROVE PlannedCalls(<<c, d>>)
  <2>1. <<c, d>> \in Seq({c, d}) /\ ToSet(<<c, d>>) = {c, d}
    BY DEF ToSet
  <2> QED BY <1>3, <2>1 DEF PlannedCalls
<1>4. ASSUME NEW c, NEW d, NEW e, PlannedCall(c), PlannedCall(d), PlannedCall(e) PROVE PlannedCalls(<<c, d, e>>)
  <2>1. <<c, d, e>> \in Seq({c, d, e}) /\ ToSet(<<c, d, e>>) = {c, d, e}
    BY DEF ToSet
  <2> QED BY <1>4, <2>1 DEF PlannedCalls
<1> QED BY <1>1, <1>2, <1>3, <1>4

LEMMA PlannedTogether ==
  ASSUME NEW s, NEW t, PlannedCalls(s), PlannedCalls(t)
  PROVE  PlannedCalls(s \o t)
<1> DEFINE S == ToSet(s) \cup ToSet(t)
           cs == s \o t
<1>1. s \in Seq(ToSet(s)) /\ t \in Seq(ToSet(t))
  BY DEF PlannedCalls
<1>2. s \in Seq(S) /\ t \in Seq(S)
  BY <1>1
<1>3. ToSet(s) = {s[i] : i \in DOMAIN s} /\ ToSet(t) = {t[i] : i \in DOMAIN t}
  BY DEF ToSet
<1> HIDE DEF S
<1>4. /\ cs \in Seq(S) /\ Len(cs) = Len(s) + Len(t) /\ Len(s) \in Nat /\ Len(t) \in Nat
      /\ DOMAIN cs = 1..Len(cs) /\ DOMAIN s = 1..Len(s) /\ DOMAIN t = 1..Len(t)
      /\ \A i \in 1..Len(cs) : cs[i] = IF i <= Len(s) THEN s[i] ELSE t[i - Len(s)]
  BY <1>2, ConcatProperties
<1> HIDE DEF cs
<1>5. ASSUME NEW i \in DOMAIN cs PROVE PlannedCall(cs[i])
  <2>1. CASE i <= Len(s)
    BY <1>4, <2>1 DEF PlannedCalls
  <2>2. CASE ~(i <= Len(s))
    <3>1. i - Len(s) \in DOMAIN t
      BY <1>4, <2>2
    <3> QED BY <1>4, <2>2, <3>1 DEF PlannedCalls
  <2> QED BY <2>1, <2>2
<1>6. cs \in Seq(ToSet(cs))
  BY <1>4, ItsOwnCalls
<1> QED BY <1>5, <1>6 DEF PlannedCalls, cs

LEMMA PlannedSingles ==
  /\ \A c : Quiet(c) => PlannedCall(c)
  /\ \A v : AsPlanned(v) => PlannedCall(returns(v))
  /\ \A k, v : /\ Quiet(add(k, v)) /\ Quiet(addNamed(k, v)) /\ Quiet(put(k, v)) /\ Quiet(set(k, v))
               /\ Quiet(move(k, v)) /\ Quiet(renameNamed(k, v)) /\ Quiet(check(k, v)) /\ Quiet(see(k, v))
  /\ Quiet(fails)
<1>1. \A c : Quiet(c) => PlannedCall(c)
  BY DEF Quiet, PlannedCall
<1>2. ASSUME NEW v, AsPlanned(v) PROVE PlannedCall(returns(v))
  BY <1>2 DEF PlannedCall, returns, Call
<1>3. \A op, k, v : op \notin {"returns", "saves"} => Quiet(Call(op, k, v))
  BY DEF Quiet, Call
<1> QED BY <1>1, <1>2, <1>3 DEF add, addNamed, put, set, move, renameNamed, check, see, fails

LEMMA ConfigFields ==
  ASSUME kind \in AllKinds, NEW w \in Configs
  PROVE  "id" \notin DOMAIN w
<1>1. CASE kind \in {"user", "credential", "group", "role"}
  BY <1>1 DEF Configs, UserConfigs, CredentialConfigs, GroupConfigs
<1>2. CASE kind \in {"jaas_controller", "cloud", "kubernetes_cloud", "secret_backend", "offer"}
  BY <1>2 DEF Configs, ControllerConfigsOfJAAS, CloudConfigs, KubernetesCloudConfigs, SecretBackendConfigs, OfferConfigs
<1>3. CASE kind \in {"space", "subnet", "secret", "storage_pool", "ssh_key"}
  BY <1>3 DEF Configs, SpaceConfigs, SubnetConfigs, SecretConfigs, StoragePoolConfigs, SSHKeyConfigs
<1>4. CASE kind \in {"machine", "model", "controller", "application"}
  BY <1>4 DEF Configs, MachineConfigs, ModelConfigs, ControllerConfigs, AppConfigs
<1> QED BY <1>1, <1>2, <1>3, <1>4 DEF AllKinds

LEMMA StateAgrees ==
  ASSUME NEW w, "id" \notin DOMAIN w, NEW id
  PROVE  AgreesWith(StateOf(id, w), w) /\ StateOf(id, w).id = id
BY DEF AgreesWith, StateOf

LEMMA MadeAsPlanned ==
  ASSUME kind \in AllKinds \ {"machine", "model"}, pc = "create", tfstate = None, wanted \in Configs, NEW id
  PROVE  AsPlanned(StateOf(id, wanted))
<1>1. Plan(tfstate, wanted) = wanted
  BY DEF Plan, SSHKeyCommentInsensitive
<1>2. AgreesWith(StateOf(id, wanted), wanted)
  BY ConfigFields, StateAgrees
<1> QED BY <1>1, <1>2 DEF AsPlanned, Shaped, Identified, Consistent

LEMMA ChangedAsPlanned ==
  ASSUME kind \in AllKinds \ {"machine", "model", "ssh_key"}, pc = "update", wanted \in Configs
  PROVE  AsPlanned(StateOf(tfstate.id, wanted))
<1>1. Plan(tfstate, wanted) = wanted
  BY DEF Plan
<1>2. AgreesWith(StateOf(tfstate.id, wanted), wanted) /\ StateOf(tfstate.id, wanted).id = tfstate.id
  BY ConfigFields, StateAgrees
<1> QED BY <1>1, <1>2 DEF AsPlanned, Shaped, Identified, Consistent

\* Two calls, the last of which returns v; and three.
LEMMA PlannedPairs ==
  /\ \A v : AsPlanned(v) => PlannedCalls(<<returns(v)>>)
  /\ \A c, v : Quiet(c) /\ AsPlanned(v) => PlannedCalls(<<c, returns(v)>>)
  /\ \A c, d, v : Quiet(c) /\ Quiet(d) /\ AsPlanned(v) => PlannedCalls(<<c, d, returns(v)>>)
  /\ PlannedCalls(<<fails>>)
  /\ \A c : Quiet(c) => PlannedCalls(<<c>>)
  /\ \A c, d : Quiet(c) /\ Quiet(d) => PlannedCalls(<<c, d>>)
BY PlannedTuples, PlannedSingles

LEMMA CredentialCalls ==
  ASSUME NEW w
  PROVE  PlannedCalls(CreateCredential(w)) /\ UpdateCredential(w) = CreateCredential(w)
<1> DEFINE c == put("client", [name |-> w.name, auth |-> w.auth])
           d == put("controller", [name |-> w.name, auth |-> w.auth])
<1>1. Quiet(c) /\ Quiet(d)
  BY PlannedSingles
<1>2. putClient(w) = <<c>> \/ putClient(w) = <<>>
  BY DEF putClient
<1>3. putController(w) = <<d>> \/ putController(w) = <<>>
  BY DEF putController
<1> HIDE DEF c, d
<1>4. PlannedCalls(putClient(w)) /\ PlannedCalls(putController(w))
  BY <1>1, <1>2, <1>3, PlannedPairs, PlannedTuples
<1>5. PlannedCalls(putClient(w) \o putController(w))
  BY <1>4, PlannedTogether
<1> QED BY <1>5, PlannedPairs DEF CreateCredential, UpdateCredential

LEMMA MovedToIsPlanned ==
  ASSUME NEW name, NEW space
  PROVE  PlannedCalls(MovedTo(name, space))
BY PlannedPairs, PlannedSingles DEF MovedTo, MoveSubnetToSpace

LEMMA NotesArePlanned ==
  ASSUME NEW key, NEW old, NEW new
  PROVE  PlannedCalls(updateAnnotations(key, old, new))
BY PlannedPairs, PlannedTuples, PlannedSingles DEF updateAnnotations, SetAnnotations

LEMMA CreatesAsPlanned ==
  ASSUME kind \in AllKinds, pc = "create", tfstate = None, wanted \in Configs, ~PlanRefused, wanted # None
  PROVE  PlannedCalls(Create(wanted))
<1> DEFINE w == wanted
<1>1. ASSUME NEW id, kind \notin {"machine", "model"}
      PROVE  /\ PlannedCalls(<<returns(StateOf(id, w))>>)
             /\ \A c : Quiet(c) => PlannedCalls(<<c, returns(StateOf(id, w))>>)
             /\ \A c, d : Quiet(c) /\ Quiet(d) => PlannedCalls(<<c, d, returns(StateOf(id, w))>>)
  BY <1>1, MadeAsPlanned, PlannedPairs
<1>2. CASE kind = "user"
  BY <1>1, <1>2, PlannedSingles DEF Create, UserCreate, CreateUser
<1>3. CASE kind = "credential"
  <2>1. PlannedCalls(<<returns(StateOf(newCredentialID(w), w))>>)
    BY <1>1, <1>3
  <2>2. PlannedCalls(CreateCredential(w))
    BY CredentialCalls
  <2> QED BY <1>3, <2>1, <2>2, PlannedTogether DEF Create, CredentialCreate
<1>4. CASE kind = "group"
  BY <1>1, <1>4, PlannedSingles DEF Create, GroupCreate, AddGroup
<1>5. CASE kind = "role"
  BY <1>1, <1>5, PlannedSingles DEF Create, RoleCreate, AddRole
<1>6. CASE kind = "jaas_controller"
  <2> DEFINE state == [StateOf(w.name, w) EXCEPT !.ca = infoOf(w).ca]
  <2>1. w.ca # None => state = StateOf(w.name, w)
    BY <1>6 DEF infoOf, StateOf, Configs, ControllerConfigsOfJAAS
  <2>2. w.ca = None => AsPlanned(state)
    BY <1>6 DEF AsPlanned, Shaped, Identified, Excepted, PlannedOtherwise
  <2>3. AsPlanned(state)
    BY <1>6, <2>1, <2>2, MadeAsPlanned
  <2>4. Create(w) = <<AddController(w), returns(state)>>
    BY <1>6 DEF Create, JAASControllerCreate
  <2> HIDE DEF state
  <2> QED BY <2>3, <2>4, PlannedPairs, PlannedSingles DEF AddController
<1>7. CASE kind = "cloud"
  BY <1>1, <1>7, PlannedSingles DEF Create, CloudCreate, AddCloud
<1>8. CASE kind = "kubernetes_cloud"
  <2>1. PlannedCalls(CreateKubernetesCloud(w))
    BY PlannedPairs, PlannedSingles DEF CreateKubernetesCloud
  <2>2. PlannedCalls(<<returns(StateOf(w.name, w))>>)
    BY <1>1, <1>8
  <2> QED BY <1>8, <2>1, <2>2, PlannedTogether DEF Create, KubernetesCloudCreate
<1>9. CASE kind = "secret_backend"
  BY <1>1, <1>9, PlannedSingles DEF Create, SecretBackendCreate, CreateSecretBackend
<1>10. CASE kind = "offer"
  <2>1. PlannedCalls(CreateOffer(w))
    BY PlannedPairs, PlannedSingles DEF CreateOffer, findCreatedOffer
  <2>2. PlannedCalls(<<returns(StateOf(w.name, w))>>)
    BY <1>1, <1>10
  <2> QED BY <1>10, <2>1, <2>2, PlannedTogether DEF Create, OfferCreate
<1>11. CASE kind = "space"
  BY <1>1, <1>11, PlannedSingles DEF Create, SpaceCreate, CreateSpace
<1>12. CASE kind = "subnet"
  <2>1. PlannedCalls(<<check(w.name, [space |-> "alpha"])>>)
    BY PlannedPairs, PlannedSingles
  <2>2. PlannedCalls(<<returns(StateOf(w.name, w))>>)
    BY <1>1, <1>12
  <2>3. PlannedCalls(<<check(w.name, [space |-> "alpha"])>> \o MovedTo(w.name, w.space))
    BY <2>1, MovedToIsPlanned, PlannedTogether
  <2> QED BY <1>12, <2>2, <2>3, PlannedTogether DEF Create, SubnetCreate
<1>13. CASE kind = "secret"
  BY <1>1, <1>13, PlannedSingles DEF Create, SecretCreate, CreateSecret
<1>14. CASE kind = "storage_pool"
  BY <1>1, <1>14, PlannedSingles DEF Create, StoragePoolCreate, CreatePool
<1>15. CASE kind = "ssh_key"
  BY <1>1, <1>15, PlannedSingles DEF Create, SSHKeyCreate, CreateSSHKey
<1>16. CASE kind = "machine"
  <2> DEFINE key == FreshID(there)
             state == StateOf(newMachineID(key, w.name), w)
  <2>1. AsPlanned(state)
    <3>1. w \in MachineConfigs /\ Plan(tfstate, w) = w
      BY <1>16 DEF Configs, Plan
    <3>2. DOMAIN state = {"id", "name", "constraints", "annotations", "hostname"} /\ state.name = w.name
      BY <3>1 DEF MachineConfigs, StateOf
    <3>3. AgreesWith(state, w) /\ state.id = newMachineID(key, w.name)
      BY <1>16, ConfigFields, StateAgrees
    <3> HIDE DEF key, state
    <3>4. state.id[1] = key /\ state.id[2] = w.name
      BY <3>3 DEF newMachineID
    <3> QED BY <3>1, <3>2, <3>3, <3>4 DEF AsPlanned, Shaped, Identified, Consistent
  <2>2. Create(w) = (<<CreateMachine(key, w), saves(state)>> \o updateAnnotations(key, None, w.annotations))
                      \o <<waitForMachine(key), returns(state)>>
    BY <1>16 DEF Create, MachineCreate
  <2> HIDE DEF key, state
  <2>3. PlannedCall(saves(state))
    BY <1>16, <2>1 DEF PlannedCall, saves, Call
  <2>4. PlannedCalls(<<CreateMachine(key, w), saves(state)>>)
    BY <2>3, PlannedTuples, PlannedSingles DEF CreateMachine
  <2>5. PlannedCalls(<<waitForMachine(key), returns(state)>>)
    BY <2>1, PlannedPairs, PlannedSingles DEF waitForMachine
  <2>6. PlannedCalls(<<CreateMachine(key, w), saves(state)>> \o updateAnnotations(key, None, w.annotations))
    BY <2>4, NotesArePlanned, PlannedTogether
  <2> QED BY <2>2, <2>5, <2>6, PlannedTogether
<1>17. CASE kind = "model"
  <2> DEFINE key == FreshID(there)
             state == [StateOf(key, w) EXCEPT !.agent = 2, !.credential = credentialOf(w)]
             unset == [state EXCEPT !.backend = None]
             unread == [state EXCEPT !.agent = None]
             backend == IF w.backend = None THEN <<>> ELSE <<soft(SetModelSecretBackend(key, w.backend), unset)>>
             last1 == soft(see(key, [name |-> w.name]), unread)
  <2>1. w \in ModelConfigs /\ w.agent = None
    BY <1>17 DEF Configs, PlanRefused, AgentVersionCreateOnly
  <2>2. DOMAIN w = {"name", "config", "constraints", "annotations", "backend", "agent", "credential"}
    BY <2>1 DEF ModelConfigs
  <2>3. DOMAIN Plan(tfstate, w) \subseteq DOMAIN w \ ({"agent"} \cup (IF w.credential = None THEN {"credential"} ELSE {}))
        /\ \A x \in DOMAIN Plan(tfstate, w) : Plan(tfstate, w)[x] = w[x]
    BY <1>17, <2>1, <2>2 DEF Plan, PlannedModel, Without
  <2>4. /\ \A x \in DOMAIN w \ {"agent", "credential"} : state[x] = w[x] /\ unread[x] = w[x]
        /\ w.credential # None => state.credential = w.credential /\ unread.credential = w.credential
        /\ unset.backend = None
    BY <2>2 DEF StateOf, credentialOf
  <2> HIDE DEF state, unset, unread
  <2>5. AsPlanned(state) /\ AsPlanned(unread)
    BY <1>17, <2>2, <2>3, <2>4 DEF AsPlanned, Shaped, Identified, Consistent, AgreesWith
  <2>6. w.backend # None => AsPlanned(unset)
    BY <1>17, <2>4 DEF AsPlanned, Shaped, Identified, Excepted
  <2>7. PlannedCalls(CreateModel(key, w))
    <3>1. PlannedCalls(<<AddModel(key, w)>>) /\ PlannedCalls(<<SetModelConstraints(key, w.constraints)>>)
      BY PlannedPairs, PlannedSingles DEF AddModel, SetModelConstraints
    <3> QED BY <3>1, PlannedTuples, PlannedTogether DEF CreateModel
  <2>8. PlannedCalls(backend)
    <3>1. ASSUME w.backend # None PROVE PlannedCall(soft(SetModelSecretBackend(key, w.backend), unset))
      BY <2>6, <3>1 DEF PlannedCall, soft, SetModelSecretBackend, set, Call
    <3> QED BY <3>1, PlannedTuples
  <2>9. PlannedCalls(<<last1, returns(state)>>)
    <3>1. PlannedCall(last1)
      BY <2>5 DEF PlannedCall, soft, see, Call
    <3> HIDE DEF last1
    <3> QED BY <2>5, <3>1, PlannedTuples, PlannedSingles
  <2>10. Create(w) = ((CreateModel(key, w) \o updateAnnotations(key, None, w.annotations)) \o backend)
                       \o <<last1, returns(state)>>
    BY <1>17 DEF Create, ModelCreate, state, unset, unread
  <2> HIDE DEF backend, last1, key
  <2>11. PlannedCalls(CreateModel(key, w) \o updateAnnotations(key, None, w.annotations))
    BY <2>7, NotesArePlanned, PlannedTogether
  <2>12. PlannedCalls((CreateModel(key, w) \o updateAnnotations(key, None, w.annotations)) \o backend)
    BY <2>8, <2>11, PlannedTogether
  <2> QED BY <2>9, <2>10, <2>12, PlannedTogether
<1>18. CASE kind = "controller"
  <2> DEFINE key == FreshID(there)
             state == StateWith(w.name, key, w)
  <2>1. AsPlanned(state)
    <3>1. w \in ControllerConfigs /\ Plan(tfstate, w) = w
      BY <1>18 DEF Configs, Plan
    <3>2. AgreesWith(state, w)
      BY <3>1 DEF ControllerConfigs, StateWith, StateOf, AgreesWith
    <3> QED BY <1>18, <3>1, <3>2 DEF AsPlanned, Shaped, Identified, Consistent
  <2>2. Create(w) = <<Bootstrap(key, w), ReadConnectionInfo(key), returns(state)>>
    BY <1>18 DEF Create, ControllerCreate
  <2> HIDE DEF key, state
  <2> QED BY <2>1, <2>2, PlannedPairs, PlannedSingles DEF Bootstrap, ReadConnectionInfo
<1>19. CASE kind = "application"
  BY <1>1, <1>19, PlannedSingles DEF Create, AppCreate, CreateApplication
<1> QED BY <1>2, <1>3, <1>4, <1>5, <1>6, <1>7, <1>8, <1>9, <1>10, <1>11, <1>12, <1>13, <1>14, <1>15, <1>16,
           <1>17, <1>18, <1>19 DEF AllKinds

LEMMA UpdatesAsPlanned ==
  ASSUME kind \in AllKinds, pc = "update", wanted \in Configs, wanted # None, tfstate # None,
         IsState(tfstate), Shaped(tfstate), kind \in NamedKinds => IsNamed(tfstate),
         ~Replaced(tfstate, Plan(tfstate, wanted))
  PROVE  PlannedCalls(Update(tfstate, Plan(tfstate, wanted)))
<1> DEFINE w == wanted
           s == tfstate
<1>1. ASSUME kind \notin {"machine", "model", "ssh_key"}
      PROVE  /\ Plan(s, w) = w
             /\ PlannedCalls(<<returns(StateOf(s.id, w))>>)
             /\ \A c : Quiet(c) => PlannedCalls(<<c, returns(StateOf(s.id, w))>>)
             /\ \A c, d : Quiet(c) /\ Quiet(d) => PlannedCalls(<<c, d, returns(StateOf(s.id, w))>>)
  <2>1. AsPlanned(StateOf(s.id, w))
    BY <1>1, ChangedAsPlanned
  <2> QED BY <1>1, <2>1, PlannedPairs DEF Plan
<1>2. CASE kind = "user"
  <2>1. s.id = s.name /\ s.name = w.name
    BY <1>1, <1>2 DEF IsState, ByName, AllKinds, Replaced, UserReplaced
  <2>2. CASE w.password = s.password
    <3>1. AsPlanned(s)
      BY <1>2, <2>2 DEF AsPlanned, Excepted, PlannedOtherwise
    <3>2. Update(s, Plan(s, w)) = <<returns(s)>>
      BY <1>1, <1>2, <2>2 DEF Update, UserUpdate
    <3> QED BY <3>1, <3>2, PlannedPairs
  <2>3. CASE w.password # s.password
    <3>1. Update(s, Plan(s, w)) = <<UpdateUser(w.name, w.password), returns(StateOf(s.id, w))>>
      BY <1>1, <1>2, <2>1, <2>3 DEF Update, UserUpdate
    <3> QED BY <1>1, <1>2, <3>1, PlannedSingles DEF UpdateUser
  <2> QED BY <2>2, <2>3
<1>3. CASE kind = "credential"
  <2> DEFINE state == StateOf(newCredentialID(w), w)
  <2>1. AsPlanned(state)
    <3>1. newCredentialID(w) # s.id => Excepted(state)
      BY <1>3 DEF Excepted, PlannedOtherwise
    <3>2. newCredentialID(w) = s.id => AsPlanned(state)
      BY <1>3, ChangedAsPlanned
    <3> QED BY <1>3, <3>1, <3>2 DEF AsPlanned, Shaped, Identified
  <2>2. Update(s, Plan(s, w)) = CreateCredential(w) \o <<returns(state)>>
    BY <1>1, <1>3, CredentialCalls DEF Update, CredentialUpdate
  <2> HIDE DEF state
  <2>3. PlannedCalls(CreateCredential(w)) /\ PlannedCalls(<<returns(state)>>)
    BY <2>1, CredentialCalls, PlannedPairs
  <2> QED BY <2>2, <2>3, PlannedTogether
<1>4. CASE kind \in NamedKinds
  <2> DEFINE state == [s EXCEPT !.name = w.name]
  <2>1. AsPlanned(state)
    <3>1. "name" \in DOMAIN s /\ w \in [name : Names]
      BY <1>4 DEF IsNamed, NamedKinds, Configs, GroupConfigs
    <3>2. AgreesWith(state, w) /\ state.id = s.id
      BY <3>1 DEF AgreesWith
    <3> QED BY <1>1, <1>4, <3>2 DEF AsPlanned, Shaped, Identified, Consistent, NamedKinds
  <2>2. Update(s, Plan(s, w)) = <<renameNamed(s.name, w.name), returns(state)>>
    BY <1>1, <1>4 DEF Update, GroupUpdate, RoleUpdate, RenameGroup, RenameRole, NamedKinds
  <2> HIDE DEF state
  <2> QED BY <2>1, <2>2, PlannedPairs, PlannedSingles
<1>5. CASE kind \in {"jaas_controller", "space"}
  BY <1>5, PlannedPairs DEF Update, JAASControllerUpdate, SpaceUpdate
<1>6. CASE kind = "cloud"
  BY <1>1, <1>6, PlannedSingles DEF Update, CloudUpdate, UpdateCloud
<1>7. CASE kind = "kubernetes_cloud"
  BY <1>1, <1>7, PlannedSingles, PlannedPairs DEF Update, KubernetesCloudUpdate, UpdateKubernetesCloud
<1>8. CASE kind = "secret_backend"
  <2> DEFINE fields == {"name"} \cup (IF w.interval # None THEN {"interval"} ELSE {})
                         \cup (IF w.version # s.version THEN {"content"} ELSE {})
             c == UpdateSecretBackend(s.name, [x \in fields |-> SecretBackendOf(w)[x]])
             state == StateOf(w.name, w)
  <2>1. AsPlanned(state)
    <3>1. w.name # s.name => Excepted(state)
      BY <1>8 DEF Excepted, PlannedOtherwise
    <3>2. s.id = s.name
      BY <1>8 DEF IsState, ByName, AllKinds
    <3>3. w.name = s.name => AsPlanned(state)
      BY <1>8, <3>2, ChangedAsPlanned
    <3> QED BY <1>8, <3>1, <3>3 DEF AsPlanned, Shaped, Identified
  <2>2. Update(s, Plan(s, w)) = <<c, returns(state)>>
    BY <1>1, <1>8 DEF Update, SecretBackendUpdate
  <2>3. Quiet(c)
    BY PlannedSingles DEF UpdateSecretBackend
  <2> HIDE DEF c, state
  <2> QED BY <2>1, <2>2, <2>3, PlannedPairs
<1>9. CASE kind = "offer"
  BY <1>1, <1>9 DEF Update, OfferUpdate
<1>10. CASE kind = "subnet"
  <2>1. s.id = w.name
    BY <1>1, <1>10 DEF IsState, ByName, AllKinds, Replaced, SubnetReplaced
  <2>2. PlannedCalls(<<returns(StateOf(w.name, w))>>)
    BY <1>1, <1>10, <2>1
  <2>3. Update(s, Plan(s, w)) = MovedTo(w.name, w.space) \o <<returns(StateOf(w.name, w))>>
    BY <1>1, <1>10 DEF Update, SubnetUpdate
  <2> QED BY <2>2, <2>3, MovedToIsPlanned, PlannedTogether
<1>11. CASE kind = "secret"
  <2> DEFINE changed == {x \in {"name", "info"} : s[x] # w[x]} \cup (IF contentChanged(s, w) THEN {"content"} ELSE {})
             c == UpdateSecret(s.id, [x \in changed |-> IF x = "content" THEN resolveSecretValue(w) ELSE w[x]])
  <2>1. Update(s, Plan(s, w)) = <<c, returns(StateOf(s.id, w))>>
    BY <1>1, <1>11 DEF Update, SecretUpdate
  <2>2. Quiet(c)
    BY PlannedSingles DEF UpdateSecret
  <2> HIDE DEF c
  <2> QED BY <1>1, <1>11, <2>1, <2>2
<1>12. CASE kind = "storage_pool"
  BY <1>1, <1>12, PlannedSingles DEF Update, StoragePoolUpdate, UpdatePool
<1>13. CASE kind = "ssh_key"
  <2> DEFINE plan == SSHKeyCommentInsensitive(s, w)
  <2>1. Plan(s, w) = plan /\ w \in SSHKeyConfigs
    BY <1>13 DEF Plan, Configs
  <2>2. DOMAIN plan = {"name", "comment"}
    BY <2>1 DEF SSHKeyCommentInsensitive, SSHKeyConfigs
  <2>3. s.name = plan.name /\ s.comment = plan.comment
    BY <1>13, <2>1 DEF Replaced, SSHKeyReplaced
  <2> HIDE DEF plan
  <2>4. AsPlanned(s)
    BY <1>13, <2>1, <2>2, <2>3 DEF AsPlanned, Shaped, Identified, Consistent, AgreesWith
  <2> QED BY <1>13, <2>4, PlannedPairs DEF Update, SSHKeyUpdate
<1>14. CASE kind = "machine"
  <2> DEFINE key == modelMachineIDAndName(s.id).machine
             state == [s EXCEPT !.name = w.name, !.annotations = w.annotations, !.id = newMachineID(key, w.name)]
  <2>1. Plan(s, w) = w /\ w \in MachineConfigs
    BY <1>14 DEF Plan, Configs
  <2>2. s.constraints = w.constraints
    BY <1>14, <2>1 DEF Replaced, MachineReplaced
  <2>3. {"id", "name", "constraints", "annotations", "hostname"} \subseteq DOMAIN s
        /\ s.id = newMachineID(key, s.name)
    BY <1>14 DEF Shaped, Identified, modelMachineIDAndName
  <2>4. /\ DOMAIN state = DOMAIN s /\ state.name = w.name /\ state.annotations = w.annotations
        /\ state.constraints = w.constraints /\ state.hostname = s.hostname
        /\ state.id = newMachineID(key, w.name)
    BY <2>2, <2>3
  <2>5. DOMAIN w = {"name", "constraints", "annotations", "hostname"}
    BY <2>1 DEF MachineConfigs
  <2>6. Update(s, Plan(s, w)) = updateAnnotations(key, s.annotations, w.annotations) \o <<returns(state)>>
    BY <1>14, <2>1 DEF Update, MachineUpdate
  <2> HIDE DEF key, state
  <2>7. Shaped(state)
    <3>1. state.id[1] = key /\ state.id[2] = w.name
      BY <2>4 DEF newMachineID
    <3> QED BY <2>3, <2>4, <3>1 DEF Shaped, Identified
  <2>8. AsPlanned(state)
    <3>1. CASE w.name # s.name \/ w.hostname # s.hostname
      BY <1>14, <2>7, <3>1 DEF AsPlanned, Excepted, PlannedOtherwise
    <3>2. CASE w.name = s.name /\ w.hostname = s.hostname
      <4>1. AgreesWith(state, w) /\ state.id = s.id
        BY <2>3, <2>4, <2>5, <3>2 DEF AgreesWith
      <4> QED BY <2>1, <2>7, <4>1 DEF AsPlanned, Consistent
    <3> QED BY <3>1, <3>2
  <2>9. PlannedCalls(<<returns(state)>>)
    BY <2>8, PlannedPairs
  <2> QED BY <2>6, <2>9, NotesArePlanned, PlannedTogether
<1>15. CASE kind = "model"
  <2> DEFINE v == Plan(s, w)
             state == StateOf(s.id, v)
             notes == updateAnnotations(s.id, s.annotations, v.annotations)
             backend == IF s.backend = v.backend THEN <<>> ELSE <<SetModelSecretBackend(s.id, v.backend)>>
             agent == IF s.agent = v.agent THEN <<>> ELSE <<UpgradeModel(s.id, v.agent)>>
  <2>1. "id" \notin DOMAIN v
    <3>1. w \in ModelConfigs /\ v = PlannedModel(s, w)
      BY <1>15 DEF Plan, Configs
    <3>2. DOMAIN v = DOMAIN w
      BY <3>1 DEF PlannedModel
    <3> QED BY <3>1, <3>2, ConfigFields
  <2>2. Update(s, v) = (((notes \o UpdateModel(s, v)) \o backend) \o agent) \o <<returns(state)>>
    BY <1>15 DEF Update, ModelUpdate
  <2> HIDE DEF v
  <2>3. AgreesWith(state, v) /\ state.id = s.id
    BY <2>1, StateAgrees
  <2>4. AsPlanned(state)
    BY <1>15, <2>3 DEF AsPlanned, Shaped, Identified, Consistent, v
  <2>5. PlannedCalls(UpdateModel(s, v))
    <3> DEFINE config == IF s.config = v.config THEN <<>> ELSE <<set(s.id, [config |-> v.config])>>
               credential == IF s.credential = v.credential THEN <<>> ELSE <<ChangeModelCredential>>
    <3>1. PlannedCalls(config)
      BY PlannedTuples, PlannedPairs, PlannedSingles
    <3>2. PlannedCalls(credential)
      BY PlannedTuples, PlannedPairs DEF ChangeModelCredential
    <3>3. PlannedCalls(<<SetModelConstraints(s.id, v.constraints)>>)
      BY PlannedPairs, PlannedSingles DEF SetModelConstraints
    <3>4. \/ UpdateModel(s, v) = <<>>
          \/ UpdateModel(s, v) = (config \o <<SetModelConstraints(s.id, v.constraints)>>) \o credential
      BY DEF UpdateModel
    <3> HIDE DEF config, credential
    <3>5. PlannedCalls(config \o <<SetModelConstraints(s.id, v.constraints)>>)
      BY <3>1, <3>3, PlannedTogether
    <3>6. PlannedCalls((config \o <<SetModelConstraints(s.id, v.constraints)>>) \o credential)
      BY <3>2, <3>5, PlannedTogether
    <3> QED BY <3>4, <3>6, PlannedTuples
  <2>6. PlannedCalls(backend)
    BY PlannedTuples, PlannedPairs, PlannedSingles DEF SetModelSecretBackend
  <2>7. PlannedCalls(agent)
    BY PlannedTuples, PlannedPairs, PlannedSingles DEF UpgradeModel
  <2>8. PlannedCalls(notes)
    BY NotesArePlanned
  <2>9. PlannedCalls(<<returns(state)>>)
    BY <2>4, PlannedPairs
  <2> HIDE DEF state, notes, backend, agent
  <2>10. PlannedCalls(notes \o UpdateModel(s, v))
    BY <2>5, <2>8, PlannedTogether
  <2>11. PlannedCalls((notes \o UpdateModel(s, v)) \o backend)
    BY <2>6, <2>10, PlannedTogether
  <2>12. PlannedCalls(((notes \o UpdateModel(s, v)) \o backend) \o agent)
    BY <2>7, <2>11, PlannedTogether
  <2>13. PlannedCalls(Update(s, v))
    BY <2>2, <2>9, <2>12, PlannedTogether
  <2> QED BY <2>13 DEF v
<1>16. CASE kind = "controller"
  <2> DEFINE state == StateWith(s.id, s.uuid, w)
             config == IF w.config \in {None, s.config} THEN <<>> ELSE <<set(s.uuid, [config |-> w.config])>>
             more == IF s.modelconfig = w.modelconfig THEN <<>> ELSE <<set(s.uuid, [modelconfig |-> w.modelconfig])>>
             version == UpgradeController(s, w)
  <2>1. AsPlanned(state)
    <3>1. w \in ControllerConfigs
      BY <1>16 DEF Configs
    <3>2. AgreesWith(state, w) /\ state.id = s.id
      BY <3>1 DEF ControllerConfigs, StateWith, StateOf, AgreesWith
    <3> QED BY <1>1, <1>16, <3>2 DEF AsPlanned, Shaped, Identified, Consistent
  <2>2. Update(s, Plan(s, w)) = ((config \o more) \o version) \o <<returns(state)>>
    BY <1>1, <1>16 DEF Update, ControllerUpdate, UpdateConfig
  <2>3. PlannedCalls(config)
    BY PlannedTuples, PlannedPairs, PlannedSingles
  <2>4. PlannedCalls(more)
    BY PlannedTuples, PlannedPairs, PlannedSingles
  <2>5. PlannedCalls(version)
    BY PlannedTuples, PlannedPairs, PlannedSingles DEF UpgradeController
  <2>6. PlannedCalls(<<returns(state)>>)
    BY <2>1, PlannedPairs
  <2> HIDE DEF state, config, more, version
  <2>7. PlannedCalls(config \o more)
    BY <2>3, <2>4, PlannedTogether
  <2>8. PlannedCalls((config \o more) \o version)
    BY <2>5, <2>7, PlannedTogether
  <2> QED BY <2>2, <2>6, <2>8, PlannedTogether
<1>17. CASE kind = "application"
  <2> DEFINE app == there[s.name]
             charm == UpdateCharmAndResources(s, w, app)
             config == UpdateConfigOf(s, w)
             bindings == UpdateBindings(s, w, app)
             update == UpdateApplication(s, w, app)
  <2>1. PlannedCalls(charm)
    <3>1. charm = <<>> \/ \E v : charm = <<set(w.name, v)>>
      BY DEF UpdateCharmAndResources
    <3> QED BY <3>1, PlannedTuples, PlannedPairs, PlannedSingles
  <2>2. PlannedCalls(config)
    BY PlannedTuples, PlannedPairs, PlannedSingles DEF UpdateConfigOf
  <2>3. PlannedCalls(bindings)
    <3>1. bindings = <<>> \/ bindings = <<fails>> \/ \E v : bindings = <<set(w.name, v)>>
      BY DEF UpdateBindings
    <3> QED BY <3>1, PlannedTuples, PlannedPairs, PlannedSingles
  <2>4. update = <<fails>> \/ update = (charm \o config) \o bindings
    BY DEF UpdateApplication
  <2>5. \/ Update(s, Plan(s, w)) = update
        \/ Update(s, Plan(s, w)) = update \o <<see(w.name, [name |-> w.name]), returns(StateOf(s.id, w))>>
    BY <1>1, <1>17 DEF Update, AppUpdate
  <2>6. PlannedCalls(<<see(w.name, [name |-> w.name]), returns(StateOf(s.id, w))>>)
    BY <1>1, <1>17, PlannedSingles
  <2> HIDE DEF charm, config, bindings, update
  <2>7. PlannedCalls(charm \o config)
    BY <2>1, <2>2, PlannedTogether
  <2>8. PlannedCalls((charm \o config) \o bindings)
    BY <2>3, <2>7, PlannedTogether
  <2>9. PlannedCalls(update)
    BY <2>4, <2>8, PlannedPairs
  <2> QED BY <2>5, <2>6, <2>9, PlannedTogether
<1> QED BY <1>2, <1>3, <1>4, <1>5, <1>6, <1>7, <1>8, <1>9, <1>10, <1>11, <1>12, <1>13, <1>14, <1>15, <1>16,
           <1>17 DEF AllKinds, NamedKinds

-----------------------------------------------------------------------------
(* Every action keeps it.                                                  *)

\* None is no record that has a name: the plan of a configuration is never None.
NoneIsNoConfig == "name" \notin DOMAIN None

LEMMA PlannedNext ==
  ASSUME kind' = kind, pc' = pc, wanted' = wanted, tfstate' = tfstate \/ (pc = "create" /\ kind = "machine")
  PROVE  PlannedCalls(calls') => PlannedCalls(calls)'
<1>1. ASSUME NEW v, Shaped(v) PROVE Shaped(v)'
  BY <1>1 DEF Shaped, Identified
<1>2. ASSUME NEW v, Consistent(v) PROVE Consistent(v)'
  <2>1. CASE tfstate' = tfstate
    BY <1>2, <2>1 DEF Consistent, AgreesWith, Plan
  <2>2. CASE pc = "create" /\ kind = "machine"
    BY <1>2, <2>2 DEF Consistent, AgreesWith, Plan
  <2> QED BY <2>1, <2>2
<1>3. ASSUME NEW v, Excepted(v) PROVE Excepted(v)'
  <2>1. CASE kind = "model"
    BY <1>3, <2>1 DEF Excepted
  <2>2. CASE kind # "model"
    BY <1>3, <2>2 DEF Excepted, PlannedOtherwise
  <2> QED BY <2>1, <2>2
<1>4. ASSUME NEW v, AsPlanned(v) PROVE AsPlanned(v)'
  BY <1>1, <1>2, <1>3, <1>4 DEF AsPlanned
<1>5. ASSUME NEW c, PlannedCall(c) PROVE PlannedCall(c)'
  BY <1>4, <1>5 DEF PlannedCall
<1> QED BY <1>5 DEF PlannedCalls

LEMMA ShapedNext ==
  ASSUME kind' = kind, Shaped(tfstate')
  PROVE  Shaped(tfstate)'
BY DEF Shaped, Identified

\* Where no handler of Create or Update is at work, or it is the same as before.
LEMMA PlanKept ==
  ASSUME kind' = kind,
         tfstate' # None => Shaped(tfstate'),
         pc' \notin {"create", "update"} \/ calls' = <<>>,
         pc' = "update" => calls' # <<>>
  PROVE  PlanInv'
<1>1. PlannedCalls(<<>>)'
  BY DEF PlannedCalls, ToSet
<1> QED BY <1>1, ShapedNext DEF PlanInv

LEMMA PlanWorks ==
  ASSUME kind' = kind, pc' = pc, wanted' = wanted, tfstate' = tfstate \/ (pc = "create" /\ kind = "machine"),
         pc' = "update" => calls' # <<>>,
         tfstate' # None => Shaped(tfstate'),
         pc \in {"create", "update"} => PlannedCalls(calls')
  PROVE  PlanInv'
BY PlannedNext, ShapedNext DEF PlanInv

LEMMA PlanSteps ==
  ASSUME IInv, PlanInv, Step
  PROVE  PlanInv'
<1> DEFINE c == Head(calls)
<1>1. /\ calls # <<>> /\ c.op # "returns" /\ ~Refuses(c, there)
      /\ IF c.op = "saves" THEN tfstate' = c.val /\ tainted' = TRUE ELSE tfstate' = tfstate
      /\ calls' = Tail(calls) /\ pc' = pc /\ kind' = kind /\ wanted' = wanted
  BY DEF Step
<1>2. /\ pc \in {"create", "update"} \/ (pc = "delete" /\ DeleteInv)
      /\ Final(calls) /\ c = calls[1] /\ 1 \in DOMAIN calls
  BY <1>1, Running DEF IInv
<1>3. c.op \notin {"returns", "fails"}
  BY <1>1 DEF Refuses
<1>4. /\ Len(calls) \in Nat /\ calls' # <<>> /\ calls' \in Seq(ToSet(calls'))
      /\ DOMAIN calls = 1..Len(calls) /\ DOMAIN calls' = 1..(Len(calls) - 1)
      /\ \A i \in 1..(Len(calls) - 1) : calls'[i] = calls[i + 1]
  BY <1>1, <1>2, <1>3, GoesOn DEF Final
<1> HIDE DEF c
<1>5. CASE pc = "delete" /\ DeleteInv
  <2>1. c.op # "saves"
    BY <1>2, <1>5 DEF DeleteInv, DeleteCalls, DeleteCall
  <2> QED BY <1>1, <1>5, <2>1, PlanWorks DEF PlanInv
<1>6. CASE pc \in {"create", "update"}
  <2>1. \A i \in DOMAIN calls : PlannedCall(calls[i])
    BY <1>6 DEF PlanInv, PlannedCalls
  <2>2. \A i \in DOMAIN calls' : i + 1 \in DOMAIN calls /\ calls'[i] = calls[i + 1]
    BY <1>4
  <2>3. PlannedCalls(calls')
    BY <1>4, <2>1, <2>2 DEF PlannedCalls
  <2>4. c.op = "saves" => kind = "machine" /\ pc = "create" /\ Shaped(c.val)
    BY <1>2, <2>1 DEF PlannedCall, AsPlanned
  <2> QED BY <1>1, <1>4, <2>3, <2>4, PlanWorks DEF PlanInv
<1> QED BY <1>2, <1>5, <1>6

LEMMA PlanBegins ==
  ASSUME IInv, NamedInv, PlanInv, Begin, UpdateKeeps
  PROVE  PlanInv'
<1>1. /\ calls = <<>> /\ pc \in {"create", "update", "delete"}
      /\ calls' = IF PlanRefused THEN <<fails>>
                  ELSE CASE pc = "create" -> Create(wanted)
                         [] pc = "update" -> Update(tfstate, Plan(tfstate, wanted))
                         [] pc = "delete" -> Delete(tfstate)
      /\ UNCHANGED <<wanted, tfstate, pc, kind, setting, there, dying, mine, excused>>
  BY DEF Begin
<1>2. ControlInv /\ kind \in AllKinds
  BY DEF IInv, ControlInv
<1>3. CASE PlanRefused
  BY <1>1, <1>3, PlanWorks, PlannedPairs DEF PlanInv
<1>4. CASE ~PlanRefused /\ pc = "create"
  <2>1. PlannedCalls(calls')
    BY <1>1, <1>2, <1>4, CreatesAsPlanned DEF ControlInv
  <2> QED BY <1>1, <1>4, <2>1, PlanWorks DEF PlanInv
<1>5. CASE ~PlanRefused /\ pc = "update"
  <2>1. /\ wanted \in Configs /\ wanted # None /\ tfstate # None /\ IsState(tfstate) /\ Shaped(tfstate)
        /\ kind \in NamedKinds => IsNamed(tfstate)
        /\ ~Replaced(tfstate, Plan(tfstate, wanted))
    BY <1>1, <1>2, <1>5 DEF ControlInv, NamedInv, PlanInv
  <2>2. PlannedCalls(calls')
    BY <1>1, <1>2, <1>5, <2>1, UpdatesAsPlanned
  <2>3. calls' # <<>>
    <3>1. kind \notin {"ssh_key", "model"} => Plan(tfstate, wanted) = wanted
      BY DEF Plan
    <3>2. WorkCalls(calls', KeysOf(tfstate))
      BY <1>1, <1>5, <2>1, <3>1, Zenon DEF UpdateKeeps
    <3> QED BY <3>2 DEF WorkCalls, Final
  <2> QED BY <1>1, <1>5, <2>1, <2>2, <2>3, PlanWorks
<1>6. CASE ~PlanRefused /\ pc = "delete"
  BY <1>1, <1>6, PlanWorks DEF PlanInv
<1> QED BY <1>1, <1>3, <1>4, <1>5, <1>6

LEMMA ReadsShaped ==
  ASSUME NEW s, Identified(s), NEW state \in ReadOf(s), state # None
  PROVE  Shaped(state)
<1>1. CASE kind = "machine"
  <2> DEFINE n == modelMachineIDAndName(s.id).name
             machine == ReadMachine(modelMachineIDAndName(s.id).machine, there)
  <2>1. state = [s EXCEPT !.name = n, !.constraints = machine.constraints, !.annotations = machine.annotations]
    BY <1>1 DEF ReadOf, MachineRead
  <2>2. n = s.id[2] /\ s.id = newMachineID(s.id[1], s.id[2])
        /\ {"id", "name", "constraints", "annotations", "hostname"} \subseteq DOMAIN s
    BY <1>1 DEF Identified, modelMachineIDAndName
  <2> HIDE DEF n, machine
  <2>3. state.id = s.id /\ state.name = n /\ DOMAIN state = DOMAIN s
    BY <2>1, <2>2
  <2> QED BY <2>2, <2>3 DEF Shaped, Identified
<1>2. CASE kind # "machine"
  BY <1>2 DEF Shaped, Identified
<1> QED BY <1>1, <1>2

LEMMA PlanReads ==
  ASSUME NoneIsNoConfig, IInv, PlanInv, Read
  PROVE  PlanInv'
<1>1. /\ pc = "read" /\ calls = <<>> /\ tfstate # None /\ wanted \in Configs \cup {None}
      /\ calls' = calls /\ kind' = kind /\ wanted' = wanted
  BY DEF Read, Refreshed, IInv, ControlInv
<1>2. PICK state \in ReadOf(tfstate) :
        LET plan == IF wanted = None THEN None ELSE Plan(state, wanted) IN
        /\ tfstate' = state
        /\ pc' = Planned(state, plan # None /\ state # None /\ AgreesWith(state, plan),
                         plan # None /\ state # None /\ Replaced(state, plan))
  BY DEF Read, Refreshed
<1>3. state # None => Shaped(state)
  BY <1>1, ReadsShaped DEF PlanInv, Shaped
<1>4. wanted # None => Plan(state, wanted) # None
  <2>1. CASE kind \notin {"ssh_key", "model"}
    BY <2>1 DEF Plan
  <2>2. CASE kind = "ssh_key" /\ wanted # None
    <3>1. wanted \in SSHKeyConfigs /\ Plan(state, wanted) = SSHKeyCommentInsensitive(state, wanted)
      BY <1>1, <2>2 DEF Plan, Configs
    <3>2. "name" \in DOMAIN SSHKeyCommentInsensitive(state, wanted)
      BY <3>1 DEF SSHKeyCommentInsensitive, SSHKeyConfigs
    <3> QED BY <3>1, <3>2 DEF NoneIsNoConfig
  <2>3. CASE kind = "model" /\ wanted # None
    <3>1. wanted \in ModelConfigs /\ Plan(state, wanted) = PlannedModel(state, wanted)
      BY <1>1, <2>3 DEF Plan, Configs
    <3>2. "name" \in DOMAIN PlannedModel(state, wanted)
      BY <3>1 DEF PlannedModel, ModelConfigs, Without
    <3> QED BY <3>1, <3>2 DEF NoneIsNoConfig
  <2> QED BY <2>1, <2>2, <2>3
<1>5. pc' = "update" => ~Replaced(state, Plan(state, wanted))
  BY <1>2, <1>4 DEF Planned
<1>6. pc' \in {"create", "update"} => PlannedCalls(calls)'
  <2>1. PlannedCalls(<<>>)'
    BY DEF PlannedCalls, ToSet
  <2> QED BY <1>1, <2>1
<1>7. (~Replaced(state, Plan(state, wanted))) => (~Replaced(tfstate, Plan(tfstate, wanted)))'
  BY <1>1, <1>2 DEF Replaced, Plan
<1>8. tfstate' # None => Shaped(tfstate)'
  BY <1>1, <1>2, <1>3, ShapedNext
<1> QED BY <1>5, <1>6, <1>7, <1>8 DEF PlanInv

LEMMA PlanOthers ==
  ASSUME IInv, PlanInv,
         \/ Refused \/ CallFails \/ AnswerLost \/ Returned \/ Deleted \/ ReadFails
         \/ Vanish \/ OutsideChange \/ Import \/ EditConfig \/ Start \/ UNCHANGED vars
  PROVE  PlanInv'
<1>1. CASE Refused \/ CallFails \/ AnswerLost
  <2> DEFINE c == Head(calls)
  <2>1. /\ kind' = kind /\ tfstate' = tfstate /\ wanted' = wanted /\ calls # <<>>
        /\ \/ c.soft # <<>> /\ calls' = <<returns(c.soft[1])>> /\ pc' = pc
           \/ calls' = <<>> /\ pc' = "idle"
    BY <1>1 DEF Refused, CallFails, AnswerLost, Fails, Errored
  <2>2. c = calls[1] /\ 1 \in DOMAIN calls
    BY <2>1, Running DEF IInv
  <2> HIDE DEF c
  <2>3. CASE calls' = <<>> /\ pc' = "idle"
    BY <2>1, <2>3, PlanKept DEF PlanInv
  <2>4. CASE c.soft # <<>> /\ calls' = <<returns(c.soft[1])>> /\ pc' = pc
    <3>1. pc \in {"create", "update"} => AsPlanned(c.soft[1])
      BY <2>2, <2>4 DEF PlanInv, PlannedCalls, PlannedCall
    <3>2. pc \in {"create", "update"} => PlannedCalls(calls')
      BY <2>4, <3>1, PlannedPairs
    <3>3. calls' # <<>>
      BY <2>4
    <3> QED BY <2>1, <2>4, <3>2, <3>3, PlanWorks DEF PlanInv
  <2> QED BY <2>1, <2>3, <2>4
<1>2. CASE Returned
  <2>1. /\ kind' = kind /\ calls # <<>> /\ pc \in {"create", "update"} /\ Head(calls).op = "returns"
        /\ tfstate' = Head(calls).val /\ pc' = "idle"
    BY <1>2 DEF Returned
  <2>2. Head(calls) = calls[1] /\ 1 \in DOMAIN calls
    BY <2>1, Running DEF IInv
  <2>3. Shaped(tfstate')
    BY <2>1, <2>2 DEF PlanInv, PlannedCalls, PlannedCall, AsPlanned
  <2> QED BY <2>1, <2>3, PlanKept
<1>3. CASE Deleted
  <2>1. kind' = kind /\ calls' = <<>> /\ tfstate' = None /\ pc' \in {"idle", "create"}
    BY <1>3 DEF Deleted, Destroyed
  <2> QED BY <2>1, PlanKept
<1>4. CASE ReadFails \/ EditConfig \/ Start
  <2>1. kind' = kind /\ calls' = calls /\ calls = <<>> /\ tfstate' = tfstate /\ pc' \in {"idle", "create", "read"}
    BY <1>4 DEF ReadFails, Errored, EditConfig, Edit, Start, BeginApply, IInv, ControlInv
  <2> QED BY <2>1, PlanKept DEF PlanInv
<1>5. CASE Import
  <2>1. /\ kind' = kind /\ pc' = "idle"
        /\ \E k \in Keys : \E s \in Importable(k) : tfstate' \in ReadOf(s) \ {None}
    BY <1>5 DEF Import
  <2>2. ASSUME NEW k, NEW s \in Importable(k) PROVE Identified(s)
    BY <2>2 DEF Importable, Identified, MachineImport, newMachineID
  <2>3. Shaped(tfstate')
    BY <2>1, <2>2, ReadsShaped
  <2> QED BY <2>1, <2>3, PlanKept
<1>6. CASE Vanish \/ OutsideChange \/ UNCHANGED vars
  <2>1. kind' = kind /\ calls' = calls /\ tfstate' = tfstate /\ pc' = pc /\ wanted' = wanted
    BY <1>6 DEF Vanish, OutsideChange, vars
  <2>2. PlannedCalls(calls) => PlannedCalls(calls)'
    BY <2>1, PlannedNext
  <2>3. (~Replaced(tfstate, Plan(tfstate, wanted))) => (~Replaced(tfstate, Plan(tfstate, wanted)))'
    BY <2>1 DEF Replaced, Plan
  <2>4. tfstate # None => (tfstate # None => Shaped(tfstate))'
    BY <2>1, ShapedNext DEF PlanInv
  <2> QED BY <2>1, <2>2, <2>3, <2>4 DEF PlanInv
<1> QED BY <1>1, <1>2, <1>3, <1>4, <1>5, <1>6

-----------------------------------------------------------------------------
(* The third theorem.                                                      *)

\* The state a Create or Update hands back agrees with what Terraform planned
\* in every argument that is not computed, whichever calls the handler makes,
\* with whatever failure in between, but for the differences that
\* PlannedOtherwise names: the framework refuses anything else as an
\* inconsistent result after apply.
THEOREM ResultsArePlanned ==
  ASSUME NoneIsNoState, NoneIsNoConfig
  PROVE  Spec => []ResultsAreAsPlanned
<1> DEFINE PInv == IInv /\ NamedInv /\ PlanInv
<1>1. Init => PInv
  <2> SUFFICES ASSUME Init PROVE PInv
    OBVIOUS
  <2>1. /\ kind \in Kinds /\ tfstate = None /\ pc = "idle" /\ calls = <<>>
        /\ there = [k \in Keys |-> IF kind = "subnet" /\ k \in Names THEN [name |-> k, space |-> "alpha"] ELSE None]
    BY DEF Init, TerraformInit
  <2>2. PlanInv
    BY <2>1 DEF PlanInv
  <2>3. NamedInv
    BY <2>1 DEF NamedInv, NamesAt, NamedCalls, NamedKinds
  <2> QED BY <2>2, <2>3, Begun
<1>2. PInv /\ [Next]_vars => PInv'
  <2> SUFFICES ASSUME PInv, [Next]_vars PROVE PInv'
    OBVIOUS
  <2>1. IInv'
    BY HandlersKeep, Continued DEF IInv, ControlInv
  <2>2. NamedInv'
    BY NamedSteps, NamedBegins, NamedFails, NamedReads, NamedChanges, NamedOthers DEF Next, ApplyStep
  <2>3. PlanInv'
    <3>1. UpdateKeeps
      BY HandlersKeep DEF IInv, ControlInv
    <3> QED BY <3>1, PlanSteps, PlanBegins, PlanReads, PlanOthers DEF Next, ApplyStep
  <2> QED BY <2>1, <2>2, <2>3
<1>3. PInv => ResultsAreAsPlanned
  <2> SUFFICES ASSUME PInv, calls # <<>>, pc \in {"create", "update"}, Head(calls).op = "returns", ~PlannedOtherwise
               PROVE  Consistent(Head(calls).val)
    BY DEF ResultsAreAsPlanned
  <2>1. Head(calls) = calls[1] /\ 1 \in DOMAIN calls
    BY Running DEF IInv
  <2>2. AsPlanned(Head(calls).val)
    BY <2>1 DEF PlanInv, PlannedCalls, PlannedCall
  <2>3. ~Excepted(Head(calls).val)
    BY DEF Excepted, PlannedOtherwise
  <2> QED BY <2>2, <2>3 DEF AsPlanned
<1> QED BY <1>1, <1>2, <1>3, PTL DEF Spec
=============================================================================
