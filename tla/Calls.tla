-------------------------------- MODULE Calls --------------------------------
(***************************************************************************)
(* The calls that handlers make, and what they do to what is on the        *)
(* controller.  A handler is the sequence of calls that it makes when none *)
(* fails.  The controller is external: each operation stands for an API    *)
(* call, or for a wait of the provider, as the code in src/ relies on it.  *)
(***************************************************************************)
EXTENDS Naturals, Sequences, FiniteSets, Objects

CONSTANT Names   \* the names that objects can have

\* Some kinds are tried with one name; None is no name.
ASSUME NamesAssumption == "a" \in Names /\ None \notin Names

\* "client" and "controller" are the two places of a credential; an object with
\* an identifier that the controller gives is under it, the others are under
\* their name.
IDs == {"id1", "id2", "id3", "id4"}
Keys == Names \cup {"client", "controller", "outside"} \cup IDs

\* The identifiers are a bound: when all are taken, none is free and nothing new
\* can be made.
FreshID(at) == CHOOSE k \in IDs : at[k] = None \/ \A j \in IDs : at[j] # None

Call(op, key, val) == [op |-> op, key |-> key, val |-> val, soft |-> <<>>]

add(key, obj)       == Call("add", key, obj)        \* refused when there is one
addNamed(key, obj)  == Call("add_named", key, obj)  \* the same, or one has its name
put(key, obj)       == Call("put", key, obj)        \* adds or replaces
set(key, fields)    == Call("set", key, fields)     \* refused when there is none
move(key, fields)   == Call("move", key, fields)    \* the same, and renames: refused when the name is taken
renameNamed(n, new) == Call("rename_named", n, new)
remove(key)         == Call("remove", key, None)    \* refused when there is none
removeNamed(n)      == Call("remove_named", n, None)
drop(key)           == Call("drop", key, None)      \* removes it if it is there
destroy(key)        == Call("destroy", key, None)   \* it is gone some time later; refused when there is none
doom(key)           == Call("doom", key, None)      \* the same, but that there is none is no error
check(key, fields)  == Call("check", key, fields)   \* an error unless it is so
see(key, fields)    == Call("see", key, fields)     \* waits until it is so
gone(key)           == Call("gone", key, None)      \* waits until there is none
saves(state)        == Call("saves", None, state)   \* sets the state and goes on
returns(state)      == Call("returns", None, state) \* sets the state: the end
fails               == Call("fails", None, None)    \* returns an error

\* The call may fail: the handler then reports a warning and returns this state.
soft(c, state) == [c EXCEPT !.soft = <<state>>]

HoldersOf(n, at) == {k \in Keys : at[k] # None /\ at[k].name = n}
Target(c, at) ==
  IF c.op \notin {"rename_named", "remove_named"} THEN c.key
  ELSE IF HoldersOf(c.key, at) = {} THEN None ELSE CHOOSE k \in HoldersOf(c.key, at) : TRUE

\* The controller does not go along with c, or what the handler checks is not so.
Refuses(c, at) ==
  LET k == Target(c, at) IN
  CASE c.op = "add"          -> at[k] # None
    [] c.op = "add_named"    -> at[k] # None \/ HoldersOf(c.val.name, at) # {}
    [] c.op \in {"set", "remove", "destroy"} -> at[k] = None
    [] c.op = "move"         -> at[k] = None \/ (c.val.name # k /\ at[c.val.name] # None)
    [] c.op = "rename_named" -> k = None \/ HoldersOf(c.val, at) # {}
    [] c.op = "remove_named" -> k = None
    [] c.op \in {"check", "see"} -> ~Has(at[k], c.val)
    [] c.op = "gone"         -> at[k] # None
    [] c.op = "fails"        -> TRUE
    [] OTHER                 -> FALSE

\* What is there after c; "destroy" and "doom" only make the object go later.
After(c, at) ==
  LET k == Target(c, at) IN
  CASE c.op \in {"add", "add_named", "put"} -> [at EXCEPT ![k] = c.val]
    [] c.op = "set"          -> [at EXCEPT ![k] = Merged(@, c.val)]
    [] c.op = "move"         -> [at EXCEPT ![k] = None, ![c.val.name] = Merged(at[k], c.val)]
    [] c.op = "rename_named" -> [at EXCEPT ![k].name = c.val]
    [] c.op \in {"remove", "remove_named", "drop"} -> [at EXCEPT ![k] = None]
    [] OTHER                 -> at
=============================================================================
