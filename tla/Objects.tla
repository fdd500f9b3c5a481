------------------------------- MODULE Objects -------------------------------
(***************************************************************************)
(* Objects, configurations and states are records of fields.               *)
(***************************************************************************)
CONSTANT None   \* no object, no value

\* The fields of r that f names are replaced.
Merged(r, f) == [x \in DOMAIN r |-> IF x \in DOMAIN f THEN f[x] ELSE r[x]]

Without(r, hidden) == [x \in DOMAIN r \ hidden |-> r[x]]

\* What the state file has of the object with an ID: its configuration, without
\* the fields that are write-only.
StateOf(id, w) == [x \in DOMAIN w \cup {"id"} |-> IF x = "id" THEN id ELSE w[x]]

\* An object is there and has these fields.
Has(obj, fields) == obj # None /\ \A x \in DOMAIN fields : obj[x] = fields[x]
=============================================================================
