---------------------------- MODULE MCModelCache ----------------------------
(* Two handlers and three models, two of which share a name, so that a model  *)
(* can be replaced while the other handler looks models up.                   *)
EXTENDS ModelCache

CONSTANTS u1, u2, u3, n1, n2, h1, h2

MCNameOf == [u \in UUIDs |-> IF u = u3 THEN n2 ELSE n1]
=============================================================================
