------------------------------ MODULE MCAction ------------------------------
(* A resource that targets the leader of an application with two units, over  *)
(* as many applies as three actions allow.                                    *)
EXTENDS Action

CONSTANTS u1, u2
=============================================================================
