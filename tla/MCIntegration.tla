--------------------------- MODULE MCIntegration ---------------------------
(***************************************************************************)
(* Two integrations: app with a database, in the same model or behind an   *)
(* offer, and app with a second application.  Which side of the offer is   *)
(* remote is the configuration's choice: with RemoteApps = {db, web} the   *)
(* one offer provides and the other requires.                              *)
(***************************************************************************)
EXTENDS Integration, TLC

CONSTANTS r1, r2, l1, l2, app, db, web, o1, o2, o3

MCAppOf ==
  (r1 :> [requirer |-> app, provider |-> db]) @@ (r2 :> [requirer |-> web, provider |-> app])
=============================================================================
