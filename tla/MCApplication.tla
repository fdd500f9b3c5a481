--------------------------- MODULE MCApplication ---------------------------
(* An application of at most two units, or on at most two machines, and room  *)
(* for the units that are still dying.                                        *)
EXTENDS Application

CONSTANTS u1, u2, u3, u4, m1, m2

ByCount == [byMachine |-> FALSE, modelType |-> "iaas",
            localCharm |-> FALSE, skipFailedDeletion |-> FALSE]

OneSetup   == {ByCount}
MostSetups == {ByCount,
               [ByCount EXCEPT !.modelType = "caas"],
               [ByCount EXCEPT !.byMachine = TRUE],
               [ByCount EXCEPT !.localCharm = TRUE, !.skipFailedDeletion = TRUE]}
=============================================================================
