--------------------------- MODULE MCJobScheduler ---------------------------
(* Finite instances of JobScheduler: three jobs, one of which only appears  *)
(* when another is harvested, or one job that is delivered for ever.        *)
EXTENDS JobScheduler, TLC

CONSTANTS j1, j2, j3

\* j3 is produced by the harvest of j1.
MCSpawn == (j1 :> {j3}) @@ (j2 :> {}) @@ (j3 :> {})
MCRoots == {j1, j2}

\* A producer that never ends: every harvest gives its job back.
EndlessSpawn == (j1 :> {j1}) @@ (j2 :> {j2})
=============================================================================
