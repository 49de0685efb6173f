----------------------------- MODULE Deployment -----------------------------
(***************************************************************************)
(* A release: migrators work on the database, and the supervisor starts a  *)
(* service once a migrator has ended with 0 (compose.yaml: depends_on      *)
(* migrate: service_completed_successfully).                               *)
(*                                                                         *)
(* A running service and a migrator share nothing else here, so the order  *)
(* of their steps does not matter: the service is started when no migrator *)
(* is under way, and migrators pause from then on.                         *)
(***************************************************************************)
EXTENDS Migrator, ServiceLifecycle

vars == <<migratorVars, lifecycleVars>>

Init == MigratorInit /\ LifecycleInit

\* A migrator has succeeded and none is under way.
Migrated ==
    /\ \E m \in Migrators : step[m] = "done"
    /\ \A m \in Migrators : step[m] \in {"done", "failed"}
    /\ lock = NoOne

StartService == Migrated /\ Bootstrap

Next ==
    \/ MigratorNext /\ config = NotLoaded /\ UNCHANGED lifecycleVars
    \/ StartService /\ UNCHANGED migratorVars
    \/ LifecycleNext /\ UNCHANGED migratorVars

Spec == Init /\ [][Next]_vars

\* A started service is started again as soon as the supervisor gets to it.
FairSpec ==
    /\ Spec
    /\ LifecycleFairness
    /\ WF_lifecycleVars(StartService)

-----------------------------------------------------------------------------
(* Properties.                                                             *)

\* A service that read its configuration finds in the database every migration
\* of a directory that was migrated to the end.
StartsOnSchema ==
    config # NotLoaded =>
        \E m \in Migrators : SQLFiles(m) # {} /\ {Row(f) : f \in SQLFiles(m)} \subseteq recorded
=============================================================================
