---------------------------- MODULE ClusterStatus ----------------------------
(***************************************************************************)
(* The cluster state machine of api/internal/clusters/statemachine.go, and *)
(* the two status sets by which the DELETE handler classifies a cluster    *)
(* (api/internal/clusters/handlers.go).  The module has no state: it is    *)
(* the vocabulary that every other module uses to speak of a cluster row.  *)
(***************************************************************************)

Status == {"pending", "initializing", "initialized", "deploying", "ready",
           "upgrading", "degraded", "destroying", "destroyed", "error"}

\* The transition table.  A status may also be "changed" to itself.
Allowed ==
    [ pending      |-> {"initializing"},
      initializing |-> {"initialized", "error"},
      initialized  |-> {"initializing", "deploying"},
      deploying    |-> {"ready", "error"},
      ready        |-> {"upgrading", "destroying", "degraded"},
      upgrading    |-> {"ready", "error"},
      degraded     |-> {"deploying", "destroying"},
      destroying   |-> {"destroyed", "error"},
      destroyed    |-> {"initializing", "deploying"},
      error        |-> {"initializing", "deploying", "destroying"} ]

CanTransition(from, to) == from = to \/ to \in Allowed[from]

\* Statuses in which DELETE drops the row at once, and those in which it
\* needs cascade=destroy and goes through the executor.
DirectDeletable  == {"pending", "initialized", "destroyed", "error"}
CascadeDeletable == {"ready", "degraded"}

\* Statuses that mean "an executor goroutine is at work on this cluster".
InFlightStatus == {"deploying", "destroying", "upgrading"}
==============================================================================
