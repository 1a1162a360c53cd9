---------------------------- MODULE MCReconciler ----------------------------
(***************************************************************************)
(* Two replicas, a node that comes and goes listed before one that stays,  *)
(* and three pods: one labelled for the control group in a treatment       *)
(* namespace, one of the treatment group, one that names the scheduler     *)
(* itself, the only one served by the API server.                          *)
(***************************************************************************)
EXTENDS SchedulerReconciler

CONSTANTS flapping, stable, control, treatment, named

MCNodeOrder == <<flapping, stable>>
MCPodOrder  == <<control, treatment, named>>

MCRequest ==
    [p \in {control, treatment, named} |->
        [label     |-> IF p = control THEN "control" ELSE IF p = named THEN "other" ELSE "",
         words     |-> IF p = named THEN {} ELSE {"treatment"},
         scheduler |-> IF p = named THEN Predictive ELSE ""]]
=============================================================================
