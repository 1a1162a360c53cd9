---------------------------- MODULE MCCordoning ----------------------------
(***************************************************************************)
(* Three nodes; a report may call each a safe node, a candidate just at    *)
(* the drain threshold, or neutral.                                        *)
(***************************************************************************)
EXTENDS Cordoning

MCVerdicts == {[role |-> "safe", safety |-> 80], [role |-> "candidate", safety |-> 60],
               [role |-> "neutral", safety |-> 70]}
=============================================================================
