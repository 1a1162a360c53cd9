------------------------------ MODULE Cordoning ------------------------------
(***************************************************************************)
(* Nodes are cordoned while the score cache is in use: the nodes a report  *)
(* names are those that are Schedulable when it is made, and a cordoned    *)
(* node, which stays Ready, is still among the nodes an evaluation is      *)
(* asked about.  Reports arrive between two evaluations; module ScoreCache *)
(* has those that arrive during one.                                       *)
(***************************************************************************)
EXTENDS ScoreCache

VARIABLES
    cordoned,      \* nodes with spec.unschedulable
    withdrawn      \* history: nodes scored by an earlier report, left out of the last one

allVars == <<vars, cordoned, withdrawn>>

CordoningInit ==
    /\ Init
    /\ cordoned = {}
    /\ withdrawn = {}

\* A node is cordoned, as the autoscaler does before it scales the node down.
Cordon(n) ==
    /\ n \notin cordoned
    /\ cordoned' = cordoned \cup {n}
    /\ UNCHANGED <<vars, withdrawn>>

\* A report on the schedulable nodes reaches the cache.
Report ==
    /\ stage = "idle"
    /\ \E report \in Reports :
         /\ \A n \in Nodes : report[n] = Absent <=> n \in cordoned
         /\ UpdateScores(report)
    /\ withdrawn' = {n \in cordoned : cache[n] # Uncached}
    /\ UNCHANGED <<updates, cordoned>>

CordoningNext ==
    \/ \E n \in Nodes : Cordon(n)
    \/ Report
    \/ Evaluate /\ UNCHANGED <<cordoned, withdrawn>>

CordoningSpec == CordoningInit /\ [][CordoningNext]_allVars

-----------------------------------------------------------------------------
(* Properties.                                                             *)

(* "Taint Awareness: KubeForecast monitors node.kubernetes.io/             *)
(* unschedulable [...] taints, instantly dropping node score to 0": a node *)
(* whose cordon the last report has seen scores nothing in an evaluation.  *)
CordonedScoresZero ==
    stage = "pick" => \A n \in Listed \cap withdrawn : raw[n] = 0
=============================================================================
