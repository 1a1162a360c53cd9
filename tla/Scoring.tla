------------------------------- MODULE Scoring -------------------------------
(***************************************************************************)
(* The scheduler plugin's arithmetic, internal/scheduler/plugin.go: what a *)
(* cached verdict on a node is worth, and which of several nodes wins.     *)
(* Safety scores are whole points, 0..100; ScoreNode rounds half up.       *)
(***************************************************************************)
EXTENDS Integers, Sequences

MinNodeScore == 0
MaxNodeScore == 100

Entries == [role : {"safe", "candidate", "neutral"}, safety : 0..100]

\* What GetNodeScore answers for a node it has no entry of.
Uncached == [role |-> "uncached", safety |-> 50]

AtMost(bound, x)  == IF x > bound THEN bound ELSE x
AtLeast(bound, x) == IF x < bound THEN bound ELSE x

\* Mutated ScoreNode: the candidate's 0.15 is applied as 15.
ScoreNodeUnscaled(e) ==
    IF e.role = "candidate" THEN AtLeast(MinNodeScore, 15 * e.safety) ELSE e.safety

(* Plugin.ScoreNode: 70..100 for a safe node, 0..15 for a drain candidate, *)
(* the safety score itself for the others, 50 when nothing is known.       *)
ScoreNode(e) ==
    CASE e.role = "safe"      -> AtMost(MaxNodeScore, (7000 + 30 * e.safety + 50) \div 100)
      [] e.role = "candidate" -> AtLeast(MinNodeScore, (15 * e.safety + 50) \div 100)
      [] e.role = "neutral"   -> e.safety
      [] e.role = "uncached"  -> 50

NormalizeScore(s) == AtMost(MaxNodeScore, AtLeast(MinNodeScore, s))

(* Of the nodes at the positions K of list, the k-th wins under score: the *)
(* first of the best.                                                      *)
Wins(list, K, score, k) ==
    /\ k \in K
    /\ \A l \in K :
         \/ score[list[l]] < score[list[k]]
         \/ score[list[l]] = score[list[k]] /\ k <= l
=============================================================================
