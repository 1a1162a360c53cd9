---------------------------- MODULE MCScoreCache ----------------------------
(***************************************************************************)
(* Three nodes, and the verdicts that bring the roles closest together: a  *)
(* safe node with the lowest safety score there is (the floor is safe      *)
(* whatever its score), a candidate just at the drain threshold, and a     *)
(* neutral node with next to nothing on it, which by its own score would   *)
(* come below that candidate.                                              *)
(* No definition prefers one node over another: the nodes are symmetric.   *)
(***************************************************************************)
EXTENDS ScoreCache, TLC

MCVerdicts == {[role |-> "safe", safety |-> 0], [role |-> "candidate", safety |-> 60],
               [role |-> "neutral", safety |-> 5]}

NodeSymmetry == Permutations(Nodes)
=============================================================================
