-------------------------------- MODULE Cycle --------------------------------
(***************************************************************************)
(* What the evaluation of a snapshot and the consolidation selection both  *)
(* work from: the snapshots the collector may deliver, and the threshold.  *)
(***************************************************************************)
EXTENDS Sampled

CONSTANTS
    Clusters,                 \* the snapshots a cycle may be given
    CandidateDrainThreshold   \* percent

ASSUME CycleAssumption ==
    /\ Clusters \subseteq Snapshots
    /\ \A c \in Clusters : IsFiniteSet(c.eligible)
    /\ CandidateDrainThreshold \in Nat
=============================================================================
