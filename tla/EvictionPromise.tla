--------------------------- MODULE EvictionPromise ---------------------------
(***************************************************************************)
(* What the eviction controller promises its caller: asked which of the    *)
(* moves on offer to make, it answers with a plan that takes no more than  *)
(* the configured number of different pods off one node, by moves of this  *)
(* offer and of none before it.  Nothing but such a plan is executed,      *)
(* once, before another offer is made, and only where eviction is enabled. *)
(*                                                                         *)
(* Modules EvictionService and Controller implement it.                    *)
(***************************************************************************)
EXTENDS Integers, Sequences

CONSTANTS
    Moves,         \* all moves of a pod off a node: records with pod and node
    Configs

VARIABLES
    config,
    offer,         \* the moves that are safe as the caller sees the cluster
    plan,          \* the answer in the caller's hands, <<>> for none
    total          \* evictions executed by this process

promise == <<config, offer, plan, total>>

\* MaxConcurrentEvictions, but one where it is configured below that.
Limit == IF config.MaxConcurrentEvictions >= 1 THEN config.MaxConcurrentEvictions ELSE 1

Bounded(p) ==
    /\ p \in Seq(Moves)
    /\ Len(p) <= Limit
    /\ \A k, l \in 1..Len(p) : p[k].node = p[l].node /\ (p[k].pod = p[l].pod => k = l)

Init ==
    /\ config \in Configs
    /\ offer = {}
    /\ plan = <<>>
    /\ total = 0

\* The caller looks at the cluster, when it has no plan in hand.
Offer ==
    /\ plan = <<>>
    /\ plan' = <<>>
    /\ offer' \in SUBSET Moves
    /\ UNCHANGED <<config, total>>

Answer ==
    /\ plan = <<>>
    /\ Bounded(plan')
    /\ \A k \in 1..Len(plan') : plan'[k] \in offer
    /\ UNCHANGED <<config, offer, total>>

Execute ==
    /\ total' = total + IF config.Enabled THEN Len(plan) ELSE 0
    /\ plan' = <<>>
    /\ UNCHANGED <<config, offer>>

Restart ==
    /\ config' \in Configs
    /\ offer' \in SUBSET Moves
    /\ plan' = <<>>
    /\ total' = 0

Next == Offer \/ Answer \/ Execute \/ Restart

Spec == Init /\ [][Next]_promise
=============================================================================
