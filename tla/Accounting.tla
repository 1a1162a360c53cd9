----------------------------- MODULE Accounting -----------------------------
(***************************************************************************)
(* Three accounts of the same consolidation: the waterline report's (end   *)
(* of Evaluate in internal/waterline/waterline.go), the experiment's       *)
(* (internal/cost/calculator.go, called by RunSimulation) and the          *)
(* benchmark table's (cmd/simulator/main.go).                              *)
(*                                                                         *)
(* Prices are in ten-thousandths of a dollar per hour, as fine as any the  *)
(* price table holds; reports round to mills (1/1000), summaries to cents. *)
(***************************************************************************)
EXTENDS Cluster

CONSTANTS
    HourlyCost,     \* of each node, 0 where the snapshot does not say
    Price,          \* of each node's instance type, or Unlisted
    Unlisted,
    DefaultPrice,
    Used            \* what the pods on each node use, summed

ASSUME AccountingAssumption ==
    /\ HourlyCost \in [Nodes -> Nat]
    /\ Price \in [Nodes -> Nat \cup {Unlisted}]
    /\ Unlisted \notin Nat
    /\ DefaultPrice \in Nat
    /\ Used \in [Nodes -> Quantities]

\* a / b to the nearest integer, half up.
Rounded(a, b) == (2 * a + b) \div (2 * b)
Mills(price) == Rounded(price, 10)

\* The sum of value(n) over the nodes of S.
Sum(value(_), S) == Total([n \in Nodes |-> value(n)], S)

-----------------------------------------------------------------------------
(* What a node costs: the report falls back to the default for a listed    *)
(* price of zero, the calculator does not.                                 *)

EvaluatedCost(n) ==
    IF HourlyCost[n] > 0 THEN HourlyCost[n]
    ELSE IF Price[n] # Unlisted /\ Price[n] > 0 THEN Price[n]
    ELSE DefaultPrice

CalculateNodeCost(n) == IF Price[n] # Unlisted THEN Price[n] ELSE DefaultPrice

NodeCost(n) == IF HourlyCost[n] > 0 THEN HourlyCost[n] ELSE CalculateNodeCost(n)

CalculateClusterHourlyCost(S) == Mills(Sum(NodeCost, S))

-----------------------------------------------------------------------------
(* Waste: the requested share of each resource nobody uses, in hundredths  *)
(* of a percent.  The structural share of the calculator is left out.      *)

WasteShare(requested, used) ==
    IF requested > 0 /\ requested > used THEN Rounded(10000 * (requested - used), requested) ELSE 0

\* Of the nodes S, as calculateWaste and the calculator's CalculateWaste sum it.
CalculateWaste(c, S) ==
    [cpu |-> WasteShare(Sum(LAMBDA n : c.requested[n].cpu, S), Sum(LAMBDA n : Used[n].cpu, S)),
     mem |-> WasteShare(Sum(LAMBDA n : c.requested[n].mem, S), Sum(LAMBDA n : Used[n].mem, S))]

\* calculateProjectedWaste: without the nodes the report drains.
CalculateProjectedWaste(c, candidateNodes) ==
    CalculateWaste(c, Nodes \ {candidateNodes[k] : k \in 1..Len(candidateNodes)})

-----------------------------------------------------------------------------
(* The accounts.                                                           *)

\* PotentialHourlySavings of the report, in mills.
PotentialHourlySavings(c, role) ==
    LET projected == {n \in c.eligible : role[n] # "candidate"}
    IN  Mills(Sum(EvaluatedCost, c.eligible) - Sum(EvaluatedCost, projected))

\* Mutated TreatmentNodes: the nodes the report keeps.
KeptNodes(role) == {n \in Nodes : role[n] \in {"safe", "neutral"}}

\* The treatment group of RunSimulation; the control group is every node.
TreatmentNodes(role) == {n \in Nodes : role[n] # "candidate"}

(* CalculateExperimentSavings over 24 hours: savings in cents.             *)
CalculateExperimentSavings(c, role) ==
    [cents     |-> Rounded(24 * (CalculateClusterHourlyCost(Nodes)
                                 - CalculateClusterHourlyCost(TreatmentNodes(role))), 10),
     control   |-> CalculateWaste(c, Nodes),
     treatment |-> CalculateWaste(c, TreatmentNodes(role))]

\* HourlySavings of the benchmark table, in mills: nodes counted, at the default price.
BenchmarkHourlySavings(safeNodes, neutralNodes) ==
    Mills((Cardinality(Nodes) - (Len(safeNodes) + Len(neutralNodes))) * DefaultPrice)
=============================================================================
