----------------------------- MODULE Simulation -----------------------------
(***************************************************************************)
(* RunSimulation of internal/simulation/engine.go, under its mutex: the    *)
(* waterline evaluation (module WaterlinePass), the consolidation          *)
(* selection (ConsolidationSelection), a prediction per node (Prediction), *)
(* the score cache, the savings (Accounting), then snapshot and report are *)
(* saved (SnapshotStore), whatever becomes of them, and the result is      *)
(* returned.                                                               *)
(*                                                                         *)
(* Runs follow one another in one process: the controller's cycles, or the *)
(* scenarios of cmd/simulator.  The process may be killed at any point;    *)
(* what outlives it are the saved files.                                   *)
(***************************************************************************)
EXTENDS WaterlinePass, ConsolidationSelection, Prediction, Accounting, SnapshotStore

CONSTANT MaxRuns   \* bound: runs explored

ASSUME RunsAssumption == MaxRuns \in Nat

\* The collector lists the pods of each node and sums up what they request.
ASSUME CollectorAssumption ==
    \A c \in Clusters, n \in Nodes :
        LET here == {p \in Pods : c.pods[p].node = n} IN
        /\ here = ToSet(c.podsOn[n])
        /\ c.requested[n] = Requests(c.pods, here)

VARIABLES
    stage,         \* of the run
    run,           \* number of the run in progress, or of the last one
    predictions,   \* of each node
    scores,        \* the score cache: the role it holds of each node
    savings,       \* SavingsSummary
    snapshotURI,   \* of the run in progress
    returned       \* history: the snapshot addresses returned, by run

selectVars == <<step, pool, active, requested, podCount, room, held, todo,
                failed, assigned, drained, assignments, home>>
results    == <<predictions, scores, savings>>
vars == <<stage, run, passVars, selectVars, results, storeVars, snapshotURI, returned>>

Unknown   == [n \in Nodes |-> "unknown"]
NoSavings == [cents |-> 0, control |-> Nothing, treatment |-> Nothing]
Unmade    == [n \in Nodes |-> Impossible]

Init ==
    /\ InitPass
    /\ InitSelection
    /\ InitStore
    /\ stage = "idle"
    /\ run = 0
    /\ predictions = Unmade
    /\ scores = Unknown
    /\ savings = NoSavings
    /\ snapshotURI = NoAnswer
    /\ returned = {}

-----------------------------------------------------------------------------
(* A run.                                                                  *)

\* The variables of a call are those of a call about to start.
Fresh(c) ==
    /\ StartPass(c)
    /\ StartSelection(c)
    /\ predictions' = Unmade
    /\ savings' = NoSavings
    /\ snapshotURI' = NoAnswer

RunSimulation ==
    /\ stage = "idle"
    /\ run < MaxRuns
    /\ run' = run + 1
    /\ \E c \in Clusters : Fresh(c)
    /\ stage' = "evaluate"
    /\ UNCHANGED <<scores, storeVars, returned>>

(* 1. The waterline evaluation.                                            *)
EvaluateStep ==
    /\ stage = "evaluate"
    /\ Evaluate
    /\ stage' = IF pc' = "done" THEN "select" ELSE "evaluate"
    /\ UNCHANGED <<run, selectVars, results, storeVars, snapshotURI, returned>>

(* 2. The consolidation selection; its error is logged and no more.        *)
Select ==
    /\ stage = "select"
    /\ SelectionStep
    /\ stage' = IF step' = "done" THEN "predict" ELSE "select"
    /\ UNCHANGED <<run, passVars, results, storeVars, snapshotURI, returned>>

\* Mutated Predict: the headroom is asked of the floor only.
PredictFromFloor ==
    /\ stage = "predict"
    /\ predictions' =
         [n \in Nodes |-> PredictNode(cluster, n, CandidateDrainThreshold,
                                      Headroom(cluster, SubSeq(safeNodes, 1, 0)))]
    /\ stage' = "publish"
    /\ UNCHANGED <<run, passVars, selectVars, scores, savings, storeVars,
                   snapshotURI, returned>>

(* 3. A prediction for every node, eligible or not.                        *)
Predict ==
    /\ stage = "predict"
    /\ predictions' =
         [n \in Nodes |-> PredictNode(cluster, n, CandidateDrainThreshold,
                                      Headroom(cluster, safeNodes))]
    /\ stage' = "publish"
    /\ UNCHANGED <<run, passVars, selectVars, scores, savings, storeVars,
                   snapshotURI, returned>>

Listed(list, n) == \E k \in 1..Len(list) : list[k] = n

\* UpdateScores: the lists in turn, safe, candidates, neutral; other nodes keep theirs.
UpdateScores ==
    [n \in Nodes |->
        IF Listed(neutralNodes, n) THEN "neutral"
        ELSE IF Listed(candidateNodes, n) THEN "candidate"
        ELSE IF Listed(safeNodes, n) THEN "safe" ELSE scores[n]]

(* 4. to 6. The score cache is updated, the savings are summed up.         *)
Publish ==
    /\ stage = "publish"
    /\ scores' = UpdateScores
    /\ savings' = CalculateExperimentSavings(cluster, role)
    /\ stage' = "snapshot"
    /\ UNCHANGED <<run, passVars, selectVars, predictions, storeVars,
                   snapshotURI, returned>>

(* 7. The snapshot is saved, then the report, whatever became of it.       *)
SaveSnapshot ==
    /\ stage = "snapshot"
    /\ BeginSave("snapshot", run)
    /\ stage' = "saveSnapshot"
    /\ UNCHANGED <<run, passVars, selectVars, results, snapshotURI, returned>>

Save ==
    /\ stage \in {"saveSnapshot", "saveReport"}
    /\ SaveStep
    /\ UNCHANGED <<stage, run, passVars, selectVars, results, snapshotURI, returned>>

SnapshotSaved ==
    /\ stage = "saveSnapshot"
    /\ EndSave
    /\ snapshotURI' = saving.answer
    /\ stage' = "report"
    /\ UNCHANGED <<run, passVars, selectVars, results, returned>>

SaveReport ==
    /\ stage = "report"
    /\ BeginSave("report", run)
    /\ stage' = "saveReport"
    /\ UNCHANGED <<run, passVars, selectVars, results, snapshotURI, returned>>

\* Mutated Return: the run is over only when its report was saved.
ReturnIfSaved ==
    /\ stage = "saveReport"
    /\ saving.answer # NoAnswer
    /\ EndSave
    /\ returned' = returned \cup {[run |-> run, uri |-> snapshotURI]}
    /\ Fresh(cluster)
    /\ stage' = "idle"
    /\ UNCHANGED <<run, scores>>

\* Mutated Return: the report is saved in the background.
ReturnInBackground ==
    /\ stage = "saveReport"
    /\ returned' = returned \cup {[run |-> run, uri |-> snapshotURI]}
    /\ Fresh(cluster)
    /\ stage' = "idle"
    /\ UNCHANGED <<run, scores, storeVars>>

(* The caller gets the result; the run's variables are its own.            *)
Return ==
    /\ stage = "saveReport"
    /\ EndSave
    /\ returned' = returned \cup {[run |-> run, uri |-> snapshotURI]}
    /\ Fresh(cluster)
    /\ stage' = "idle"
    /\ UNCHANGED <<run, scores>>

(* The wall clock; only the store reads it, so it stands still elsewhere.  *)
Clock ==
    /\ stage \notin {"evaluate", "select", "predict", "publish"}
    /\ ClockAdvances
    /\ UNCHANGED <<stage, run, passVars, selectVars, results, snapshotURI, returned>>

(* The process is killed and started again with an empty cache.            *)
Restart ==
    /\ run > 0
    /\ Fresh(cluster)
    /\ stage' = "idle"
    /\ scores' = Unknown
    /\ CrashStore
    /\ UNCHANGED <<run, returned>>

Run ==
    \/ EvaluateStep
    \/ Select
    \/ Predict
    \/ Publish
    \/ SaveSnapshot
    \/ Save
    \/ SnapshotSaved
    \/ SaveReport
    \/ Return

Next ==
    \/ RunSimulation
    \/ Run
    \/ Clock
    \/ Restart

Spec     == Init /\ [][Next]_vars
FairSpec == Spec /\ WF_vars(Run)

-----------------------------------------------------------------------------
(* Properties.                                                             *)

Stages == {"idle", "evaluate", "select", "predict", "publish",
           "snapshot", "saveSnapshot", "report", "saveReport"}

(* Every variable keeps its type, and the store is at work only while the  *)
(* run waits for it.                                                       *)
TypeOK ==
    /\ PassTypeOK
    /\ SelectionTypeOK
    /\ StoreTypeOK
    /\ stage \in Stages
    /\ run \in 0..MaxRuns
    /\ (saving.stage # "none") <=> (stage \in {"saveSnapshot", "saveReport"})
    /\ \A n \in Nodes : predictions[n].absorbable \in BOOLEAN /\ predictions[n].candidate \in BOOLEAN
    /\ scores \in [Nodes -> {"safe", "candidate", "neutral", "unknown"}]
    /\ savings.cents \in Int
    /\ \A r \in returned : r.run \in 1..run /\ r.uri \in URIs

Oversubscribed(n) == Spare(cluster, n).cpu < 0 \/ Spare(cluster, n).mem < 0
Predicted == stage \notin {"idle", "evaluate", "select", "predict"}

(* Evaluation and estimator agree on what can move: for every drain        *)
(* candidate of the report the estimator sees no blocking pod and, unless  *)
(* a safe node is oversubscribed, verifies the replacement capacity: the   *)
(* room found pod by pod is part of the headroom summed over all nodes.    *)
CandidatesAbsorbable ==
    Predicted =>
        \A k \in 1..Len(candidateNodes) :
            LET p == predictions[candidateNodes[k]] IN
            /\ p.verdict # "blocked"
            /\ (\A l \in 1..Len(safeNodes) : ~Oversubscribed(safeNodes[l])) => p.absorbable

(* The accounts of one run agree: the experiment's savings over 24 hours   *)
(* are 24 times the report's hourly ones, up to the roundings, when no     *)
(* price is zero; both see the same waste after; and the benchmark's table *)
(* shows the report's savings where every node is eligible and every       *)
(* drained one costs the default.                                          *)
AccountsAgree ==
    stage \in {"snapshot", "saveSnapshot", "report", "saveReport"} =>
        LET hourly == PotentialHourlySavings(cluster, role)
            off == 10 * savings.cents - 24 * hourly
        IN  /\ (\A n \in Nodes : HourlyCost[n] > 0 \/ Price[n] # 0) => off \in -29..29
            /\ savings.treatment = CalculateProjectedWaste(cluster, candidateNodes)
            /\ cluster.eligible = Nodes
               /\ (\A n \in Nodes : role[n] = "candidate" => NodeCost(n) = DefaultPrice) =>
                   BenchmarkHourlySavings(safeNodes, neutralNodes) = hourly

(* A file address a run returned loads that run's snapshot, whatever save  *)
(* fails or is killed later, until another save of the same second opens   *)
(* the file.                                                               *)
SnapshotsLast ==
    \A r \in returned :
        r.uri.scheme = "file" /\ opened["snapshot"][r.uri.at] = r.run => Loads(r.uri, r.run)

(* Every run returns, unless the process is killed over and over: no       *)
(* failure of the store keeps it.                                          *)
RunsReturn == []<>(stage = "idle") \/ []<><<Restart>>_vars
=============================================================================
