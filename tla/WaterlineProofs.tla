--------------------------- MODULE WaterlineProofs ---------------------------
(***************************************************************************)
(* What module Waterline, evaluating a snapshot again and again,           *)
(* guarantees for every cluster, floor, threshold and set of weights.      *)
(* The invariant and its steps are those of module PassProofs; what is     *)
(* added here is that the loop takes no other step.                        *)
(***************************************************************************)
EXTENDS Waterline, PassProofs

PreviousTyped ==
    previous \in [safe : Seq(Nodes), candidates : Seq(Nodes), neutral : Seq(Nodes)]

LoopInv == PassInv /\ PreviousTyped

LEMMA LoopGivesTypes == LoopInv => TypeOK
BY PassInvGives DEF LoopInv, PreviousTyped, TypeOK

\* A step of the loop is a step of the pass or starts one on a snapshot.
LEMMA LoopTakesPassSteps ==
    ASSUME LoopInv, [Next]_vars
    PROVE  [PassNext]_passVars
<1>1. CASE Pass
  BY <1>1 DEF Pass, PassNext
<1>2. CASE EvaluateAgain
  <2>1. cluster \in Clusters
    BY LoopGivesTypes DEF TypeOK, PassTypeOK
  <2> QED
    BY <1>2, <2>1 DEF EvaluateAgain, PassNext, StartAnew
<1>3. CASE UNCHANGED vars
  BY <1>3 DEF vars
<1> QED
  BY <1>1, <1>2, <1>3 DEF Next

LEMMA LoopInit == Init => LoopInv
<1> SUFFICES ASSUME Init PROVE LoopInv
  OBVIOUS
<1>1. PassInv
  BY PassInvInit DEF Init
<1>2. <<>> \in Seq(Nodes)
  OBVIOUS
<1> QED
  BY <1>1, <1>2 DEF Init, LoopInv, PreviousTyped, NoReport

LEMMA LoopStep == LoopInv /\ [Next]_vars => LoopInv'
<1> SUFFICES ASSUME LoopInv, [Next]_vars PROVE LoopInv'
  OBVIOUS
<1>1. PassInv'
  BY LoopTakesPassSteps, PassInvStep DEF LoopInv
<1>2. CASE EvaluateAgain
  <2>1. safeNodes \in Seq(Nodes) /\ candidateNodes \in Seq(Nodes) /\ neutralNodes \in Seq(Nodes)
    BY LoopGivesTypes DEF TypeOK, PassTypeOK
  <2>2. PreviousTyped'
    BY <1>2, <2>1 DEF EvaluateAgain, Report, PreviousTyped
  <2> QED
    BY <1>1, <2>2 DEF LoopInv
<1>3. CASE previous' = previous
  BY <1>1, <1>3 DEF LoopInv, PreviousTyped
<1> QED
  BY <1>2, <1>3 DEF Next, Pass, vars

LEMMA LoopCorrect == Spec => []LoopInv
BY LoopInit, LoopStep, PTL DEF Spec

(* Every pass over every cluster keeps its state well typed: the scores    *)
(* stay within 0..100 points, the index on the sorted list, and nothing    *)
(* but nodes and pods of the snapshot enters the report.                   *)
THEOREM TypeCorrect == Spec => []TypeOK
<1> QED
  BY LoopGivesTypes, LoopCorrect, PTL

(* Whatever the snapshot, the weights and the order of equal nodes: all    *)
(* that the candidates of a report together move onto a safe node fits     *)
(* there, next to what the node runs, at every moment of the pass.         *)
THEOREM CapacityCorrect == Spec => []CapacityRespected
<1>1. LoopInv => CapacityRespected
  BY PassInvGives DEF LoopInv
<1> QED
  BY <1>1, LoopCorrect, PTL

(* As many nodes as the floor asks for, or all, are safe in the end, and   *)
(* no node outside the floor is safer than one in it.                      *)
THEOREM FloorCorrect == Spec => []FloorIsSafest
<1>1. LoopInv => FloorIsSafest
  BY PassInvGives DEF LoopInv
<1> QED
  BY <1>1, LoopCorrect, PTL

(* The finished report names every eligible node once, and the role a node *)
(* carries is the list it is on.                                           *)
THEOREM ReportComplete == Spec => []ReportPartitionsEligible
<1>1. LoopInv => ReportPartitionsEligible
  BY PassInvGives DEF LoopInv
<1> QED
  BY <1>1, LoopCorrect, PTL

(* Outside of deductFit, every pod of every candidate has a home on a node *)
(* that is safe: whatever testFit found room for, deductFit placed.        *)
THEOREM DrainComplete == Spec => []CandidatesDrainCompletely
<1>1. LoopInv => CandidatesDrainCompletely
  BY PassInvGives DEF LoopInv
<1> QED
  BY <1>1, LoopCorrect, PTL

-----------------------------------------------------------------------------
(* Determinism.  Once the nodes are sorted, the rest of a pass is a walk   *)
(* over scans: what the code reads and writes from there on, without the   *)
(* roles and the history it only writes.  A scan is reached if it is in    *)
(* every set that has the start and is closed under the next scan; so no   *)
(* number of steps has to be spoken of.                                    *)
Scans == [at : Steps, i : Nat, j : Nat,
          remaining : [Nodes -> Balance], working : [Nodes -> Balance],
          safe : Seq(Nodes), candidates : Seq(Nodes), neutral : Seq(Nodes)]

Scan == [at |-> pc, i |-> i, j |-> j, remaining |-> remaining, working |-> working,
         safe |-> safeNodes, candidates |-> candidateNodes, neutral |-> neutralNodes]

Start == [at |-> "floor", i |-> 1, j |-> 1,
          remaining |-> [n \in Nodes |-> Nothing], working |-> [n \in Nodes |-> Nothing],
          safe |-> <<>>, candidates |-> <<>>, neutral |-> <<>>]

DrainScores(c)  == [n \in Nodes |-> IF n \in c.eligible THEN ScoreNode(c, n).drain ELSE 0]
SafetyScores(c) == [n \in Nodes |-> IF n \in c.eligible THEN ScoreNode(c, n).safety ELSE 0]
Orders(c)       == SortedOrders(c.eligible, SafetyScores(c))

\* What becomes of scan s when node n joins the safe list.
Offered(c, s, n) ==
    [s EXCEPT !.safe = Append(s.safe, n),
              !.remaining = [s.remaining EXCEPT ![n] = Spare(c, n)]]

\* The rest of a room once pod has taken its first fit, and whether it found one.
Finds(s, room, pod)   == \E k \in 1..Len(s.safe) : Fits(room[s.safe[k]], pod)
IsFirst(s, room, pod, k) ==
    /\ Fits(room[s.safe[k]], pod)
    /\ \A l \in 1..(k - 1) : ~Fits(room[s.safe[l]], pod)
Reduced(s, room, pod) ==
    LET first == CHOOSE k \in 1..Len(s.safe) : IsFirst(s, room, pod, k)
    IN  [room EXCEPT ![s.safe[first]] = Minus(@, pod)]

\* The next scan, for each place in the pass.
FromFloor(c, L, s) ==
    IF s.i <= MinOf(MinNodesFloor, Len(L))
    THEN [Offered(c, s, L[s.i]) EXCEPT !.i = s.i + 1]
    ELSE [s EXCEPT !.at = "node"]
Suits(c, n) ==
    /\ \A k \in 1..Len(c.podsOn[n]) : c.pods[c.podsOn[n][k]].movable
    /\ DrainScores(c)[n] >= CandidateDrainThreshold * 100
FromNode(c, L, s) ==
    IF s.i <= Len(L)
    THEN [s EXCEPT !.at = IF Suits(c, L[s.i]) THEN "testFit" ELSE "keep",
                   !.working = s.remaining, !.j = 1]
    ELSE [s EXCEPT !.at = "done"]
FromTestFit(c, L, s) ==
    LET pods == c.podsOn[L[s.i]]
        pod  == c.pods[pods[s.j]]
    IN  IF s.j > Len(pods)
        THEN [s EXCEPT !.at = "deductFit", !.j = 1, !.candidates = Append(s.candidates, L[s.i])]
        ELSE IF Finds(s, s.working, pod)
             THEN [s EXCEPT !.working = Reduced(s, s.working, pod), !.j = s.j + 1]
             ELSE [s EXCEPT !.at = "keep"]
FromDeductFit(c, L, s) ==
    LET pods == c.podsOn[L[s.i]]
        pod  == c.pods[pods[s.j]]
    IN  IF s.j > Len(pods)
        THEN [s EXCEPT !.at = "node", !.i = s.i + 1]
        ELSE IF Finds(s, s.remaining, pod)
             THEN [s EXCEPT !.remaining = Reduced(s, s.remaining, pod), !.j = s.j + 1]
             ELSE [s EXCEPT !.j = s.j + 1]
FromKeep(c, L, s) ==
    IF SafetyScores(c)[L[s.i]] > 5000
    THEN [Offered(c, s, L[s.i]) EXCEPT !.at = "node", !.i = s.i + 1]
    ELSE [s EXCEPT !.at = "node", !.i = s.i + 1, !.neutral = Append(s.neutral, L[s.i])]

Advance(c, L, s) ==
    CASE s.at = "floor"     -> FromFloor(c, L, s)
      [] s.at = "node"      -> FromNode(c, L, s)
      [] s.at = "testFit"   -> FromTestFit(c, L, s)
      [] s.at = "deductFit" -> FromDeductFit(c, L, s)
      [] s.at = "keep"      -> FromKeep(c, L, s)

Closed(c, L, X) ==
    \A s \in X : s.at # "done" /\ Advance(c, L, s) \in Scans => Advance(c, L, s) \in X

Reached(c, L, s) == \A X \in SUBSET Scans : Start \in X /\ Closed(c, L, X) => s \in X

ReportOf(s) == [safe |-> s.safe, candidates |-> s.candidates, neutral |-> s.neutral]

ScannedInv ==
    /\ pc = "score" => Scan = [Start EXCEPT !.at = "score"]
    /\ pc # "score" =>
         /\ drainScore = DrainScores(cluster) /\ safetyScore = SafetyScores(cluster)
         /\ scoredList \in Orders(cluster)
         /\ Reached(cluster, scoredList, Scan)

PreviousInv ==
    previous # NoReport =>
        \E L \in Orders(cluster), s \in Scans :
            s.at = "done" /\ Reached(cluster, L, s) /\ previous = ReportOf(s)

\* A walk has one end: what leads to one end leads to no other.
LEMMA OneEnd ==
    ASSUME NEW c, NEW L, NEW a \in Scans, NEW b \in Scans, a.at = "done", b.at = "done",
           Reached(c, L, a), Reached(c, L, b), Start \in Scans
    PROVE  a = b
<1> DEFINE LeadsToA(s) == \A Y \in SUBSET Scans : s \in Y /\ Closed(c, L, Y) => a \in Y
           X == {s \in Scans : LeadsToA(s)}
<1>1. Start \in X
  BY DEF Reached
<1>2. Closed(c, L, X)
  <2> SUFFICES ASSUME NEW s \in X, s.at # "done", Advance(c, L, s) \in Scans,
                      NEW Y \in SUBSET Scans, Advance(c, L, s) \in Y, Closed(c, L, Y)
               PROVE  a \in Y
    BY DEF Closed
  <2>1. Closed(c, L, Y \cup {s})
    BY DEF Closed
  <2>2. Y \cup {s} \in SUBSET Scans
    OBVIOUS
  <2>3. a \in Y \cup {s}
    BY <2>1, <2>2
  <2> QED
    BY <2>3
<1>3. LeadsToA(b)
  <2> HIDE DEF LeadsToA
  <2> QED
    BY <1>1, <1>2 DEF Reached
<1>4. Closed(c, L, {b})
  BY DEF Closed
<1> QED
  BY <1>3, <1>4

LEMMA ReachedOn ==
    ASSUME NEW c, NEW L, NEW s \in Scans, Reached(c, L, s), s.at # "done",
           Advance(c, L, s) \in Scans
    PROVE  Reached(c, L, Advance(c, L, s))
BY DEF Reached, Closed

LEMMA ScanTyped == PassTypeInv => Scan \in Scans
<1> SUFFICES ASSUME PassTypeInv PROVE Scan \in Scans
  OBVIOUS
<1>1. /\ pc \in Steps /\ i \in Nat /\ j \in Nat
      /\ remaining \in [Nodes -> Balance] /\ working \in [Nodes -> Balance]
      /\ safeNodes \in Seq(Nodes) /\ candidateNodes \in Seq(Nodes) /\ neutralNodes \in Seq(Nodes)
  BY DEF PassTypeInv, PassTypeOK
<1> QED
  BY <1>1 DEF Scan, Scans

LEMMA StartTyped == Start \in Scans
<1>1. [n \in Nodes |-> Nothing] \in [Nodes -> Balance]
  BY DEF Nothing, Balance
<1>2. <<>> \in Seq(Nodes)
  OBVIOUS
<1> QED
  BY <1>1, <1>2 DEF Start, Scans, Steps

\* Without ties there is one order: at the first difference each would be the safer.
LEMMA OneOrder ==
    ASSUME NEW S \in SUBSET Nodes, NEW score \in [Nodes -> Int],
           \A m, n \in S : m # n => score[m] # score[n],
           NEW L \in SortedOrders(S, score), NEW M \in SortedOrders(S, score)
    PROVE  L = M
<1>1. IsFiniteSet(S) /\ Cardinality(S) \in Nat
  BY ClusterAssumption, FS_Subset, FS_CardinalityType
<1> DEFINE D == 1..Cardinality(S)
           T == {k \in D : L[k] # M[k]}
<1>2. L \in [D -> S] /\ M \in [D -> S]
  BY DEF SortedOrders
<1>3. Len(L) = Cardinality(S) /\ Len(M) = Cardinality(S)
  BY SortedOrdersComplete
<1>4. SUFFICES ASSUME T # {} PROVE FALSE
  <2>1. T = {} => \A k \in D : L[k] = M[k]
    OBVIOUS
  <2> HIDE DEF D, T
  <2>2. (\A k \in D : L[k] = M[k]) => L = M
    BY <1>2
  <2> QED
    BY <2>1, <2>2
<1>5. PICK k \in T : \A l \in T : k <= l
  <2>1. T \subseteq Nat
    BY <1>1
  <2> HIDE DEF T
  <2> QED
    BY <1>4, <2>1, LeastNumber
<1>6. /\ L[k] \in S /\ M[k] \in S /\ L[k] # M[k]
      /\ score[L[k]] \in Int /\ score[M[k]] \in Int
  BY <1>2
<1>7. ASSUME NEW A \in SortedOrders(S, score), NEW B \in SortedOrders(S, score),
             \A l \in D : l < k => A[l] = B[l], A[k] # B[k]
      PROVE  score[A[k]] >= score[B[k]]
  <2>1. {A[l] : l \in 1..Len(A)} = S /\ Len(A) = Cardinality(S) /\ B \in [D -> S]
    <3>1. {A[l] : l \in 1..Len(A)} = S /\ Len(A) = Cardinality(S)
      BY SortedOrdersComplete
    <3>2. B \in [D -> S]
      BY DEF SortedOrders
    <3> QED
      BY <3>1, <3>2
  <2>2. PICK l \in D : A[l] = B[k]
    BY <2>1
  <2>3. ~(l < k)
    <3> SUFFICES ASSUME l < k PROVE FALSE
      OBVIOUS
    <3>1. B[l] = B[k]
      BY <1>7, <2>2
    <3>2. Len(B) = Cardinality(S)
      BY SortedOrdersComplete
    <3>3. \A a, b \in 1..Len(B) : a # b => B[a] # B[b]
      BY SortedOrdersInjective
    <3> QED
      BY <3>1, <3>2, <3>3
  <2>4. k < l
    BY <1>1, <1>7, <2>2, <2>3
  <2>5. \A a, b \in 1..Len(A) : a < b => score[A[a]] >= score[A[b]]
    BY SortedOrdersComplete
  <2> QED
    BY <2>1, <2>2, <2>4, <2>5
<1>8. \A l \in D : l < k => L[l] = M[l]
  <2> SUFFICES ASSUME NEW l \in D, l < k, L[l] # M[l] PROVE FALSE
    OBVIOUS
  <2>1. l \in T
    OBVIOUS
  <2>2. k <= l /\ k \in Int /\ l \in Int
    BY <1>5, <2>1
  <2> QED
    BY <2>2
<1>9. score[L[k]] >= score[M[k]] /\ score[M[k]] >= score[L[k]]
  BY <1>6, <1>7, <1>8
<1> QED
  BY <1>6, <1>9

\* A pod's first fit is what TakesFirst says it is.
LEMMA ReducedFirst ==
    ASSUME PassTypeInv, NEW room, NEW pod, NEW k \in 1..Len(safeNodes), TakesFirst(room, pod, k)
    PROVE  /\ Finds(Scan, room, pod)
           /\ Reduced(Scan, room, pod) = [room EXCEPT ![safeNodes[k]] = Minus(@, pod)]
<1>1. Scan.safe = safeNodes /\ Len(safeNodes) \in Nat
  BY DEF Scan, PassTypeInv, PassTypeOK
<1>2. \A l \in 1..Len(safeNodes) : IsFirst(Scan, room, pod, l) <=> TakesFirst(room, pod, l)
  BY <1>1 DEF IsFirst, TakesFirst
<1>3. \A l \in 1..Len(safeNodes) : IsFirst(Scan, room, pod, l) => l = k
  BY <1>1, <1>2, OneFirst
<1>4. (CHOOSE l \in 1..Len(Scan.safe) : IsFirst(Scan, room, pod, l)) = k
  BY <1>1, <1>2, <1>3
<1> QED
  BY <1>1, <1>4 DEF Reduced, Finds, TakesFirst

LEMMA NobodyFinds ==
    ASSUME NEW room, NEW pod, NobodyTakes(room, pod)
    PROVE  ~Finds(Scan, room, pod)
BY DEF NobodyTakes, Finds, Scan

\* After the sorting, every step of a pass is the next scan.
LEMMA StepAdvances ==
    ASSUME PassInv, Evaluate, pc # "score",
           drainScore = DrainScores(cluster), safetyScore = SafetyScores(cluster)
    PROVE  Scan' = Advance(cluster, scoredList, Scan)
<1>t. /\ PassTypeInv /\ scoredList \in Seq(Nodes) /\ Len(scoredList) \in Nat
      /\ i \in 1..(Len(scoredList) + 1) /\ j \in Nat
      /\ remaining \in [Nodes -> Balance] /\ working \in [Nodes -> Balance]
  BY DEF PassInv, DrainInv, ReportInv, CapInv, PassTypeInv, PassTypeOK
<1>s. /\ Scan.at = pc /\ Scan.i = i /\ Scan.j = j /\ Scan.remaining = remaining
      /\ Scan.working = working /\ Scan.safe = safeNodes
      /\ Scan.candidates = candidateNodes /\ Scan.neutral = neutralNodes
  BY DEF Scan
<1>1. CASE DesignateFloor
  <2>1. Advance(cluster, scoredList, Scan) = FromFloor(cluster, scoredList, Scan)
    BY <1>1, <1>s DEF DesignateFloor, Advance
  <2>2. FromFloor(cluster, scoredList, Scan) =
           [Offered(cluster, Scan, scoredList[i]) EXCEPT !.i = i + 1]
    BY <1>1, <1>s DEF DesignateFloor, FromFloor, FloorCount
  <2> QED
    BY <1>1, <2>1, <2>2 DEF DesignateFloor, AddSafe, Offered, Scan
<1>2. CASE FloorDone
  <2>1. Advance(cluster, scoredList, Scan) = FromFloor(cluster, scoredList, Scan)
    BY <1>2, <1>s DEF FloorDone, Advance
  <2>2. ~(i <= MinOf(MinNodesFloor, Len(scoredList)))
    BY <1>2, <1>t, WaterlineAssumption DEF FloorDone, FloorCount, MinOf
  <2> QED
    BY <1>2, <2>1, <2>2, <1>s DEF FloorDone, FromFloor, lists, Scan
<1>3. CASE ConsiderNode
  <2>1. Advance(cluster, scoredList, Scan) = FromNode(cluster, scoredList, Scan)
    BY <1>3, <1>s DEF ConsiderNode, Advance
  <2>2. Drainable(scoredList[i]) = Suits(cluster, scoredList[i])
    BY DEF Drainable, HasUnmovable, PodAt, PodsOn, Suits
  <2> QED
    BY <1>3, <2>1, <2>2, <1>s DEF ConsiderNode, FromNode, lists, Scan
<1>4. CASE TestFitPod
  <2> DEFINE pod == PodAt(Candidate, j)
  <2>1. Advance(cluster, scoredList, Scan) = FromTestFit(cluster, scoredList, Scan)
    BY <1>4, <1>s DEF TestFitPod, Advance
  <2>2. FromTestFit(cluster, scoredList, Scan) =
           IF Finds(Scan, working, pod)
           THEN [Scan EXCEPT !.working = Reduced(Scan, working, pod), !.j = j + 1]
           ELSE [Scan EXCEPT !.at = "keep"]
    <3>1. ~(j > Len(cluster.podsOn[scoredList[i]]))
      <4>1. Len(PodsOn(Candidate)) \in Nat
        BY <1>4, <1>t, CandidateTyped DEF TestFitPod, PassTypeInv, IndexInv
      <4> QED
        BY <1>4, <1>t, <4>1 DEF TestFitPod, MorePods, PodsOn, Candidate
    <3> QED
      BY <1>s, <3>1 DEF FromTestFit, PodAt, PodsOn, Candidate
  <2> HIDE DEF pod
  <2>3. ASSUME NEW k \in 1..Len(safeNodes), TakesFirst(working, pod, k),
               working' = [working EXCEPT ![safeNodes[k]] = Minus(@, pod)], j' = j + 1, pc' = pc
        PROVE  Scan' = Advance(cluster, scoredList, Scan)
    <3>1. Finds(Scan, working, pod) /\ Reduced(Scan, working, pod) = working'
      BY <1>t, <2>3, ReducedFirst
    <3>2. Advance(cluster, scoredList, Scan) = [Scan EXCEPT !.working = working', !.j = j + 1]
      BY <2>1, <2>2, <3>1
    <3> QED
      BY <1>4, <2>3, <3>2 DEF TestFitPod, lists, Scan
  <2>4. ASSUME NobodyTakes(working, pod), pc' = "keep", UNCHANGED <<j, working>>
        PROVE  Scan' = Advance(cluster, scoredList, Scan)
    BY <1>4, <2>1, <2>2, <2>4, NobodyFinds DEF TestFitPod, lists, Scan
  <2> QED
    BY <1>4, <2>3, <2>4 DEF TestFitPod, pod
<1>5. CASE AcceptCandidate
  <2>1. Advance(cluster, scoredList, Scan) = FromTestFit(cluster, scoredList, Scan)
    BY <1>5, <1>s DEF AcceptCandidate, Advance
  <2>2. j > Len(cluster.podsOn[scoredList[i]])
    <3>1. Len(PodsOn(Candidate)) \in Nat
      BY <1>5, <1>t, CandidateTyped DEF AcceptCandidate, PassTypeInv, IndexInv
    <3> QED
      BY <1>5, <1>t, <3>1 DEF AcceptCandidate, MorePods, PodsOn, Candidate
  <2> QED
    BY <1>5, <2>1, <2>2, <1>s DEF AcceptCandidate, FromTestFit, Candidate, Scan
<1>6. CASE DeductFitPod
  <2> DEFINE pod == PodAt(Candidate, j)
  <2>1. Advance(cluster, scoredList, Scan) = FromDeductFit(cluster, scoredList, Scan)
    BY <1>6, <1>s DEF DeductFitPod, Advance
  <2>2. FromDeductFit(cluster, scoredList, Scan) =
           IF Finds(Scan, remaining, pod)
           THEN [Scan EXCEPT !.remaining = Reduced(Scan, remaining, pod), !.j = j + 1]
           ELSE [Scan EXCEPT !.j = j + 1]
    <3>1. ~(j > Len(cluster.podsOn[scoredList[i]]))
      <4>1. Len(PodsOn(Candidate)) \in Nat
        BY <1>6, <1>t, CandidateTyped DEF DeductFitPod, PassTypeInv, IndexInv
      <4> QED
        BY <1>6, <1>t, <4>1 DEF DeductFitPod, MorePods, PodsOn, Candidate
    <3> QED
      BY <1>s, <3>1 DEF FromDeductFit, PodAt, PodsOn, Candidate
  <2> HIDE DEF pod
  <2>3. ASSUME NEW k \in 1..Len(safeNodes), TakesFirst(remaining, pod, k),
               remaining' = [remaining EXCEPT ![safeNodes[k]] = Minus(@, pod)]
        PROVE  Scan' = Advance(cluster, scoredList, Scan)
    <3>1. Finds(Scan, remaining, pod) /\ Reduced(Scan, remaining, pod) = remaining'
      BY <1>t, <2>3, ReducedFirst
    <3>2. Advance(cluster, scoredList, Scan) = [Scan EXCEPT !.remaining = remaining', !.j = j + 1]
      BY <2>1, <2>2, <3>1
    <3> QED
      BY <1>6, <2>3, <3>2 DEF DeductFitPod, lists, Scan
  <2>4. ASSUME NobodyTakes(remaining, pod), UNCHANGED remaining
        PROVE  Scan' = Advance(cluster, scoredList, Scan)
    BY <1>6, <2>1, <2>2, <2>4, NobodyFinds DEF DeductFitPod, lists, Scan
  <2> QED
    BY <1>6, <2>3, <2>4 DEF DeductFitPod, pod
<1>7. CASE NodeDrained
  <2>1. Advance(cluster, scoredList, Scan) = FromDeductFit(cluster, scoredList, Scan)
    BY <1>7, <1>s DEF NodeDrained, Advance
  <2>2. j > Len(cluster.podsOn[scoredList[i]])
    <3>1. Len(PodsOn(Candidate)) \in Nat
      BY <1>7, <1>t, CandidateTyped DEF NodeDrained, PassTypeInv, IndexInv
    <3> QED
      BY <1>7, <1>t, <3>1 DEF NodeDrained, MorePods, PodsOn, Candidate
  <2> QED
    BY <1>7, <2>1, <2>2, <1>s DEF NodeDrained, FromDeductFit, lists, Scan
<1>8. CASE KeepNode
  <2>1. Advance(cluster, scoredList, Scan) = FromKeep(cluster, scoredList, Scan)
    BY <1>8, <1>s DEF KeepNode, Advance
  <2>2. CASE safetyScore[Candidate] > 5000
    <3>1. FromKeep(cluster, scoredList, Scan) =
             [Offered(cluster, Scan, scoredList[i]) EXCEPT !.at = "node", !.i = i + 1]
      BY <2>2, <1>s DEF FromKeep, Candidate
    <3> QED
      <4>1. AddSafe(scoredList[i]) /\ pc' = "node" /\ i' = i + 1 /\ UNCHANGED <<j, working>>
        BY <1>8, <2>2 DEF KeepNode, Candidate
      <4> QED
        BY <2>1, <3>1, <4>1 DEF AddSafe, Offered, Scan
  <2>3. CASE ~(safetyScore[Candidate] > 5000)
    <3>1. FromKeep(cluster, scoredList, Scan) =
             [Scan EXCEPT !.at = "node", !.i = i + 1, !.neutral = Append(neutralNodes, scoredList[i])]
      BY <2>3, <1>s DEF FromKeep, Candidate
    <3> QED
      <4>1. /\ neutralNodes' = Append(neutralNodes, scoredList[i])
            /\ UNCHANGED <<safeNodes, candidateNodes, remaining>>
            /\ pc' = "node" /\ i' = i + 1 /\ UNCHANGED <<j, working>>
        BY <1>8, <2>3 DEF KeepNode, Candidate
      <4> QED
        BY <2>1, <3>1, <4>1 DEF Scan
  <2> QED
    BY <2>2, <2>3
<1>9. CASE Finish
  <2>1. Advance(cluster, scoredList, Scan) = FromNode(cluster, scoredList, Scan)
    BY <1>9, <1>s DEF Finish, Advance
  <2>2. ~(i <= Len(scoredList))
    BY <1>9, <1>t DEF Finish
  <2> QED
    BY <1>9, <2>1, <2>2, <1>s DEF Finish, FromNode, lists, Scan
<1>10. CASE ScoreAndSort
  BY <1>10 DEF ScoreAndSort
<1> QED
  BY <1>1, <1>2, <1>3, <1>4, <1>5, <1>6, <1>7, <1>8, <1>9, <1>10 DEF Evaluate

LEMMA ScannedStep ==
    ASSUME PassInv, PassInv', ScannedInv, Evaluate
    PROVE  ScannedInv'
<1>t. Scan \in Scans /\ Scan' \in Scans
  <2>1. PassTypeInv /\ PassTypeInv'
    BY DEF PassInv, DrainInv, ReportInv, CapInv
  <2>2. Scan \in Scans
    BY <2>1, ScanTyped
  <2>3. (Scan \in Scans)'
    BY <2>1, ScanTyped, PTL
  <2> QED
    BY <2>2, <2>3
<1>1. CASE ScoreAndSort
  <2>1. /\ cluster' = cluster /\ pc' = "floor"
        /\ drainScore' = DrainScores(cluster) /\ safetyScore' = SafetyScores(cluster)
        /\ scoredList' \in Orders(cluster)
    BY <1>1 DEF ScoreAndSort, DrainScores, SafetyScores, Orders
  <2>2. Scan' = Start
    BY <1>1 DEF ScoreAndSort, ScannedInv, Scan, Start, lists
  <2>3. Reached(cluster, scoredList', Start)
    BY DEF Reached
  <2> QED
    BY <2>1, <2>2, <2>3 DEF ScannedInv
<1>2. CASE ~ScoreAndSort
  <2>1. /\ UNCHANGED <<cluster, ranking>> /\ pc # "score" /\ pc' # "score"
        /\ pc # "done"
    BY <1>2 DEF Evaluate, DesignateFloor, FloorDone, ConsiderNode, TestFitPod, AcceptCandidate,
                DeductFitPod, NodeDrained, KeepNode, Finish
  <2>2. /\ drainScore = DrainScores(cluster) /\ safetyScore = SafetyScores(cluster)
        /\ scoredList \in Orders(cluster)
        /\ Reached(cluster, scoredList, Scan)
    BY <2>1 DEF ScannedInv
  <2>3. Scan' = Advance(cluster, scoredList, Scan)
    BY <2>1, <2>2, StepAdvances
  <2>4. Scan.at # "done"
    BY <2>1 DEF Scan
  <2>5. Reached(cluster, scoredList, Scan')
    BY <1>t, <2>2, <2>3, <2>4, ReachedOn
  <2>6. /\ cluster' = cluster /\ drainScore' = drainScore /\ safetyScore' = safetyScore
        /\ scoredList' = scoredList
    BY <2>1 DEF ranking
  <2> QED
    BY <2>1, <2>2, <2>5, <2>6 DEF ScannedInv
<1> QED
  BY <1>1, <1>2

DeterminismInv == LoopInv /\ ScannedInv /\ PreviousInv

LEMMA DeterminismInit == Init => DeterminismInv
<1> SUFFICES ASSUME Init PROVE DeterminismInv
  OBVIOUS
<1>1. ScannedInv
  BY DEF Init, InitPass, ScannedInv, Scan, Start
<1>2. PreviousInv
  BY DEF Init, PreviousInv
<1> QED
  BY <1>1, <1>2, LoopInit DEF DeterminismInv

LEMMA DeterminismStep == DeterminismInv /\ [Next]_vars => DeterminismInv'
<1> SUFFICES ASSUME DeterminismInv, [Next]_vars PROVE DeterminismInv'
  OBVIOUS
<1>t. PassInv /\ PassInv' /\ LoopInv'
  BY LoopStep DEF DeterminismInv, LoopInv
<1>1. CASE Pass
  <2>1. ScannedInv'
    BY <1>t, <1>1, ScannedStep DEF Pass, DeterminismInv
  <2>2. cluster' = cluster /\ previous' = previous
    BY <1>1 DEF Pass, Evaluate, ScoreAndSort, DesignateFloor, FloorDone, ConsiderNode, TestFitPod,
                AcceptCandidate, DeductFitPod, NodeDrained, KeepNode, Finish
  <2>3. PreviousInv'
    BY <2>2 DEF DeterminismInv, PreviousInv
  <2> QED
    BY <1>t, <2>1, <2>3 DEF DeterminismInv
<1>2. CASE EvaluateAgain
  <2>1. ScannedInv'
    BY <1>2 DEF EvaluateAgain, StartPass, ScannedInv, Scan, Start
  <2>2. /\ scoredList \in Orders(cluster) /\ Reached(cluster, scoredList, Scan)
        /\ cluster' = cluster /\ previous' = ReportOf(Scan) /\ Scan.at = "done"
    BY <1>2 DEF EvaluateAgain, StartPass, DeterminismInv, ScannedInv, Report, ReportOf, Scan
  <2>3. Scan \in Scans
    BY <1>t, ScanTyped DEF PassInv, DrainInv, ReportInv, CapInv
  <2>4. PreviousInv'
    BY <2>2, <2>3 DEF PreviousInv
  <2> QED
    BY <1>t, <2>1, <2>4 DEF DeterminismInv
<1>3. CASE UNCHANGED vars
  <2>1. UNCHANGED <<cluster, pc, drainScore, safetyScore, scoredList, i, j, remaining, working,
                    safeNodes, candidateNodes, neutralNodes, previous>>
    BY <1>3 DEF vars, passVars, ranking, lists
  <2>2. Scan' = Scan
    BY <2>1 DEF Scan
  <2> QED
    BY <1>t, <2>1, <2>2 DEF DeterminismInv, ScannedInv, PreviousInv
<1> QED
  BY <1>1, <1>2, <1>3 DEF Next

(* Evaluating a snapshot again gives the same report, whatever the weights *)
(* and the floor, if no two eligible nodes have the same safety score: the *)
(* order of equal nodes is all that RunSimulation leaves to chance.        *)
THEOREM DeterministicWithoutTies == Spec => []TieFreeDeterminism
<1>1. DeterminismInv => TieFreeDeterminism
  <2> SUFFICES ASSUME DeterminismInv, pc = "done", previous # NoReport, TieFree
               PROVE  Report = previous
    BY DEF TieFreeDeterminism
  <2>1. PICK L \in Orders(cluster), s \in Scans :
            s.at = "done" /\ Reached(cluster, L, s) /\ previous = ReportOf(s)
    BY DEF DeterminismInv, PreviousInv
  <2>2. /\ safetyScore = SafetyScores(cluster) /\ scoredList \in Orders(cluster)
        /\ Reached(cluster, scoredList, Scan)
    BY DEF DeterminismInv, ScannedInv
  <2>3. PassTypeInv
    BY DEF DeterminismInv, LoopInv, PassInv, DrainInv, ReportInv, CapInv
  <2>4. safetyScore \in [Nodes -> Int] /\ cluster.eligible \in SUBSET Nodes
    <3>1. safetyScore \in [Nodes -> Points] /\ cluster \in Clusters
      BY <2>3 DEF PassTypeInv, PassTypeOK
    <3>2. cluster.eligible \in SUBSET Nodes
      BY <3>1, CycleAssumption DEF Snapshots
    <3>3. \A x \in Points : x \in Int
      BY DEF Points
    <3> QED
      BY <3>1, <3>2, <3>3
  <2>5. L = scoredList
    BY <2>1, <2>2, <2>4, OneOrder DEF Orders, TieFree
  <2>6. Scan \in Scans /\ Scan.at = "done"
    BY <2>3, ScanTyped DEF Scan
  <2>7. s = Scan
    BY <2>1, <2>2, <2>5, <2>6, StartTyped, OneEnd
  <2> QED
    BY <2>1, <2>7 DEF Report, ReportOf, Scan
<1> QED
  BY <1>1, DeterminismInit, DeterminismStep, PTL DEF Spec
=============================================================================
