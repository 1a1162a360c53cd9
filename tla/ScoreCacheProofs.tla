-------------------------- MODULE ScoreCacheProofs --------------------------
(***************************************************************************)
(* What module ScoreCache guarantees for every set of nodes, every verdict *)
(* a report may hold and any number of reports between the reads of one    *)
(* evaluation: type correctness, and which node wins.                      *)
(***************************************************************************)
EXTENDS ScoreCache, FiniteSetTheorems, TLAPS

-----------------------------------------------------------------------------
(* The arithmetic of the scores.                                           *)

\* Each role's scores, for every safety score an entry may hold.
LEMMA ScoreRange ==
    ASSUME NEW e \in Held
    PROVE  /\ ScoreNode(e) \in MinNodeScore..MaxNodeScore
           /\ e.role = "safe" => ScoreNode(e) >= 70
           /\ e.role = "candidate" => ScoreNode(e) <= 15
           /\ e.role = "neutral" => ScoreNode(e) = 50
           /\ e.role = "uncached" => ScoreNode(e) = 50
           /\ e.role \in {"safe", "candidate", "neutral", "uncached"}
<1>1. CASE e = Uncached
  BY <1>1 DEF Uncached, ScoreNode, MinNodeScore, MaxNodeScore
<1>2. CASE e \in {EntryOf(v) : v \in Verdicts}
  <2> PICK v \in Verdicts : e = EntryOf(v)
    BY <1>2
  <2>1. /\ e.role \in {"safe", "candidate", "neutral"}
        /\ e.safety \in 0..100
        /\ e.role = "neutral" => e.safety = 50
    BY ScoreCacheAssumption DEF Entries, EntryOf
  <2>2. CASE e.role = "safe"
    BY <2>1, <2>2 DEF ScoreNode, MinNodeScore, MaxNodeScore, AtMost
  <2>3. CASE e.role = "candidate"
    BY <2>1, <2>3 DEF ScoreNode, MinNodeScore, MaxNodeScore, AtLeast
  <2>4. CASE e.role = "neutral"
    BY <2>1, <2>4 DEF ScoreNode, MinNodeScore, MaxNodeScore
  <2> QED
    BY <2>1, <2>2, <2>3, <2>4
<1> QED
  BY <1>1, <1>2 DEF Held

\* Scores on the scale are left as they are.
LEMMA NormalizedAlready == \A x \in 0..100 : NormalizeScore(x) = x
BY DEF NormalizeScore, AtMost, AtLeast, MinNodeScore, MaxNodeScore

\* A list of nodes is a sequence of them.
LEMMA ListTyped ==
    ASSUME NEW names \in NodeLists
    PROVE  names \in Seq(Nodes)
BY DEF NodeLists

LEMMA EmptyList == <<>> \in NodeLists
<1>1. 0 \in 0..Cardinality(Nodes)
  BY ScoreCacheAssumption, FS_CardinalityType
<1>2. <<>> \in [1..0 -> Nodes]
  OBVIOUS
<1> QED
  BY <1>1, <1>2 DEF NodeLists

-----------------------------------------------------------------------------
(* The inductive invariant.                                                *)

(* What is read of a node is the score of an entry it had since the        *)
(* evaluation began; and an evaluation that picks has read every node.     *)
Explained ==
    /\ stage = "read" => k < Len(list)
    /\ stage = "pick" => k = Len(list)
    /\ stage # "idle" => \A n \in Nodes : cache[n] \in seen[n]
    /\ stage # "idle" =>
         \A l \in 1..k : \E e \in seen[list[l]] : raw[list[l]] = ScoreNode(e)
    /\ stage = "idle" => k = 0

CacheInv == TypeOK /\ Explained

LEMMA CacheInit == Init => CacheInv
<1> SUFFICES ASSUME Init PROVE CacheInv
  OBVIOUS
<1>1. TypeOK
  <2>1. list \in NodeLists
    BY EmptyList DEF Init
  <2>2. seen \in [Nodes -> SUBSET Held]
    <3>1. {} \in SUBSET Held
      OBVIOUS
    <3> QED
      BY <3>1 DEF Init
  <2> QED
    BY <2>1, <2>2, ScoreCacheAssumption DEF Init, TypeOK, Held, MinNodeScore, MaxNodeScore
<1>2. Explained
  BY DEF Init, Explained
<1> QED
  BY <1>1, <1>2 DEF CacheInv

LEMMA UpdateKeeps ==
    ASSUME CacheInv, Update
    PROVE  CacheInv'
<1> USE DEF CacheInv, TypeOK
<1>1. PICK report \in Reports : UpdateScores(report)
  BY DEF Update
<1>2. cache' \in [Nodes -> Held]
  BY <1>1 DEF UpdateScores, Reports, Held
<1>3. seen' \in [Nodes -> SUBSET Held]
  <2>1. \A n \in Nodes : {} \in SUBSET Held /\ seen[n] \cup {cache'[n]} \in SUBSET Held
    BY <1>2
  <2> QED
    BY <1>1, <2>1 DEF UpdateScores
<1>4. updates' \in 0..MaxUpdates
  BY ScoreCacheAssumption DEF Update
<1>5. UNCHANGED <<stage, list, k, raw, bestNode>>
  BY <1>1 DEF UpdateScores, evaluation
<1>6. TypeOK'
  BY <1>2, <1>3, <1>4, <1>5
<1>7. Explained'
  <2>1. ASSUME stage # "idle" PROVE \A n \in Nodes : seen'[n] = seen[n] \cup {cache'[n]}
    BY <1>1, <2>1 DEF UpdateScores
  <2>2. \A l \in 1..k : list[l] \in Nodes
    BY ListTyped
  <2>3. ASSUME stage # "idle", NEW l \in 1..k
        PROVE  \E e \in seen'[list[l]] : raw[list[l]] = ScoreNode(e)
    <3>1. PICK e \in seen[list[l]] : raw[list[l]] = ScoreNode(e)
      BY <2>3 DEF Explained
    <3> QED
      BY <2>1, <2>2, <2>3, <3>1
  <2> QED
    BY <1>5, <2>1, <2>3 DEF Explained
<1> QED
  BY <1>6, <1>7

LEMMA BeginKeeps ==
    ASSUME CacheInv, NEW names \in NodeLists, Begin(names)
    PROVE  CacheInv'
<1> USE DEF CacheInv, TypeOK
<1>1. names \in Seq(Nodes) /\ names # <<>>
  BY ListTyped DEF Begin
<1>2. Len(names) \in Nat \ {0}
  BY <1>1
<1>3. seen' \in [Nodes -> SUBSET Held]
  <2>1. \A n \in Nodes : {cache[n]} \in SUBSET Held
    OBVIOUS
  <2> QED
    BY <2>1 DEF Begin
<1>4. TypeOK'
  BY <1>2, <1>3 DEF Begin, MinNodeScore, MaxNodeScore
<1>5. Explained'
  BY <1>2 DEF Begin, Explained
<1> QED
  BY <1>4, <1>5

LEMMA ReadScoreKeeps ==
    ASSUME CacheInv, ReadScore
    PROVE  CacheInv'
<1> USE DEF CacheInv, TypeOK
<1> DEFINE n == list[k + 1]
<1>1. list \in Seq(Nodes) /\ k + 1 \in 1..Len(list)
  BY ListTyped DEF ReadScore
<1>2. n \in Nodes /\ cache[n] \in seen[n] /\ cache[n] \in Held
  BY <1>1 DEF ReadScore, Explained
<1>3. raw' = [raw EXCEPT ![n] = ScoreNode(cache[n])]
  BY DEF ReadScore
<1>4. ScoreNode(cache[n]) \in MinNodeScore..MaxNodeScore
  BY <1>2, ScoreRange
<1>5. k' = k + 1 /\ stage' = (IF k' = Len(list) THEN "pick" ELSE "read") /\ stage = "read"
  BY DEF ReadScore
<1>6. UNCHANGED <<cache, list, bestNode, updates, seen>>
  BY DEF ReadScore
<1> HIDE DEF n
<1>7. TypeOK'
  BY <1>1, <1>2, <1>3, <1>4, <1>5, <1>6
<1>8. ASSUME NEW l \in 1..(k + 1)
      PROVE  \E e \in seen[list[l]] : raw'[list[l]] = ScoreNode(e)
  <2>1. list[l] \in Nodes
    BY <1>1
  <2>2. CASE list[l] = n
    BY <1>2, <1>3, <2>2
  <2>3. CASE list[l] # n
    <3>1. l \in 1..k
      BY <2>3 DEF n
    <3>2. raw'[list[l]] = raw[list[l]]
      BY <1>3, <2>1, <2>3
    <3> QED
      BY <1>5, <3>1, <3>2 DEF Explained
  <2> QED
    BY <2>2, <2>3
<1>9. Explained'
  BY <1>1, <1>5, <1>6, <1>8 DEF Explained
<1> QED
  BY <1>7, <1>9

LEMMA PickBestKeeps ==
    ASSUME CacheInv, PickBest
    PROVE  CacheInv'
<1> USE DEF CacheInv, TypeOK
<1>1. PICK b \in 1..Len(list) : bestNode' = list[b]
  BY DEF PickBest
<1>2. bestNode' \in Nodes
  BY <1>1, ListTyped
<1>3. seen' \in [Nodes -> SUBSET Held]
  <2>1. {} \in SUBSET Held
    OBVIOUS
  <2> QED
    BY <2>1 DEF PickBest
<1>4. TypeOK'
  BY <1>2, <1>3, EmptyList, ScoreCacheAssumption DEF PickBest, MinNodeScore, MaxNodeScore
<1>5. Explained'
  BY DEF PickBest, Explained
<1> QED
  BY <1>4, <1>5

LEMMA CacheStep == CacheInv /\ [Next]_vars => CacheInv'
<1>1. CASE UNCHANGED vars
  BY <1>1 DEF vars, evaluation, CacheInv, TypeOK, Explained
<1> QED
  BY <1>1, UpdateKeeps, BeginKeeps, ReadScoreKeeps, PickBestKeeps DEF Next, Evaluate

LEMMA CacheAlways == Spec => []CacheInv
  BY CacheInit, CacheStep, PTL DEF Spec

-----------------------------------------------------------------------------
(* The theorems.                                                           *)

(* The cache and the evaluation keep their types: whatever reports arrive, *)
(* every score read is on the 0..100 scale.                                *)
THEOREM TypeCorrect == Spec => []TypeOK
  BY CacheAlways, PTL DEF CacheInv

(* Of the nodes of the list, the one that wins has an entry, among those   *)
(* it had during the evaluation, that no entry of a loser could beat: the  *)
(* score it won with is as high as the score each other node was read at.  *)
LEMMA WinnerExplained ==
    ASSUME CacheInv, [Next]_vars, stage = "pick", stage' = "idle"
    PROVE  /\ bestNode' \in Nodes
           /\ \E w \in seen[bestNode'] : \A n \in Listed : \E e \in seen[n] :
                 w \in Held /\ e \in Held /\ ScoreNode(e) <= ScoreNode(w)
<1> USE DEF CacheInv, TypeOK
<1> DEFINE Norm == [n \in Nodes |-> NormalizeScore(raw[n])]
<1>1. PickBest
  BY DEF Next, Update, UpdateScores, Evaluate, Begin, ReadScore, vars, evaluation
<1>2. PICK b \in 1..Len(list) :
        Wins(list, 1..Len(list), Norm, b) /\ bestNode' = list[b]
  BY <1>1 DEF PickBest
<1>3. list \in Seq(Nodes)
  BY ListTyped
<1>4. \A n \in Nodes : Norm[n] = raw[n] /\ raw[n] \in Int
  <2> TAKE n \in Nodes
  <2>1. raw[n] \in 0..100
    BY DEF MinNodeScore, MaxNodeScore
  <2>2. NormalizeScore(raw[n]) = raw[n]
    BY <2>1, NormalizedAlready
  <2>3. Norm[n] = NormalizeScore(raw[n])
    OBVIOUS
  <2> QED
    BY <2>1, <2>2, <2>3
<1> HIDE DEF Norm
<1>5. \A l \in 1..Len(list) : raw[list[l]] <= raw[list[b]]
  <2>1. \A l \in 1..Len(list) : list[l] \in Nodes
    BY <1>3
  <2>2. \A l \in 1..Len(list) : \/ Norm[list[l]] < Norm[list[b]]
                                \/ Norm[list[l]] = Norm[list[b]]
    BY <1>2 DEF Wins
  <2> QED
    BY <1>4, <2>1, <2>2
<1>6. \A l \in 1..Len(list) :
         \E e \in seen[list[l]] : e \in Held /\ raw[list[l]] = ScoreNode(e)
  BY <1>3 DEF Explained
<1>7. PICK w \in seen[list[b]] : w \in Held /\ raw[list[b]] = ScoreNode(w)
  BY <1>6
<1>8. \A n \in Listed : \E e \in seen[n] : e \in Held /\ ScoreNode(e) <= ScoreNode(w)
  BY <1>5, <1>6, <1>7 DEF Listed
<1> QED
  BY <1>2, <1>3, <1>7, <1>8

(* A node that is safe throughout the evaluation keeps every node away     *)
(* that was not safe at some moment of it: 70 points and more against 50   *)
(* at most.                                                                *)
THEOREM SafeNodesWin == Spec => StableSafeNodeWins
<1>1. ASSUME CacheInv, [Next]_vars, stage = "pick", stage' = "idle",
             \E n \in Listed : Always(n, "safe")
      PROVE  Once(bestNode', "safe")
  <2>1. PICK n \in Listed : Always(n, "safe")
    BY <1>1
  <2>2. PICK w \in seen[bestNode'] : \E e \in seen[n] :
            w \in Held /\ e \in Held /\ ScoreNode(e) <= ScoreNode(w)
    BY <1>1, WinnerExplained
  <2>3. PICK e \in seen[n] : w \in Held /\ e \in Held /\ ScoreNode(e) <= ScoreNode(w)
    BY <2>2
  <2>4. ScoreNode(e) >= 70
    BY <2>1, <2>3, ScoreRange DEF Always
  <2>5. w.role = "safe"
    BY <2>3, <2>4, ScoreRange DEF MinNodeScore, MaxNodeScore
  <2> QED
    BY <2>5 DEF Once
<1>2. CacheInv /\ [Next]_vars =>
        [stage = "pick" /\ stage' = "idle" /\ (\E n \in Listed : Always(n, "safe")) =>
            Once(bestNode', "safe")]_vars
  BY <1>1
<1> QED
  BY <1>2, CacheAlways, PTL DEF Spec, StableSafeNodeWins

(* A node that is a candidate throughout wins only over nodes that were    *)
(* candidates at some moment: 15 points at most against 50 and more.       *)
THEOREM CandidatesLose == Spec => CandidatesLoseToOthers
<1>1. ASSUME CacheInv, [Next]_vars, stage = "pick", stage' = "idle",
             Always(bestNode', "candidate"), NEW n \in Listed
      PROVE  Once(n, "candidate")
  <2>1. PICK w \in seen[bestNode'], e \in seen[n] :
            w \in Held /\ e \in Held /\ ScoreNode(e) <= ScoreNode(w)
    BY <1>1, WinnerExplained
  <2>2. ScoreNode(w) <= 15
    BY <1>1, <2>1, ScoreRange DEF Always
  <2>3. e.role = "candidate"
    BY <2>1, <2>2, ScoreRange DEF MinNodeScore, MaxNodeScore
  <2> QED
    BY <2>1, <2>3 DEF Once
<1>2. CacheInv /\ [Next]_vars =>
        [stage = "pick" /\ stage' = "idle" /\ Always(bestNode', "candidate") =>
            \A n \in Listed : Once(n, "candidate")]_vars
  BY <1>1
<1> QED
  BY <1>2, CacheAlways, PTL DEF Spec, CandidatesLoseToOthers
=============================================================================
