----------------------------- MODULE ScoreCache -----------------------------
(***************************************************************************)
(* The score cache of internal/scheduler/cache.go under concurrent use:    *)
(* UpdateScores writes a whole report under the write lock, while          *)
(* EvaluateCandidateSet reads one node at a time, taking the read lock for *)
(* each, so that reports may arrive between the reads of one evaluation.   *)
(* Readers do not disturb each other: one evaluation at a time is modelled.*)
(***************************************************************************)
EXTENDS Scoring, FiniteSets

CONSTANTS
    Nodes,
    Verdicts,     \* what a report may say of a node: its role and its safety score
    Absent,       \* a node the report does not name
    NoNode,
    MaxUpdates    \* bound: reports that arrive during one evaluation

ASSUME ScoreCacheAssumption ==
    /\ IsFiniteSet(Nodes)
    /\ Verdicts \subseteq Entries
    /\ Absent \notin Verdicts
    /\ NoNode \notin Nodes
    /\ MaxUpdates \in Nat

VARIABLES
    cache,      \* c.scores, Uncached where there is no entry
    stage,      \* of the evaluation: "idle", "read", "pick"
    list,       \* candidateNodeNames
    k,          \* how many of them have been read
    raw,        \* rawScores
    bestNode,   \* what the last evaluation answered
    updates,    \* reports since the evaluation began
    seen        \* history: the entries each node has had since then

evaluation == <<stage, list, k, raw, bestNode>>
vars == <<cache, evaluation, updates, seen>>

Reports == [Nodes -> Verdicts \cup {Absent}]

\* Mutated EntryOf: every node is entered at its own score.
EntryOfOwnScore(verdict) == verdict

\* A neutral node is entered at 50 points, whatever its own score.
EntryOf(verdict) == IF verdict.role = "neutral" THEN [verdict EXCEPT !.safety = 50] ELSE verdict

Held == {EntryOf(v) : v \in Verdicts} \cup {Uncached}      \* what the cache may answer

Init ==
    /\ cache = [n \in Nodes |-> Uncached]
    /\ stage = "idle"
    /\ list = <<>>
    /\ k = 0
    /\ raw = [n \in Nodes |-> 0]
    /\ bestNode = NoNode
    /\ updates = 0
    /\ seen = [n \in Nodes |-> {}]

(* A report replaces the entries of the nodes it names; the others keep    *)
(* theirs, however old.                                                    *)
UpdateScores(report) ==
    /\ cache' = [n \in Nodes |-> IF report[n] = Absent THEN cache[n] ELSE EntryOf(report[n])]
    /\ seen' = [n \in Nodes |-> IF stage = "idle" THEN {} ELSE seen[n] \cup {cache'[n]}]
    /\ UNCHANGED evaluation

Update ==
    /\ updates < MaxUpdates
    /\ updates' = IF stage = "idle" THEN 0 ELSE updates + 1
    /\ \E report \in Reports : UpdateScores(report)

(* EvaluateCandidateSet is called; an empty list is an error.              *)
Begin(names) ==
    /\ stage = "idle"
    /\ names # <<>>
    /\ list' = names
    /\ k' = 0
    /\ raw' = [n \in Nodes |-> 0]
    /\ stage' = "read"
    /\ seen' = [n \in Nodes |-> {cache[n]}]
    /\ UNCHANGED <<cache, bestNode, updates>>

\* Mutated ReadScore: the last node of a longer list is never read.
ReadScoreButLast ==
    /\ stage = "read"
    /\ k < Len(list)
    /\ raw' = [raw EXCEPT ![list[k + 1]] = ScoreNode(cache[list[k + 1]])]
    /\ k' = k + 1
    /\ stage' = IF k' >= Len(list) - 1 THEN "pick" ELSE "read"
    /\ UNCHANGED <<cache, list, bestNode, updates, seen>>

ReadScore ==
    /\ stage = "read"
    /\ k < Len(list)
    /\ raw' = [raw EXCEPT ![list[k + 1]] = ScoreNode(cache[list[k + 1]])]
    /\ k' = k + 1
    /\ stage' = IF k' = Len(list) THEN "pick" ELSE "read"
    /\ UNCHANGED <<cache, list, bestNode, updates, seen>>

(* The highest score wins, the first on a tie; starting below zero, the    *)
(* search always finds a node.                                             *)
PickBest ==
    /\ stage = "pick"
    /\ \E b \in 1..Len(list) :
         /\ Wins(list, 1..Len(list), [n \in Nodes |-> NormalizeScore(raw[n])], b)
         /\ bestNode' = list[b]
    /\ stage' = "idle"
    /\ list' = <<>>
    /\ k' = 0
    /\ raw' = [n \in Nodes |-> 0]
    /\ updates' = 0
    /\ seen' = [n \in Nodes |-> {}]
    /\ UNCHANGED cache

\* Lists of nodes without repetition, as the API server returns them.
NodeLists == UNION {{s \in [1..len -> Nodes] : \A a, b \in 1..len : a # b => s[a] # s[b]} :
                       len \in 0..Cardinality(Nodes)}

Evaluate == (\E names \in NodeLists : Begin(names)) \/ ReadScore \/ PickBest
Next     == Update \/ Evaluate

Spec == Init /\ [][Next]_vars

-----------------------------------------------------------------------------
(* Properties.                                                             *)

(* Every variable keeps its type; the scores read are on the 0..100 scale. *)
TypeOK ==
    /\ cache \in [Nodes -> Held]
    /\ stage \in {"idle", "read", "pick"}
    /\ list \in NodeLists
    /\ k \in 0..Len(list)
    /\ raw \in [Nodes -> MinNodeScore..MaxNodeScore]
    /\ bestNode \in Nodes \cup {NoNode}
    /\ updates \in 0..MaxUpdates
    /\ seen \in [Nodes -> SUBSET Held]

Listed == {list[l] : l \in 1..Len(list)}

Always(n, r) == \A e \in seen[n] : e.role = r
Once(n, r)   == \E e \in seen[n] : e.role = r

(* Whatever reports arrive between the reads: a node that is a candidate   *)
(* from the first read to the last wins only if every listed node was a    *)
(* candidate at some moment of the evaluation.                             *)
CandidatesLoseToOthers ==
    [][stage = "pick" /\ stage' = "idle" /\ Always(bestNode', "candidate") =>
          \A n \in Listed : Once(n, "candidate")]_vars

(* If a listed node is safe from the first read to the last, the winner is *)
(* a node that was safe at some moment of the evaluation.                  *)
StableSafeNodeWins ==
    [][stage = "pick" /\ stage' = "idle" /\ (\E n \in Listed : Always(n, "safe")) =>
          Once(bestNode', "safe")]_vars
=============================================================================
