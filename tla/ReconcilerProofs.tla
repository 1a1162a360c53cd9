-------------------------- MODULE ReconcilerProofs --------------------------
(***************************************************************************)
(* What module SchedulerReconciler guarantees for every number of          *)
(* replicas, nodes and pods, whatever is lost, late or killed: type        *)
(* correctness, whose pods are bound, and that no binding is posted on an  *)
(* outdated choice.                                                        *)
(***************************************************************************)
EXTENDS SchedulerReconciler, TLAPS

-----------------------------------------------------------------------------
(* The webhook's decision.                                                 *)

\* A pod is created with the name of one of the two schedulers.
LEMMA AdmittedNames ==
    ASSUME NEW r \in AdmissionRequests
    PROVE  AdmittedAs(r) \subseteq SchedulerNames
<1>1. r.scheduler \in SchedulerNames \cup {""}
  BY DEF AdmissionRequests
<1>2. MutatePod(r) \in SchedulerNames \cup {""}
  BY <1>1 DEF MutatePod, SchedulerNames
<1> QED
  BY <1>1, <1>2 DEF AdmittedAs, Defaulted, SchedulerNames

\* Only a treatment pod is given this scheduler without asking for it.
LEMMA AdmittedTreatment ==
    ASSUME NEW r \in AdmissionRequests, Predictive \in AdmittedAs(r), r.scheduler # Predictive
    PROVE  r.label = "treatment" \/ (r.label = "" /\ "treatment" \in r.words)
<1>1. Defaulted(r.scheduler) # Predictive
  BY DEF Defaulted, Predictive, Default
<1>2. Defaulted(MutatePod(r)) = Predictive
  BY <1>1 DEF AdmittedAs
<1>3. MutatePod(r) = Predictive
  BY <1>2 DEF Defaulted, Predictive, Default
<1>4. Group(r) = "treatment"
  BY <1>3 DEF MutatePod, Predictive, Default
<1> QED
  BY <1>4 DEF Group

-----------------------------------------------------------------------------
(* The inductive invariant.                                                *)

(* The type invariant needs the functions themselves to be typed, and the  *)
(* states a node has had to include the one it is in.                      *)
FunctionsOK ==
    /\ podState \in [Pods -> PodStates]
    /\ podNode \in [Pods -> Nodes \cup {NoNode}]
    /\ schedulerName \in [Pods -> SchedulerNames \cup {""}]
    /\ nodeState \in [Nodes -> NodeStates]
    /\ requests \subseteq [pod : Pods, node : Nodes]
    /\ step \in [Schedulers -> Steps]
    /\ hand \in [Schedulers -> Pods \cup {NoPod}]
    /\ queue \in [Schedulers -> SUBSET Pods]
    /\ target \in [Schedulers -> Nodes \cup {NoNode}]
    /\ seen \in [Schedulers -> [Nodes -> SUBSET NodeStates]]

AtWork ==
    \A s \in Schedulers :
        /\ hand[s] = NoPod <=> step[s] \in {"wait", "list"}
        /\ target[s] = NoNode <=> step[s] # "post"

(* Every pod on its way to a node is this scheduler's: the ones in hand,   *)
(* in a queue, in a request.  A pod keeps the name it was created with.    *)
Owned ==
    /\ \A s \in Schedulers :
         /\ hand[s] # NoPod => schedulerName[hand[s]] = Predictive
         /\ \A p \in queue[s] : schedulerName[p] = Predictive
    /\ \A r \in requests : schedulerName[r.pod] = Predictive
    /\ \A p \in Pods :
         /\ podState[p] = "bound" => schedulerName[p] = Predictive
         /\ podState[p] = "absent" <=> schedulerName[p] = ""
         /\ podState[p] # "absent" => schedulerName[p] \in AdmittedAs(Request[p])

\* What a replica has seen of a node holds its present state until it posts.
Watched ==
    \A s \in Schedulers :
        /\ step[s] \in {"nodes", "post"} => \A n \in Nodes : nodeState[n] \in seen[s][n]
        /\ step[s] = "post" => "ready" \in seen[s][target[s]]

ReconcilerInv == FunctionsOK /\ AtWork /\ Owned /\ Watched

LEMMA SeenTyped ==
    ASSUME nodeState \in [Nodes -> NodeStates]
    PROVE  /\ NothingSeen \in [Nodes -> SUBSET NodeStates]
           /\ SeenNow \in [Nodes -> SUBSET NodeStates]
<1>1. \A n \in Nodes : {nodeState[n]} \in SUBSET NodeStates
  OBVIOUS
<1>2. {} \in SUBSET NodeStates
  OBVIOUS
<1>3. NothingSeen \in [Nodes -> SUBSET NodeStates]
  BY <1>2 DEF NothingSeen
<1>4. SeenNow \in [Nodes -> SUBSET NodeStates]
  BY <1>1 DEF SeenNow
<1> QED
  BY <1>3, <1>4

LEMMA ReconcilerInit == Init => ReconcilerInv
<1> SUFFICES ASSUME Init PROVE ReconcilerInv
  OBVIOUS
<1> USE ReconcilerAssumption DEF Init
<1>1. FunctionsOK
  BY DEF FunctionsOK, PodStates, NodeStates, NothingSeen, Steps
<1>2. AtWork /\ Watched
  BY DEF AtWork, Watched
<1>3. Owned
  BY DEF Owned
<1> QED
  BY <1>1, <1>2, <1>3 DEF ReconcilerInv

(* Going on with pods of this scheduler keeps the invariant: what a        *)
(* replica has seen starts again with the present states.                  *)
LEMMA GoOnKeeps ==
    ASSUME ReconcilerInv,
           NEW s \in Schedulers, NEW rest \in SUBSET Pods,
           \A p \in rest : schedulerName[p] = Predictive,
           GoOn(s, rest), UNCHANGED server
    PROVE  ReconcilerInv'
<1> USE DEF server
<1>1. PICK h \in rest \cup {NoPod}, w \in {"wait", "nodes"}, q \in SUBSET rest,
           v \in {NothingSeen, SeenNow} :
        /\ hand' = [hand EXCEPT ![s] = h]
        /\ step' = [step EXCEPT ![s] = w]
        /\ queue' = [queue EXCEPT ![s] = q]
        /\ seen' = [seen EXCEPT ![s] = v]
        /\ h = NoPod <=> w = "wait"
        /\ w = "nodes" => v = SeenNow
  <2>1. CASE rest = {} /\ Wait(s)
    BY <2>1 DEF Wait
  <2>2. CASE \E p \in rest : First(rest, p) /\ TakeUp(s, p, rest \ {p})
    BY <2>2, ReconcilerAssumption DEF TakeUp
  <2> QED
    BY <2>1, <2>2 DEF GoOn
<1>2. target' = [target EXCEPT ![s] = NoNode]
  BY DEF GoOn
<1>3. NothingSeen \in [Nodes -> SUBSET NodeStates] /\ SeenNow \in [Nodes -> SUBSET NodeStates]
  BY SeenTyped DEF ReconcilerInv, FunctionsOK
<1>4. FunctionsOK'
  BY <1>1, <1>2, <1>3 DEF ReconcilerInv, FunctionsOK, Steps
<1>5. AtWork'
  BY <1>1, <1>2 DEF ReconcilerInv, FunctionsOK, AtWork
<1>6. Owned'
  BY <1>1 DEF ReconcilerInv, FunctionsOK, Owned
<1>7. Watched'
  <2> SUFFICES ASSUME NEW t \in Schedulers
      PROVE  /\ step'[t] \in {"nodes", "post"} => \A n \in Nodes : nodeState'[n] \in seen'[t][n]
             /\ step'[t] = "post" => "ready" \in seen'[t][target'[t]]
    BY DEF Watched
  <2>1. CASE t = s
    BY <2>1, <1>1 DEF ReconcilerInv, FunctionsOK, SeenNow
  <2>2. CASE t # s
    BY <2>2, <1>1, <1>2 DEF ReconcilerInv, FunctionsOK, Watched
  <2> QED
    BY <2>1, <2>2
<1> QED
  BY <1>4, <1>5, <1>6, <1>7 DEF ReconcilerInv

LEMMA ReconcilerStep == ReconcilerInv /\ [Next]_vars => ReconcilerInv'
<1> SUFFICES ASSUME ReconcilerInv, [Next]_vars PROVE ReconcilerInv'
  OBVIOUS
<1> USE DEF ReconcilerInv
<1>1. ASSUME NEW s \in Schedulers, ListPods(s) PROVE ReconcilerInv'
  BY <1>1, GoOnKeeps DEF ListPods, Claims
<1>2. ASSUME NEW s \in Schedulers, SkipPod(s) PROVE ReconcilerInv'
  BY <1>2, GoOnKeeps DEF SkipPod, FunctionsOK, Owned
<1>3. ASSUME NEW s \in Schedulers, AwaitEnds(s) PROVE ReconcilerInv'
  BY <1>3, GoOnKeeps DEF AwaitEnds, FunctionsOK, Owned
<1>4. ASSUME NEW s \in Schedulers, Crash(s) PROVE ReconcilerInv'
  BY <1>4, GoOnKeeps DEF Crash
<1>5. ASSUME NEW s \in Schedulers, ListNodes(s) PROVE ReconcilerInv'
  <2> USE DEF server
  <2>1. PICK b \in ReadyNodes : target' = [target EXCEPT ![s] = NodeOrder[b]]
    BY <1>5 DEF ListNodes
  <2>2. NodeOrder[b] \in Nodes /\ IsReady(NodeOrder[b])
    BY ReconcilerAssumption DEF ReadyNodes
  <2>3. step[s] = "nodes" /\ step' = [step EXCEPT ![s] = "post"]
    BY <1>5 DEF ListNodes
  <2>4. UNCHANGED <<podState, podNode, schedulerName, nodeState, requests, hand, queue, seen>>
    BY <1>5 DEF ListNodes
  <2>5. FunctionsOK'
    BY <2>1, <2>2, <2>3, <2>4 DEF FunctionsOK, Steps
  <2>6. AtWork'
    BY <2>1, <2>2, <2>3, <2>4, ReconcilerAssumption DEF FunctionsOK, AtWork
  <2>7. Owned'
    BY <2>4 DEF Owned
  <2>8. nodeState[NodeOrder[b]] = "ready"
    BY <2>2 DEF FunctionsOK, NodeStates, IsReady
  <2>9. Watched'
    <3>1. nodeState[NodeOrder[b]] \in seen[s][NodeOrder[b]]
      BY <2>2, <2>3 DEF Watched
    <3> QED
      BY <3>1, <2>1, <2>2, <2>3, <2>4, <2>8 DEF FunctionsOK, Watched
  <2> QED
    BY <2>5, <2>6, <2>7, <2>9
<1>6. ASSUME NEW s \in Schedulers, PostBinding(s) PROVE ReconcilerInv'
  <2>1. hand[s] \in Pods /\ target[s] \in Nodes /\ schedulerName[hand[s]] = Predictive
    BY <1>6 DEF PostBinding, FunctionsOK, AtWork, Owned
  <2> DEFINE request == [pod |-> hand[s], node |-> target[s]]
  <2>6. requests' = requests \cup {request} /\ request \in [pod : Pods, node : Nodes]
    BY <1>6, <2>1 DEF PostBinding
  <2> HIDE DEF request
  <2>2. FunctionsOK'
    <3>1. requests' \subseteq [pod : Pods, node : Nodes]
      BY <2>6 DEF FunctionsOK
    <3>2. seen' \in [Schedulers -> [Nodes -> SUBSET NodeStates]]
      BY <1>6, SeenTyped DEF PostBinding, FunctionsOK
    <3> QED
      BY <1>6, <3>1, <3>2 DEF PostBinding, FunctionsOK, Steps
  <2>3. AtWork'
    BY <1>6 DEF PostBinding, FunctionsOK, AtWork
  <2>4. Owned'
    <3>1. request.pod = hand[s]
      BY DEF request
    <3>2. \A r \in requests' : schedulerName'[r.pod] = Predictive
      BY <1>6, <2>1, <2>6, <3>1 DEF PostBinding, Owned
    <3> QED
      BY <1>6, <3>2 DEF PostBinding, Owned
  <2>5. Watched'
    BY <1>6 DEF PostBinding, FunctionsOK, Watched
  <2> QED
    BY <2>2, <2>3, <2>4, <2>5
<1>7. ASSUME NEW r \in requests, ApplyBinding(r) PROVE ReconcilerInv'
  <2> USE <1>7 DEF ApplyBinding, replica
  <2>1. r.pod \in Pods /\ r.node \in Nodes /\ schedulerName[r.pod] = Predictive
    BY DEF FunctionsOK, Owned
  <2>2. FunctionsOK'
    BY <2>1 DEF FunctionsOK, PodStates
  <2>3. AtWork'
    BY DEF AtWork
  <2>4. Owned'
    <3>1. UNCHANGED <<schedulerName, hand, queue>> /\ requests' \subseteq requests
      OBVIOUS
    <3>2. \A p \in Pods : \/ podState'[p] = podState[p]
                          \/ p = r.pod /\ podState[p] = "pending" /\ podState'[p] = "bound"
      BY DEF FunctionsOK
    <3>3. ASSUME NEW p \in Pods
          PROVE  /\ podState'[p] = "bound" => schedulerName[p] = Predictive
                 /\ podState'[p] = "absent" <=> schedulerName[p] = ""
                 /\ podState'[p] # "absent" => schedulerName[p] \in AdmittedAs(Request[p])
      BY <2>1, <3>2 DEF Owned
    <3> QED
      BY <3>1, <3>3 DEF Owned
  <2>5. Watched'
    BY DEF Watched
  <2> QED
    BY <2>2, <2>3, <2>4, <2>5
<1>8. ASSUME NEW r \in requests, LoseRequest(r) PROVE ReconcilerInv'
  BY <1>8 DEF LoseRequest, replica, FunctionsOK, AtWork, Owned, Watched
<1>9. ASSUME NEW p \in Pods, CreatePod(p) PROVE ReconcilerInv'
  <2> USE <1>9 DEF CreatePod, replica
  <2>1. PICK name \in AdmittedAs(Request[p]) :
            schedulerName' = [schedulerName EXCEPT ![p] = name]
    OBVIOUS
  <2>2. name \in SchedulerNames
    BY <2>1, AdmittedNames, ReconcilerAssumption
  <2>3. schedulerName[p] = "" /\ name # ""
    BY <2>2 DEF Owned, SchedulerNames, Predictive, Default
  <2>4. FunctionsOK'
    BY <2>1, <2>2 DEF FunctionsOK, PodStates
  <2>5. AtWork'
    BY DEF AtWork
  <2>6. Owned'
    <3>1. Predictive # ""
      BY DEF Predictive
    <3>2. \A s \in Schedulers : hand'[s] # NoPod => schedulerName'[hand'[s]] = Predictive
      BY <2>1, <2>3, <3>1 DEF FunctionsOK, Owned
    <3>3. \A s \in Schedulers : \A q \in queue'[s] : schedulerName'[q] = Predictive
      BY <2>1, <2>3, <3>1 DEF FunctionsOK, Owned
    <3>4. \A r \in requests' : schedulerName'[r.pod] = Predictive
      BY <2>1, <2>3, <3>1 DEF FunctionsOK, Owned
    <3>5. \A q \in Pods :
             /\ podState'[q] = "bound" => schedulerName'[q] = Predictive
             /\ podState'[q] = "absent" <=> schedulerName'[q] = ""
             /\ podState'[q] # "absent" => schedulerName'[q] \in AdmittedAs(Request[q])
      BY <2>1, <2>3 DEF FunctionsOK, Owned
    <3> QED
      BY <3>2, <3>3, <3>4, <3>5 DEF Owned
  <2>7. Watched'
    BY DEF Watched
  <2> QED
    BY <2>4, <2>5, <2>6, <2>7
<1>10. ASSUME NEW p \in Pods, DeletePod(p) PROVE ReconcilerInv'
  <2> USE <1>10 DEF DeletePod, replica
  <2>1. FunctionsOK'
    BY DEF FunctionsOK, PodStates
  <2>2. AtWork' /\ Watched'
    BY DEF AtWork, Watched
  <2>3. Owned'
    BY DEF FunctionsOK, Owned
  <2> QED
    BY <2>1, <2>2, <2>3
<1>11. ASSUME NEW n \in Nodes, NodeChanges(n) PROVE ReconcilerInv'
  <2> USE <1>11 DEF NodeChanges
  <2>1. PICK v \in NodeStates : nodeState' = [nodeState EXCEPT ![n] = v]
    OBVIOUS
  <2>2. nodeState' \in [Nodes -> NodeStates] /\ nodeState'[n] \in NodeStates
    BY <2>1, ReconcilerAssumption DEF FunctionsOK, NodeStates
  <2>3. FunctionsOK'
    BY <2>2 DEF FunctionsOK
  <2>4. AtWork'
    BY DEF AtWork
  <2>5. Owned'
    BY DEF Owned
  <2>6. Watched'
    <3> SUFFICES ASSUME NEW s \in Schedulers
        PROVE  /\ step'[s] \in {"nodes", "post"} => \A m \in Nodes : nodeState'[m] \in seen'[s][m]
               /\ step'[s] = "post" => "ready" \in seen'[s][target'[s]]
      BY DEF Watched
    <3>1. CASE step[s] \in {"wait", "list", "await"}
      BY <3>1
    <3>2. CASE step[s] \notin {"wait", "list", "await"}
      <4>1. seen'[s] = [seen[s] EXCEPT ![n] = @ \cup {nodeState'[n]}]
        BY <3>2
      <4>2. \A m \in Nodes : seen[s][m] \subseteq seen'[s][m]
        BY <4>1 DEF FunctionsOK
      <4>3. nodeState'[n] \in seen'[s][n]
        BY <4>1 DEF FunctionsOK
      <4>4. \A m \in Nodes : nodeState'[m] \in seen'[s][m] \/ step[s] \notin {"nodes", "post"}
        BY <2>1, <4>2, <4>3 DEF FunctionsOK, Watched
      <4>5. step[s] = "post" => target[s] \in Nodes
        BY DEF FunctionsOK, AtWork
      <4> QED
        BY <4>2, <4>4, <4>5 DEF Watched
    <3> QED
      BY <3>1, <3>2
  <2> QED
    BY <2>3, <2>4, <2>5, <2>6
<1>12. ASSUME NEW s \in Schedulers, Tick(s) PROVE ReconcilerInv'
  <2> USE <1>12 DEF Tick, server
  <2>1. FunctionsOK'
    BY DEF FunctionsOK, Steps
  <2>2. AtWork' /\ Owned' /\ Watched'
    BY DEF FunctionsOK, AtWork, Owned, Watched
  <2> QED
    BY <2>1, <2>2
<1>13. ASSUME NEW s \in Schedulers, ListFails(s) PROVE ReconcilerInv'
  BY <1>13, GoOnKeeps DEF ListFails
<1>14. CASE UNCHANGED vars
  BY <1>14 DEF vars, server, replica, FunctionsOK, AtWork, Owned, Watched
<1> QED
  BY <1>1, <1>2, <1>3, <1>4, <1>5, <1>6, <1>7, <1>8, <1>9, <1>10, <1>11, <1>12, <1>13, <1>14,
     ReconcilerAssumption
     DEF Next, Reconcile

LEMMA ReconcilerAlways == Spec => []ReconcilerInv
  BY ReconcilerInit, ReconcilerStep, PTL DEF Spec

-----------------------------------------------------------------------------
(* The theorems.                                                           *)

(* The reconciler's state keeps its type: a replica between ticks holds    *)
(* nothing, and a replica at work has a pod in hand and, once it decided,  *)
(* a node.                                                                 *)
THEOREM TypeCorrect == Spec => []TypeOK
<1>1. ReconcilerInv => TypeOK
  <2> SUFFICES ASSUME ReconcilerInv PROVE TypeOK
    OBVIOUS
  <2> USE DEF ReconcilerInv, FunctionsOK
  <2>1. ASSUME NEW s \in Schedulers
        PROVE  /\ queue[s] \subseteq Pods
               /\ hand[s] \in (IF step[s] \in {"wait", "list"} THEN {NoPod} ELSE Pods)
               /\ (target[s] \in Nodes) <=> (step[s] = "post")
    BY ReconcilerAssumption DEF AtWork
  <2>2. \A s \in Schedulers : \A n \in Nodes : seen[s][n] \subseteq NodeStates
    OBVIOUS
  <2> QED
    BY <2>1, <2>2 DEF TypeOK
<1> QED
  BY <1>1, ReconcilerAlways, PTL

(* No pod of another scheduler is ever bound, for any number of replicas,  *)
(* late requests and restarts.                                             *)
THEOREM ForeignPodsSafe == Spec => []ForeignPodsUntouched
<1>1. ReconcilerInv => ForeignPodsUntouched
  BY DEF ReconcilerInv, Owned, ForeignPodsUntouched
<1> QED
  BY <1>1, ReconcilerAlways, PTL

(* A pod that did not name this scheduler is bound only if it is of the    *)
(* treatment group, whether the webhook answered or was skipped.           *)
THEOREM TreatmentPodsOnly == Spec => []OnlyTreatmentPodsBound
<1>1. ReconcilerInv => OnlyTreatmentPodsBound
  <2> SUFFICES ASSUME ReconcilerInv, NEW p \in Pods,
                      podState[p] = "bound", Request[p].scheduler # Predictive
               PROVE  \/ Request[p].label = "treatment"
                      \/ Request[p].label = "" /\ "treatment" \in Request[p].words
    BY DEF OnlyTreatmentPodsBound
  <2>1. Predictive \in AdmittedAs(Request[p])
    BY DEF ReconcilerInv, Owned
  <2>2. Request[p] \in AdmissionRequests
    BY ReconcilerAssumption
  <2> QED
    BY <2>1, <2>2, AdmittedTreatment
<1> QED
  BY <1>1, ReconcilerAlways, PTL

(* A binding goes only to a node that was Ready at some moment since the   *)
(* replica took up the pod.                                                *)
THEOREM FreshDecisions == Spec => []PostsToFreshlyReadyNode
<1>1. ReconcilerInv => PostsToFreshlyReadyNode
  BY DEF ReconcilerInv, Watched, PostsToFreshlyReadyNode
<1> QED
  BY <1>1, ReconcilerAlways, PTL
=============================================================================
