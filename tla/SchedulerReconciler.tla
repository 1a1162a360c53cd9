------------------------- MODULE SchedulerReconciler -------------------------
(***************************************************************************)
(* The reconciler of cmd/scheduler-plugin/main.go, in as many replicas as  *)
(* are deployed: the --leader-elect flag is parsed and only logged.  On a  *)
(* tick a replica asks for the pending pods, and for each of its own: lists*)
(* the nodes, scores the ready ones, posts a binding to the best and goes  *)
(* on to the next pod, whatever the answer.                                *)
(*                                                                         *)
(* Replicas share nothing but the API server, which is external: it binds  *)
(* a pending pod once, rejects every other binding, and may lose requests  *)
(* or apply them after the client's timeout.  Pod names are not reused.    *)
(* Pods are created through the admission webhook (module Admission), or   *)
(* past it when it does not answer; those that end up with another         *)
(* scheduler stay unbound, the worst they can be for this one.             *)
(***************************************************************************)
EXTENDS Scoring, Admission, FiniteSets

CONSTANTS
    Schedulers,    \* replicas
    Nodes, Pods, NoNode, NoPod,
    NodeOrder,     \* the nodes in the order the API server lists them
    PodOrder,      \* likewise the pods
    Request,       \* what the webhook is told of each pod
    StableNodes,   \* nodes that stay ready
    Served,        \* pods whose requests do not fail forever
    Deletable      \* bound: the pods whose deletion is explored

ASSUME ReconcilerAssumption ==
    /\ NodeOrder \in Seq(Nodes) /\ {NodeOrder[l] : l \in 1..Len(NodeOrder)} = Nodes
    /\ PodOrder \in Seq(Pods) /\ {PodOrder[l] : l \in 1..Len(PodOrder)} = Pods
    /\ Request \in [Pods -> AdmissionRequests]
    /\ StableNodes \subseteq Nodes
    /\ Served \subseteq Pods
    /\ Deletable \subseteq Pods
    /\ NoNode \notin Nodes
    /\ NoPod \notin Pods

VARIABLES
    podState,      \* API server: "absent", "pending", "bound", "gone"
    podNode,       \* API server: spec.nodeName
    schedulerName, \* API server: spec.schedulerName, "" before the pod is created
    nodeState,     \* API server: "ready" (cordoned or not), "notReady"
    requests,      \* binding requests sent and not yet applied or lost
    step,          \* of each replica: "wait", "list", "nodes", "post", "await"
    hand,          \* of each replica: the pod it is at
    queue,         \* of each replica: the pods of this tick still to do after it
    target,        \* of each replica: bestNode for the pod, until it is posted
    cache,         \* of each replica: its score cache, created empty by main
    seen           \* history: the states of each node since a replica took up its pod,
                   \*   until it posts the binding

server  == <<podState, podNode, schedulerName, nodeState, requests>>
replica == <<step, hand, queue, target, cache, seen>>
vars    == <<server, replica>>

Steps      == {"wait", "list", "nodes", "post", "await"}
PodStates  == {"absent", "pending", "bound", "gone"}
NodeStates == {"ready", "notReady"}

IsReady(n) == nodeState[n] = "ready"      \* condition Ready = True, cordoned or not

NothingSeen == [n \in Nodes |-> {}]
SeenNow     == [n \in Nodes |-> {nodeState[n]}]

Init ==
    /\ podState = [p \in Pods |-> "absent"]
    /\ podNode = [p \in Pods |-> NoNode]
    /\ schedulerName = [p \in Pods |-> ""]
    /\ nodeState = [n \in Nodes |-> "ready"]
    /\ requests = {}
    /\ step = [s \in Schedulers |-> "wait"]
    /\ hand = [s \in Schedulers |-> NoPod]
    /\ queue = [s \in Schedulers |-> {}]
    /\ target = [s \in Schedulers |-> NoNode]
    /\ cache = [s \in Schedulers |-> [n \in Nodes |-> Uncached]]
    /\ seen = [s \in Schedulers |-> NothingSeen]

-----------------------------------------------------------------------------
(* The replicas.                                                           *)

\* Mutated Claims: every unbound pod is taken, whoever is to schedule it.
ClaimsAny(p) == podState[p] = "pending"

\* A pod of the list this scheduler handles: its own, and without a node.
Claims(p) == schedulerName[p] = Predictive /\ podState[p] = "pending"

\* p comes first of the pods S in the list.
First(S, p) ==
    \E l \in 1..Len(PodOrder) :
        /\ PodOrder[l] = p
        /\ p \in S
        /\ \A k \in 1..(l - 1) : PodOrder[k] \notin S

Wait(s) ==
    /\ step' = [step EXCEPT ![s] = "wait"]
    /\ hand' = [hand EXCEPT ![s] = NoPod]
    /\ queue' = [queue EXCEPT ![s] = {}]
    /\ seen' = [seen EXCEPT ![s] = NothingSeen]

TakeUp(s, p, rest) ==
    /\ step' = [step EXCEPT ![s] = "nodes"]
    /\ hand' = [hand EXCEPT ![s] = p]
    /\ queue' = [queue EXCEPT ![s] = rest]
    /\ seen' = [seen EXCEPT ![s] = SeenNow]

\* Mutated GoOn: the pods left are kept for the next tick, unasked.
GoOnLater(s, rest) ==
    /\ \/ rest = {} /\ Wait(s)
       \/ \E p \in rest : First(rest, p) /\ TakeUp(s, NoPod, rest)
    /\ target' = [target EXCEPT ![s] = NoNode]
    /\ UNCHANGED cache

\* The loop over the pods of the tick goes on with the rest, or waits for the ticker.
GoOn(s, rest) ==
    /\ \/ rest = {} /\ Wait(s)
       \/ \E p \in rest : First(rest, p) /\ TakeUp(s, p, rest \ {p})
    /\ target' = [target EXCEPT ![s] = NoNode]
    /\ UNCHANGED cache

(* The tick: the pending pods are asked for.                               *)
Tick(s) ==
    /\ step[s] = "wait"
    /\ step' = [step EXCEPT ![s] = "list"]
    /\ UNCHANGED <<server, hand, queue, target, cache, seen>>

(* The pod list arrives: keep those to schedule.                           *)
ListPods(s) ==
    /\ step[s] = "list"
    /\ GoOn(s, {p \in Pods : Claims(p)})
    /\ UNCHANGED server

(* The request fails, or its answer is no pod list: an error's body, whose *)
(* status is not looked at, decodes to a list without pods.                *)
ListFails(s) ==
    /\ step[s] = "list"
    /\ GoOn(s, {})
    /\ UNCHANGED server

\* Mutated ReadyNodes: the Ready condition is not looked at.
AllNodes == 1..Len(NodeOrder)

\* readyNodes, by their positions in the list.
ReadyNodes == {l \in 1..Len(NodeOrder) : IsReady(NodeOrder[l])}

(* The node list arrives: pick the best scored of the ready nodes.         *)
ListNodes(s) ==
    /\ step[s] = "nodes"
    /\ \E b \in ReadyNodes :
         /\ Wins(NodeOrder, ReadyNodes, [n \in Nodes |-> ScoreNode(cache[s][n])], b)
         /\ target' = [target EXCEPT ![s] = NodeOrder[b]]
    /\ step' = [step EXCEPT ![s] = "post"]
    /\ UNCHANGED <<server, hand, queue, cache, seen>>


(* The request fails or times out, its answer is no node list, or no node  *)
(* is ready: the pod waits for a later tick.                               *)
SkipPod(s) ==
    /\ step[s] = "nodes"
    /\ GoOn(s, queue[s])
    /\ UNCHANGED server

PostBinding(s) ==
    /\ step[s] = "post"
    /\ requests' = requests \cup {[pod |-> hand[s], node |-> target[s]]}
    /\ step' = [step EXCEPT ![s] = "await"]
    /\ target' = [target EXCEPT ![s] = NoNode]
    /\ seen' = [seen EXCEPT ![s] = NothingSeen]
    /\ UNCHANGED <<podState, podNode, schedulerName, nodeState, hand, queue, cache>>

(* The answer to the binding, acceptance or rejection, or the timeout of   *)
(* the client, with the request still on its way: logged, and no more.     *)
AwaitEnds(s) ==
    /\ step[s] = "await"
    /\ GoOn(s, queue[s])
    /\ UNCHANGED server

(* Killed and restarted; requests already sent are not recalled.           *)
Crash(s) ==
    /\ step[s] # "wait"
    /\ GoOn(s, {})
    /\ UNCHANGED server

Reconcile(s) ==
    \/ Tick(s)
    \/ ListPods(s)
    \/ ListFails(s)
    \/ ListNodes(s)
    \/ SkipPod(s)
    \/ PostBinding(s)
    \/ AwaitEnds(s)

-----------------------------------------------------------------------------
(* The API server and the cluster: external.                               *)

\* A pending pod is bound; any other binding is rejected.
ApplyBinding(r) ==
    /\ requests' = requests \ {r}
    /\ IF podState[r.pod] = "pending"
       THEN /\ podState' = [podState EXCEPT ![r.pod] = "bound"]
            /\ podNode' = [podNode EXCEPT ![r.pod] = r.node]
       ELSE UNCHANGED <<podState, podNode>>
    /\ UNCHANGED <<schedulerName, nodeState, replica>>

LoseRequest(r) ==
    /\ requests' = requests \ {r}
    /\ UNCHANGED <<podState, podNode, schedulerName, nodeState, replica>>

CreatePod(p) ==
    /\ podState[p] = "absent"
    /\ podState' = [podState EXCEPT ![p] = "pending"]
    /\ \E name \in AdmittedAs(Request[p]) : schedulerName' = [schedulerName EXCEPT ![p] = name]
    /\ UNCHANGED <<podNode, nodeState, requests, replica>>

DeletePod(p) ==
    /\ podState[p] \in {"pending", "bound"}
    /\ podState' = [podState EXCEPT ![p] = "gone"]
    /\ podNode' = [podNode EXCEPT ![p] = NoNode]
    /\ UNCHANGED <<schedulerName, nodeState, requests, replica>>

\* A node fails or recovers; that it is cordoned the reconciler does not see.
NodeChanges(n) ==
    /\ n \notin StableNodes
    /\ \E v \in NodeStates \ {nodeState[n]} : nodeState' = [nodeState EXCEPT ![n] = v]
    /\ seen' = [s \in Schedulers |->
                  IF step[s] \in {"wait", "list", "await"} THEN seen[s]
                  ELSE [seen[s] EXCEPT ![n] = @ \cup {nodeState'[n]}]]
    /\ UNCHANGED <<podState, podNode, schedulerName, requests, step, hand, queue, target, cache>>

Next ==
    \/ \E s \in Schedulers : Reconcile(s) \/ Crash(s)
    \/ \E r \in requests : ApplyBinding(r) \/ LoseRequest(r)
    \/ \E p \in Pods : CreatePod(p)
    \/ \E p \in Deletable : DeletePod(p)
    \/ \E n \in Nodes : NodeChanges(n)

Spec == Init /\ [][Next]_vars

(* Every replica keeps taking steps, as each request of its client ends in *)
(* an answer or a timeout and its ticker keeps firing; from some time on   *)
(* no replica is killed.  The API server does not fail all of them forever *)
(* when they ask for the pods, nor for Served pods: some of the node lists *)
(* asked for on their behalf arrive, and some of their bindings are        *)
(* applied.  Requests for other pods may fail forever.                     *)
FairSpec ==
    /\ Spec
    /\ <>[][\A s \in Schedulers : ~Crash(s)]_vars
    /\ \A s \in Schedulers : WF_vars(Reconcile(s))
    /\ SF_vars(\E s \in Schedulers : ListPods(s))
    /\ \A p \in Served :
         /\ SF_vars(\E s \in Schedulers : hand[s] = p /\ ListNodes(s))
         /\ SF_vars(\E r \in requests : r.pod = p /\ ApplyBinding(r))

-----------------------------------------------------------------------------
(* Properties.                                                             *)

(* Every variable keeps its type; a replica between ticks holds nothing,   *)
(* and one at work has a pod in hand and, once it decided, a node.         *)
TypeOK ==
    /\ podState \in [Pods -> PodStates]
    /\ podNode \in [Pods -> Nodes \cup {NoNode}]
    /\ schedulerName \in [Pods -> SchedulerNames \cup {""}]
    /\ nodeState \in [Nodes -> NodeStates]
    /\ requests \subseteq [pod : Pods, node : Nodes]
    /\ step \in [Schedulers -> Steps]
    /\ \A s \in Schedulers :
         /\ queue[s] \subseteq Pods
         /\ hand[s] \in (IF step[s] \in {"wait", "list"} THEN {NoPod} ELSE Pods)
         /\ (target[s] \in Nodes) <=> (step[s] = "post")
         /\ \A n \in Nodes : seen[s][n] \subseteq NodeStates

(* No race of replicas, late requests and restarts ever binds a pod of     *)
(* another scheduler.                                                      *)
ForeignPodsUntouched == \A p \in Pods : podState[p] = "bound" => schedulerName[p] = Predictive

(* The experiment's groups stay apart: unless its creator named this       *)
(* scheduler itself, a pod it binds is labelled for the treatment group,   *)
(* or lives unlabelled in a treatment namespace, be the webhook there or   *)
(* not.                                                                    *)
OnlyTreatmentPodsBound ==
    \A p \in Pods :
        LET r == Request[p] IN
        podState[p] = "bound" /\ r.scheduler # Predictive =>
            r.label = "treatment" \/ (r.label = "" /\ "treatment" \in r.words)

(* A binding is posted only to a node that has been Ready at some moment   *)
(* since the replica took up this very pod: decisions are never carried    *)
(* over from an earlier pod or an earlier tick.                            *)
PostsToFreshlyReadyNode ==
    \A s \in Schedulers :
        step[s] = "post" => "ready" \in seen[s][target[s]]

=============================================================================
