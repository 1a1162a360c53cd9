SPECIFICATION FairSpec
CONSTANTS
  flapping = flapping stable = stable
  control = control treatment = treatment named = named
  Schedulers = {a, b}
  NoNode = NoNode
  NoPod = NoPod
  Nodes = {flapping, stable}
  Pods = {control, treatment, named}
  NodeOrder <- MCNodeOrder
  PodOrder <- MCPodOrder
  Request <- MCRequest
  StableNodes = {stable}
  Served = {named}
  Deletable = {named}
INVARIANTS
  TypeOK
  ForeignPodsUntouched
  OnlyTreatmentPodsBound
  PostsToFreshlyReadyNode
 
