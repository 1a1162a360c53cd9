SPECIFICATION FairSpec
CONSTANTS
  c1 = c1 c2 = c2 s1 = s1 s2 = s2
  web = web db = db agent = agent batch = batch filler = filler
  NoNode = NoNode
  Never = Never
  Nodes <- MCNodes
  Pods <- MCPods
  Calls <- MCCalls
  Configs <- MCConfigs
  MaxPodsPerNode = 110
  MiB = 100
  MinAvailableCapacityPct = 20
  BoundaryAccepted = FALSE
  Hour = 2
  Cooldown = 1
  MaxTime = 2
  Recorded <- MCRecorded
  MaxExecuted = 2
INVARIANTS
  EvictionTypeOK
  TargetsPassGates
  OneNodePerPlan
  PlanIsReferencePlan
PROPERTIES
  CallsReturn
  KeepsPromise
