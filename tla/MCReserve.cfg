SPECIFICATION Spec
CONSTANTS
  n1 = n1 n2 = n2 n3 = n3
  web = web db = db api = api job = job
  NoNode = NoNode
  Never = Never
  Nodes <- MCNodes
  Pods <- MCPods
  Clusters <- MCCrowded
  Configs <- Parallel
  MaxPodsPerNode = 110
  MiB = 100
  MinAvailableCapacityPct = 20
  BoundaryAccepted = FALSE
  Hour = 4
  Cooldown = 1
  MaxTime = 3
  MinNodesFloor = 2
  CandidateDrainThreshold = 40
  CPUWeight = 30
  MemoryWeight = 30
  ConsolidationWeight = 20
  DisruptionWeight = 15
INVARIANT ReserveSurvivesPlan
