SPECIFICATION Spec
CONSTANTS
  n1 = n1 n2 = n2 n3 = n3 n4 = n4
  p1 = p1 p2 = p2 p3 = p3 p4 = p4
  NoNode = NoNode
  Nodes <- MCNodes
  Pods <- MCPods
  Clusters <- MCClusters
  MinNodesFloor = 1
  CandidateDrainThreshold = 40
  CPUWeight = 30
  MemoryWeight = 30
  ConsolidationWeight = 20
  DisruptionWeight = 15
INVARIANTS
  TypeOK
  CapacityRespected
  CandidatesDrainCompletely
  ReportPartitionsEligible
  FloorIsSafest
  TieFreeDeterminism
