SPECIFICATION FairSpec
CONSTANTS
  n1 = n1 n2 = n2 n3 = n3 n4 = n4
  p1 = p1 p2 = p2 p3 = p3 p4 = p4 p5 = p5
  NoNode = NoNode
  Unlisted = Unlisted
  Nodes <- MCNodes
  Pods <- MCPods
  Clusters <- MCClusters
  MinNodesFloor = 1
  CandidateDrainThreshold = 40
  CPUWeight = 30
  MemoryWeight = 30
  ConsolidationWeight = 20
  DisruptionWeight = 15
  MaxPodsPerNode = 4
  MiB = 1
  Names <- MCNames
  NameOf <- MCNameOf
  HourlyCost <- MCHourlyCost
  Price <- MCPrice
  DefaultPrice = 960
  Used <- MCUsed
  Stores <- MCStores
  MaxSecond = 1
  MaxRuns = 2
INVARIANTS
  TypeOK
  FitsWhenNamesDiffer
  DestinationsRemain
  AnswerIsComplete
  CandidatesAbsorbable
  AccountsAgree
  SnapshotsLast
PROPERTY RunsReturn
