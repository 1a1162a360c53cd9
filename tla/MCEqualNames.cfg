SPECIFICATION SelectionSpec
CONSTANTS
  n1 = n1 n2 = n2 n3 = n3 n4 = n4
  p1 = p1 p2 = p2 p3 = p3 p4 = p4 p5 = p5
  NoNode = NoNode
  Nodes <- MCNodes
  Pods <- MCPods
  Clusters <- MCClusters
  CandidateDrainThreshold = 80
  Names <- MCNames
  NameOf <- MCNameOf
  MaxPodsPerNode = 3
  MiB = 1
CHECK_DEADLOCK FALSE
INVARIANT GuaranteedToFit
