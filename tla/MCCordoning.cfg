SPECIFICATION CordoningSpec
CONSTANTS
  Nodes = {n1, n2, n3}
  Verdicts <- MCVerdicts
  Absent = Absent
  NoNode = NoNode
  MaxUpdates = 2
INVARIANT CordonedScoresZero
