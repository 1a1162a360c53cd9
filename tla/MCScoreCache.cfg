SPECIFICATION Spec
CONSTANTS
  Nodes = {n1, n2, n3}
  Verdicts <- MCVerdicts
  Absent = Absent
  NoNode = NoNode
  MaxUpdates = 2
INVARIANTS
  TypeOK
PROPERTIES
  CandidatesLoseToOthers
  StableSafeNodeWins
SYMMETRY NodeSymmetry
