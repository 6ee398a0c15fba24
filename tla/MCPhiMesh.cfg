SPECIFICATION Spec
CONSTANTS
  c0 = c0
  c1 = c1
  c2 = c2
  east = east
  west = west
  MailboxCapacity = 3
  Cells <- const_Cells
  Ports <- const_Ports
  neighbor <- const_neighbor
  opposite <- const_opposite
  Rounds = 2
  Values <- const_Values
  U32 = 3
SYMMETRY ring_symmetry
INVARIANTS
  NoCellStops
  CorrectionsExplainAnyons
  ComparisonAgrees
  NeighborsInLockstep
  EveryFieldCountedOnce
  SomeCellGoesOn
