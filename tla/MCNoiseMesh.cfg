SPECIFICATION Spec
CONSTANTS
  s0 = s0
  s1 = s1
  d0 = d0
  d1 = d1
  east = east
  west = west
  Syndromes <- const_Syndromes
  Datas <- const_Datas
  Ports <- const_Ports
  opposite <- const_opposite
  data_at <- const_data_at
  syndrome_at <- const_syndrome_at
  Measurements <- const_Measurements
  MailboxCapacity = 3
  U32 = 8
  MaxCutoff = 1
  MaxStep = 1
  MaxUpdates = 1
  MaxQueries = 2
SYMMETRY ring_symmetry
INVARIANTS
  NoCellStops
  EventsExplainErrors
  CutoffIsPunctual
  QuietIsFinal
  RepliesMatchFrame
  EveryQueryAnswered
CHECK_DEADLOCK FALSE
