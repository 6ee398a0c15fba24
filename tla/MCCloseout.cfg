SPECIFICATION CloseoutSpec
CONSTANTS
  a = a
  b = b
  d0 = d0
  d1 = d1
  Coordinates <- const_Coordinates
  Datas <- const_Datas
  Directions <- const_Directions
  neighbor <- const_neighbor
  data_of <- const_data_of
  measurement <- const_measurement
  MaxCutoff = 1
  MaxStep = 1
  MaxMoves = 1
SYMMETRY turns
INVARIANTS
  WitnessIsComplete
  CloseoutCompletes
CHECK_DEADLOCK FALSE
