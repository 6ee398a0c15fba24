SPECIFICATION Spec
CONSTANTS
  Capacity = 2
  Owners = {o1, o2}
  a = a
  b = b
  undefined = undefined
  Messages <- MCMessages
  ClauseLists <- MCClauseLists
  MaxReservations = 3
  MaxSelections = 2
  MaxGeneration = 1
  MaxRebuilds = 1
INVARIANTS
  ReservationExact
  ReservationReclaimable
  SelectionStable
PROPERTIES
  NoLostMessage
  ImplementsAtomicMailbox
CHECK_DEADLOCK FALSE
