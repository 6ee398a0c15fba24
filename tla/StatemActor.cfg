SPECIFICATION Spec
CONSTANTS
  MailboxCapacity = 2
  Phases = {"p", "q"}
  MaxMessages = 4
  MaxEntries = 3
  MaxEffects = 1
INVARIANTS
  NoOvertaking
  PostponedThisOccupancy
CHECK_DEADLOCK FALSE
