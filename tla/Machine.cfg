SPECIFICATION FairSpec
CONSTANTS
  MailboxCapacity = 2
  Phases = {"p", "q"}
  Malformed = {4}
  MaxMessages = 4
  MaxEntries = 3
  MaxEffects = 2
INVARIANTS
  CreditConserved
PROPERTIES
  CreditGranted
  ImplementsStatem
CHECK_DEADLOCK FALSE
