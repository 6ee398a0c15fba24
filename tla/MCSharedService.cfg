SPECIFICATION FairSpec
CONSTANTS
  CONTENDER_COUNT = 1
  ENTRY_EFFECT_CAPACITY = 2
  EntryEffectLists <- const_EntryEffectLists
  ACTOR_COUNT = 2
  PRODUCER_COUNT = 2
  MailboxCapacity = 2
  Phases = {"p", "q"}
  initial_phase = "p"
  Arrivals <- const_Arrivals
  MaxEntries = 2
INVARIANTS
  TokensAreConserved
PROPERTIES
  ImplementsStatem
  EveryMessageIsDispatched
CHECK_DEADLOCK FALSE
