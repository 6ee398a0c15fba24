SPECIFICATION WindowSpec
CONSTANTS
  CONTENDER_COUNT = 3
  ENTRY_EFFECT_CAPACITY = 2
  EntryEffectLists <- const_EntryEffectLists
INVARIANTS
  TokensAreConserved
PROPERTIES
  EveryRequestIsGranted
CHECK_DEADLOCK FALSE
