SPECIFICATION FairSpec
CONSTANTS
  Callers = {alice, bob}
  MaxFrames = 2
INVARIANT
  AnswersAgree
PROPERTY
  EveryCallIsAnswered
CHECK_DEADLOCK FALSE
