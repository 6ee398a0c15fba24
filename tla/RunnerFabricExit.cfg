SPECIFICATION Spec
CONSTANTS
  Callers = {alice, bob}
  MaxFrames = 2
INVARIANT
  FabricExitIsReported
CHECK_DEADLOCK FALSE
