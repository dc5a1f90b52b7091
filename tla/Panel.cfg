SPECIFICATION FairSpec
CONSTANTS
  MaxPowerCycles = 1
  MaxFlashes = 1
  ResetTimeout = 2
INVARIANT PInv
PROPERTIES HeldToDelete ReleaseRestarts
