SPECIFICATION FairSpec
CONSTANTS
  MaxPowerCycles = 3
  MaxFlashes = 2
INVARIANTS LInv AtMostOnce ConfiguredIsRegistered
PROPERTIES CredentialsKept ComesOnline TornRecovers
