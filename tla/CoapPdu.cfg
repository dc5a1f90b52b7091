SPECIFICATION Spec
CONSTANTS
  Numbers <- SomeNumbers
  Values <- ShortValues
  Tokens <- SomeTokens
  Payloads <- SomePayloads
  MaxOptions = 3
  CallerStops = TRUE
INVARIANTS PduInv ReadBack
PROPERTY HoldsMessage
