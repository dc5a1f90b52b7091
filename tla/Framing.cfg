SPECIFICATION Spec
CONSTANTS
  Base = 2
  Limit = 2
  MaxSize = 3
  MaxBytes = 10
INVARIANT InStep
PROPERTY KeepsPromise
