SPECIFICATION Spec
CONSTANTS
  Wrap = 48
  Limit <- SomeLimits
  Gap = 3
  Horizon = 20
INVARIANTS NeverEarly NeverLate
