SPECIFICATION Spec
CONSTANTS
  Items = {a, b, c}
  Junk = Junk
  Sizes = {0, 1, 3, 4}
  MaxLength = 4
INVARIANTS ListInv InBounds
PROPERTY HoldsList
