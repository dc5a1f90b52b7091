SPECIFICATION Spec
CONSTANTS
  PortIds = {1, 2, 3}
  Low = {2}
  Digital = {1, 2}
  Output = {1, 2, 3}
  Blobs = {1, 2}
  Length <- MCLength
  Chunk = 2
  PortLists <- MCPortLists
  Values <- MCValues
  Texts <- MCTexts
  MaxStream = 2
  MaxCuts = 2
INVARIANT SetByItsAction
