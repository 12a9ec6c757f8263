SPECIFICATION Spec
CONSTANTS
  Max = 9
  UsizeMax = 6
  Capacity = 3
  LowEnd = 0
  UsableRanges <- Usable
  ReservedRanges <- Reserved
  MaxReports = 2
  Sizes = {1, 3}
  Aligns = {1, 2}
  Regions <- OneNode
INVARIANT ReservedStaysOut
PROPERTIES AllocatesRight FullOnlyWhenFragmented ImplementsFreeMemory
CHECK_DEADLOCK FALSE
