SPECIFICATION Spec
CONSTANTS
  None = None
  Hash <- MCHash
  MaxLoad = 1
  GrowthFactor = 2
  MaxIndex = 4
  Char = {1, 2}
  Key <- MCKey
  Probe <- MCProbe
  Value <- MCValue
  InitBuckets = 2
  BurstThreshold = 4
  MaxBuckets = 2
INVARIANTS
  NoEmptyNode
  FindsWhatIsThere
  SearchesComplete
  EraseReturnsNext
