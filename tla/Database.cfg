SPECIFICATION MCSpec
CONSTANTS
  Part = {"map", "captchas", "alloc", "regions"}
  v1 = v1  v2 = v2
  Missing = Missing
  Junk = Junk
  Key <- MCKey
  Val <- MCVal
  Hash <- MCHash
  InitCapacity = 2
  Step = 1
  Id = {1, 2, 3, 4, 5}
  Wanted = 5
  Parallel = 2
  Size = {15, 16, 32}  MaxCount = 4  MaxLive = 4  MaxOps = 2
  Top = 4  MaxRegions = 3
SYMMETRY Symmetry
INVARIANTS NoAssertFails Counted Indexed NotOverfull KeepsGenerating
           Tiled FreeLists Journaled WrittenExactly
PROPERTY DictSpec
