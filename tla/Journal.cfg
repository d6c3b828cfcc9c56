SPECIFICATION Spec
CONSTANTS
  a = a  b = b  junk = junk
  Loc <- MCLoc
  Val <- MCVal
  InitVal = a
  Garbage = junk
  MaxJournal = 4
  MaxCrashes = 1
  MaxNesting = 2
INVARIANTS Atomic NothingForgotten
PROPERTY WriteAhead
