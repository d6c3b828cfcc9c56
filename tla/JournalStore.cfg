SPECIFICATION FairCleanSpec
CONSTANTS
  a = a  b = b  junk = junk
  Loc <- MCLoc
  Val <- MCVal
  InitVal = a
  Garbage = junk
  MaxJournal = 7
  MaxCrashes = 2
  MaxNesting = 1
PROPERTIES Applied StoreSpec
