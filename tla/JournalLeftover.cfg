SPECIFICATION Spec
CONSTANTS
  a = a  b = b  junk = junk
  Loc <- MCLoc
  Val <- MCVal
  InitVal = a
  Garbage = junk
  MaxJournal = 6
  MaxCrashes = 1
  MaxNesting = 1
PROPERTY RejectedIsIgnored
