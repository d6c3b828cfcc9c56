SPECIFICATION FairSpec
CONSTANT FileLimit = 3
INVARIANTS Counted OneAnswer PostedAreProcessed NothingLeft
PROPERTIES Answered Freed
CHECK_DEADLOCK FALSE
