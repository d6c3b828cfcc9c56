SPECIFICATION Spec
CONSTANT FileLimit = 2
INVARIANT AnsweredOnce
CHECK_DEADLOCK FALSE
