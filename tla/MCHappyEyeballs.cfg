SPECIFICATION DialFairSpec
CONSTANT N = 4
INVARIANTS AnswerIsOpen ErrorsComplete NothingLeaks
PROPERTIES OthersClosed EveryAddressTried
CHECK_DEADLOCK FALSE
