SPECIFICATION LiveSpec
CONSTANTS
  Build = {b1}
  Op = {o1, o2}
  NoOp = NoOp
  NoBuild = NoBuild
  MaxRestarts = 1
INVARIANTS EarlyCancelSticks InProgressIsDriven ReadyHasOutput
PROPERTIES BuildEnds
CHECK_DEADLOCK FALSE
