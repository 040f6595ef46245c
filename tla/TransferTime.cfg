SPECIFICATION FairTransfer
CONSTANTS
  MaxSize = 40
  Grace = 4
  MinRate = 2
  MaxDuration = 6
  FrameTimeout = 2
  DurationLimit = 16
INVARIANTS GenuineNotCutOff AnswerInTime
PROPERTIES TransferEnds
CHECK_DEADLOCK FALSE
