\* The amount of loss the comments of enqueue promise.
CONSTANTS
  Size = 4
  MaxStored = 14
SPECIFICATION RingSpec
PROPERTY LosesAtMostTwo
CHECK_DEADLOCK FALSE
