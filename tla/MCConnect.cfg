CONSTANTS
  RetryInterval = 3
  DefaultTimeout = 6
  Timeouts <- MCTimeouts
  Unset = Unset
  GoodFroms <- MCGoodFroms
SPECIFICATION ConnectSpec
INVARIANTS KeepsToTimeout RidesOut
PROPERTIES Paced Returns
CHECK_DEADLOCK FALSE
