CONSTANTS
  Handler = h
  Pollers = {p}
  MaxMessages = 4
  NoMessage = none
SPECIFICATION Spec
PROPERTY FailureIsFinal
CHECK_DEADLOCK FALSE
