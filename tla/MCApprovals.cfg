\* Two questions, a wait of two, a history of one; two faults.
SPECIFICATION FairSpec
CONSTANTS
  Questions = {q1, q2}
  None = None
  Timeout = 2
  HistoryCap = 1
  MaxTrouble = 2
PROPERTIES
  ExpiryIsFair
  DecidesOnce
  HooksHear
CHECK_DEADLOCK FALSE
