\* One credential, three clients revoking it, one exchange at a time; one fault.
SPECIFICATION FairSpec
CONSTANTS
  Launches = {l1}
  Clients = {c1, c2, c3}
  Exchanges = {e1}
  None = None
  MaxTrouble = 1
INVARIANTS
  WithdrawnIsSilent
  RevokedOnce
PROPERTIES
  NothingNewInjected
  RevokeAnswered
CHECK_DEADLOCK FALSE
