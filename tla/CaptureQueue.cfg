SPECIFICATION Spec
CONSTANTS
  Captures = {page, old}
  Legacy = {old}
  MaxQueue = 2
  MaxTokens = 2
  MaxForms = 2
  MaxSends = 2
  MaxWaiting = 1
INVARIANTS
  TypeOK
  PassedAreLabelled
PROPERTIES
  KeepsPromise
  AcceptedStands
