SPECIFICATION Spec
CONSTANTS
  None = None
  Rejected = Rejected
  Turns <- MCTurns
  Units <- MCUnits
INVARIANTS
  FramedAsSent
  AnswerHonoured
CHECK_DEADLOCK FALSE
