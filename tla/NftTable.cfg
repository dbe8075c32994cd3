SPECIFICATION FairSpec
CONSTANTS
  engage = engage
  disengage = disengage
  Policy = {engage, disengage}
  Length <- BatchLength
  NONE = NONE
  Buffer = 5
INVARIANTS AnswerIsComing OnlyOwnAckConfirms
PROPERTIES ImplementsCall CallReturns
