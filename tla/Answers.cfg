SPECIFICATION MCSpec
CONSTANTS
  Subs = {s1, s2, s3}
  CardSubs = {s1, s2}
  None = None
  MaxRestarts = 2
  MaxFaults = 0
INVARIANTS OneAnswer AcceptedWasSent
PROPERTIES ImplementsAnswerRecord FactsReachTheCard
CHECK_DEADLOCK FALSE
