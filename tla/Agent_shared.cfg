SPECIFICATION FairSpec
CONSTANTS
  probe = probe
  admin = admin
  Goroutines = {probe, admin}
  Endpoint <- Pages
  Verdicts = {0, 422}
  Nobody = Nobody
  NoAnswer = NoAnswer
  MaxCalls = 2
  MaxCrashes = 2
INVARIANTS TypeOK AnswersMatch RotateAnswerIsTrue OneFailurePerCrash
PROPERTY CallReturns
CHECK_DEADLOCK FALSE
