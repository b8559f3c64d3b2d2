SPECIFICATION Spec
CONSTANTS
  probe = probe
  admin = admin
  Goroutines = {probe, admin}
  Endpoint <- Pages
  Verdicts = {0, 422}
  Nobody = Nobody
  NoAnswer = NoAnswer
  MaxCalls = 2
  MaxCrashes = 0
INVARIANT ShutdownIsGraceful
CHECK_DEADLOCK FALSE
