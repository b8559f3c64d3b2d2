SPECIFICATION FairSpec
CONSTANTS
  KeyIds = {1, 2}
  HistoryLimit = 2
  MaxVisits = 2
  MaxRotations = 2
  MaxRestarts = 1
  MaxFailures = 1
INVARIANTS HistoryTellsTheTruth HistoryIsComplete
PROPERTIES DisplayNeverGoesBack DisplayConverges
