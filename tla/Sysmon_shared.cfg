SPECIFICATION Spec
CONSTANTS
  dashboard = dashboard
  scrape = scrape
  Callers = {dashboard, scrape}
  Collector = scrape
  Pids = {1, 2}
  Workloads <- All
  Word = 1024
  MaxTime = 5
  MaxResets = 2
  MaxFailures = 1
  Nobody = Nobody
  NoSample = NoSample
INVARIANTS PercentInRange NothingCountedTwice NothingLost
