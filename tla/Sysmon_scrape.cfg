SPECIFICATION Spec
CONSTANTS
  dashboard = dashboard
  scrape = scrape
  Callers = {dashboard, scrape}
  Collector = scrape
  Pids = {1, 2}
  Workloads <- Idle
  Word = 1024
  MaxTime = 3
  MaxResets = 0
  MaxFailures = 0
  Nobody = Nobody
  NoSample = NoSample
INVARIANT SinceLastScrape
