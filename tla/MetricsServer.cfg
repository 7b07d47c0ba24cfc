SPECIFICATION FairSpec
CONSTANTS
  Callers = {c1, c2}
  NoCaller = NoCaller
  Scrapers = {s1, s2}
  MaxStarts = 2
INVARIANTS TypeOK WorkerHasItsToken StoppedIsQuiet HeldByTheWorker
PROPERTIES StopEnds DisposeCloses ScrapeEnds
