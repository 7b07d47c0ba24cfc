SPECIFICATION Spec
CONSTANTS
  Callers = {c1}
  NoCaller = NoCaller
  Scrapers = {s1}
  MaxStarts = 1
INVARIANT DisposedIsQuiet
