CONSTANTS
  Repos = {r1, r2}
  Jobs = {j1, j2}
  Commits = {c1, c2}
  Workers = {w1}
  Requests = {q1}
  RetrievalSettings = {TRUE, FALSE}
  Faults = {"crash", "filesystem", "database"}
  Searches = {s1, s2}
  CacheSize = 1
  None = None
  Partial = Partial
SPECIFICATION SearchSpec
SYMMETRY Symmetry
INVARIANTS SearchTypeOK CacheHoldsTheInstalledIndex UndisturbedSearchIsExact
