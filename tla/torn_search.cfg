CONSTANTS
  Repos = {r1}
  Jobs = {j1, j2}
  Commits = {c1, c2}
  Workers = {w1}
  Requests = {q1}
  RetrievalSettings = {TRUE}
  Faults = {}
  Searches = {s1}
  CacheSize = 1
  None = None
  Partial = Partial
SPECIFICATION SearchSpec
SYMMETRY Symmetry
INVARIANT SearchAnswersFromItsCommit
