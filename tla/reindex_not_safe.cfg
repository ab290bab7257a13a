CONSTANTS
  Repos = {r1}
  Jobs = {j1, j2}
  Commits = {c1, c2}
  Workers = {w1, w2}
  Requests = {q1, q2}
  RetrievalSettings = {TRUE}
  Faults = {"database"}
  None = None
  Partial = Partial
SPECIFICATION Spec
INVARIANT FailedReindexKeepsIndex
