CONSTANTS
  Repos = {r1, r2}
  Jobs = {j1, j2}
  Commits = {c1}
  Workers = {w1}
  Requests = {q1, q2}
  RetrievalSettings = {TRUE}
  Faults = {"crash"}
  None = None
  Partial = Partial
SPECIFICATION FairSpec
INVARIANTS NoLostJob TempCheckoutsHaveOwners
PROPERTIES ImplementsService EveryJobEnds
