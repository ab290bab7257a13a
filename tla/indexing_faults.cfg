CONSTANTS
  Repos = {r1}
  Jobs = {j1, j2, j3}
  Commits = {c1, c2}
  Workers = {w1, w2}
  Requests = {q1, q2}
  RetrievalSettings = {TRUE, FALSE}
  Faults = {"crash", "database", "filesystem"}
  None = None
  Partial = Partial
SPECIFICATION Spec
SYMMETRY Symmetry
INVARIANTS TypeOK OnePipelinePerRepository StatusFollowsPipeline CompletedServesItsCommit IndInv
