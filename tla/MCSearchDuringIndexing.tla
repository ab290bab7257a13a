----------------------- MODULE MCSearchDuringIndexing -----------------------
(* Bounded instances of SearchDuringIndexing for TLC.                       *)
EXTENDS SearchDuringIndexing, TLC

Symmetry ==
  Permutations(Repos) \cup Permutations(Jobs) \cup Permutations(Commits)
    \cup Permutations(Workers) \cup Permutations(Requests)
    \cup Permutations(Searches)

=============================================================================
