------------------------ MODULE MCRepositoryIndexing ------------------------
(* Bounded instances of RepositoryIndexing for TLC.                         *)
EXTENDS RepositoryIndexing, TLC

\* Ids carry no order, so states that differ by a renaming are one state.
Symmetry ==
  Permutations(Repos) \cup Permutations(Jobs) \cup Permutations(Commits)
    \cup Permutations(Workers) \cup Permutations(Requests)

=============================================================================
