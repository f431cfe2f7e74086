------------------------ MODULE MCUserLikeLifecycle ------------------------
(* TLC instances of UserLikeLifecycle.                                     *)
EXTENDS UserLikeLifecycle, TLC

Symmetry == Permutations(Restorers) \cup Permutations(Posts)
CapSymmetry == Permutations(Users) \cup Permutations(Posts)

=============================================================================
