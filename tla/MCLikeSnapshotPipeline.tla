----------------------- MODULE MCLikeSnapshotPipeline -----------------------
(* TLC instances of LikeSnapshotPipeline.                                  *)
EXTENDS LikeSnapshotPipeline, TLC

Symmetry == Permutations(Relays) \cup Permutations(Consumers) \cup Permutations(Tokens)

=============================================================================
