----------------------- MODULE MCLikeBehaviorPipeline -----------------------
(* TLC instances of LikeBehaviorPipeline.                                  *)
EXTENDS LikeBehaviorPipeline, TLC

Symmetry == Permutations(Relays) \cup Permutations(Consumers) \cup Permutations(Tokens)

=============================================================================
