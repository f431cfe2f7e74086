----------------------- MODULE MCProfileMaterializer -----------------------
(* TLC instances of ProfileMaterializer.                                   *)
EXTENDS ProfileMaterializer, TLC

Symmetry == Permutations(Workers)

=============================================================================
