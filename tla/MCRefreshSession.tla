-------------------------- MODULE MCRefreshSession --------------------------
(* TLC instances of RefreshSession.                                        *)
EXTENDS RefreshSession, TLC

Symmetry == Permutations(Requests) \cup Permutations(Handlers) \cup Permutations(Passwords)

=============================================================================
