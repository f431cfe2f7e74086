--------------------------- MODULE MCPostEmbedding ---------------------------
(* Two Posts on two partitions; a second member takes over the first one.   *)
(* A batch of two comes about when the first Post is edited or requested    *)
(* again, or with a message that does not decode.                           *)
EXTENDS PostEmbedding, TLC

CONSTANTS m1, m2, q1, q2

MCPosts == {1, 2}
MCPartitionOf == (1 :> q1) @@ (2 :> q2)
MCAssignments == {(q1 :> m1) @@ (q2 :> m1), (q1 :> m2) @@ (q2 :> m1)}
=============================================================================
