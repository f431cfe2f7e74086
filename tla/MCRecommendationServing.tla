---------------------- MODULE MCRecommendationServing ----------------------
(* Four recent Posts, one older and one to revisit; pages of two.           *)
EXTENDS RecommendationServing

MCRanked == 1..6
MCHistorical == {5}
MCSoft == {6}
MCVolatile == {2, 4}
=============================================================================
