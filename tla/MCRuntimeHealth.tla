--------------------------- MODULE MCRuntimeHealth ---------------------------
(***************************************************************************)
(* A pipeline of one reader and one of two, the generations of the Post    *)
(* embedding group, a relay; an API process with two requests.             *)
(***************************************************************************)
EXTENDS RuntimeHealth

CONSTANTS s1, s2

MCPipelines ==
  {[kind |-> "reader", slots |-> {s1}, budget |-> 2], [kind |-> "reader", slots |-> {s1, s2}, budget |-> 1],
   [kind |-> "generation", slots |-> {s1}, budget |-> 2], [kind |-> "plain", slots |-> {s1}, budget |-> 3]}
=============================================================================
