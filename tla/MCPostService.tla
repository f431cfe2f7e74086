---------------------------- MODULE MCPostService ----------------------------
(* One image; a reply with it, published twice with one key, and a quote     *)
(* with the same image; two collectors.  Two claimants of one job.           *)
EXTENDS PostService

CONSTANTS m1, a1, a2, a3, g1, g2

MCKeys == <<"medium", "manifest">>
MCKeyOf == [a \in Attempts |-> IF a = a3 THEN "k2" ELSE "k1"]
MCPrintOf == [a \in Attempts |-> "f"]
MCKindOf == [a \in Attempts |-> IF a = a3 THEN "quote" ELSE "reply"]
MCMediaOf == [a \in Attempts |-> Media]
=============================================================================
