----------------------------- MODULE MCPostReads -----------------------------
(***************************************************************************)
(* Three users: m, whose Posts are imported, and a, both followed; b is    *)
(* muted. Post 1 has a reply and a quote, and m has reposted it; the first *)
(* page of the Following timeline does not look at all that m did.         *)
(***************************************************************************)
EXTENDS PostReads

CONSTANTS m, a, b

MCActors == {m, a, b}
MCSeeds == {-1, 1}

MCPost(id, by, at, parent, quote) == [id |-> id, by |-> by, at |-> at, parent |-> parent, quote |-> quote, seenAt |-> At(id), live |-> TRUE]

MCStart ==
  [posts |-> {MCPost(1, a, 0, 0, 0), MCPost(2, m, 0, 0, 0), MCPost(3, m, 1, 0, 1), MCPost(4, b, 2, 1, 0), MCPost(5, m, 1, 0, 0)},
   reposts |-> {[id |-> 6, by |-> m, post |-> 1], [id |-> 7, by |-> a, post |-> 3]},
   follows |-> {[id |-> 2, by |-> m], [id |-> 3, by |-> a]},
   mutes |-> {[id |-> 4, by |-> b]},
   bookmarks |-> {[id |-> 4, post |-> 1], [id |-> 5, post |-> 3]},
   likes |-> {[id |-> 6, post |-> 1], [id |-> 7, post |-> 4]},
   notices |-> {[id |-> 3, by |-> b, post |-> 0, at |-> 3], [id |-> 1, by |-> a, post |-> 1, at |-> 2], [id |-> 2, by |-> m, post |-> 1, at |-> 2]},
   serial |-> 8]
=============================================================================
