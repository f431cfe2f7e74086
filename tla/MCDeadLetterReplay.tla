------------------------ MODULE MCDeadLetterReplay ------------------------
(* TLC instances of DeadLetterReplay: the events that producers emit.      *)
EXTENDS DeadLetterReplay

E(id, pipe, flaw, kind, version, day, parent) ==
  [id |-> id, pipe |-> pipe, flaw |-> flaw, kind |-> kind, key |-> "k", version |-> version, day |-> day, parent |-> parent]

\* A like, the like after an unlike, and an undecodable message; an impression
\* that is late, its click, and one that is on time.
MCEvents ==
  { E(1, "notification", "none", "notify", 1, 1, "p"),
    E(2, "notification", "none", "notify", 3, 1, "p"),
    E(3, "notification", "payload", "silent", 0, 1, "p"),
    E(4, "metrics", "none", "impression", 0, 2, "p"),
    E(5, "metrics", "none", "click", 0, 2, "p"),
    E(6, "metrics", "none", "impression", 0, 1, "p") }

=============================================================================
