------------------------------ MODULE MCNetwork ------------------------------
(* Three networks: home and office hand out the same address, the train none   *)
(* that works.  One list of nameservers names holepunch itself.                *)
EXTENDS Network

CONSTANTS home, office, train, s1, s2

MCNetworks == {home, office, train}
MCAddrsOf == [n \in MCNetworks |-> IF n = train THEN "b" ELSE "a"]
MCServersOf ==
  [n \in MCNetworks |-> IF n = home THEN <<s1, s2>> ELSE IF n = office THEN <<Self, s2>> ELSE <<>>]

=============================================================================
