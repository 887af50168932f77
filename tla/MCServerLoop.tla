---------------------------- MODULE MCServerLoop ----------------------------
\* ServerLoop with two nodes, one on each side of ADMIN in the map.
EXTENDS ServerLoop, TLC

CONSTANTS n1, n2

MCRank == [i \in IDs |-> IF i = n1 THEN 1 ELSE IF i = Admin THEN 2 ELSE 3]

=============================================================================
