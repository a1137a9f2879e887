----------------------------- MODULE MCMonitor ------------------------------
(* Two AI connections, one of which leaks, and one of another kind; three  *)
(* exit identities, two of one address; a watch of four ticks.             *)
EXTENDS Monitor

CONSTANTS s, k, o, ip1, ip2

MCKind == [c \in Conns |-> IF c = s THEN "static" ELSE IF c = k THEN "leak" ELSE "other"]
MCIdentities == {[ip |-> ip1, fits |-> TRUE], [ip |-> ip1, fits |-> FALSE],
                 [ip |-> ip2, fits |-> TRUE]}
=============================================================================
