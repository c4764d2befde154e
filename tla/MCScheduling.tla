---------------------------- MODULE MCScheduling ----------------------------
\* Small instances of ConnectionScheduling for TLC.
EXTENDS ConnectionScheduling, TLC

CONSTANTS c1, c2, p1, p2

\* One project, all connections in it.
OneProject == [c \in Conn |-> p1]
\* Two projects with one connection each.
OwnProject == [c \in Conn |-> IF c = c1 THEN p1 ELSE p2]

\* Run ids and worker threads are interchangeable (safety runs only).
Symmetry == Permutations(Run) \cup Permutations(Handler)
=============================================================================
