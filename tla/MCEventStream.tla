--------------------------- MODULE MCEventStream ---------------------------
(* Two retros.  Tab c1 shows board r1; r2 is the other team's board, which  *)
(* shares the notifier and its cursor.                                      *)
EXTENDS EventStream, TLC

CONSTANTS r1, r2, c1, w1, w2

MCRetros  == {r1, r2}
MCClients == {c1}
MCBoard   == [c \in MCClients |-> r1]
MCWriters == {w1, w2}

Symmetry  == Permutations(MCWriters)
=============================================================================
