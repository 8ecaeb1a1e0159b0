------------------------------ MODULE MCAccess ------------------------------
(* Two organisations, two teams and a retro.                                 *)
EXTENDS Access

CONSTANTS o1, o2, n1, n2, r1

\* Two organisations, or one that is configured twice.
TwoOrOneTwice == {<<o1, o2>>, <<o1, o1>>}
=============================================================================
