------------------------------ MODULE MCLikes ------------------------------
(* Two tabs of one user and a tab of another one, on a board of two cards.   *)
EXTENDS Likes

CONSTANTS i1, i2, alice, bob, t1, t2, t3

MCItems == {i1, i2}
MCUsers == {alice, bob}
MCTabs  == {t1, t2, t3}
MCOwner == [t \in MCTabs |-> IF t = t3 THEN bob ELSE alice]

MCSymmetry == Permutations({t1, t2}) \cup Permutations({i1, i2})
=============================================================================
