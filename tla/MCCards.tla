------------------------------- MODULE MCCards -------------------------------
(* Two instances.  "Board": one team's board with two cards and an action    *)
(* item, another team's card, and two archive requests at the same time.     *)
(* "Timer": one card through a longer life, edited and archived on the way.  *)
EXTENDS Cards

CONSTANTS r1, r2, i1, i2, i3, a1, t1, t2, u1, u2, q1, q2

BoardRetros      == {r1, r2}
BoardItems       == {i1, i2, i3}
BoardActionItems == {a1}
BoardHome        == [x \in {i1, i2, i3, a1} |-> IF x = i3 THEN r2 ELSE r1]

TimerRetros      == {r1}
TimerItems       == {i1}
TimerHome        == [x \in {i1} |-> r1]

BothTexts        == {t1, t2}

BoardDurations   == {-1, 9}

BoardSymmetry    == Permutations({q1, q2}) \cup Permutations({i1, i2})
=============================================================================
