----------------------------- MODULE MCBrowser -----------------------------
(* One tab on a retro of one or two cards; the first is there when the page  *)
(* is loaded.                                                                *)
EXTENDS Browser

CONSTANTS r1, i1, i2, t1, t2, u1, q1, s1

OneRetro == {r1}
OneItem  == {i1}
TwoItems == {i1, i2}
OneHome  == [x \in OneItem |-> r1]
TwoHomes == [x \in TwoItems |-> r1]

TextSymmetry == Permutations(Texts)

\* States that differ in the last answer or in own events whose turn is over
\* behave alike.
View == <<item, archives, log, edit, arch, now, shownVars, cleared, queue, cursor, fetches, req,
          timerVars, settling, {e \in applied : e > cursor \/ e \in Range(queue)}>>
=============================================================================
