------------------------------ MODULE MCPages ------------------------------
(* Two authors and three cards in two columns.  TwoLetters and LongWords have *)
(* the same initials, and TwoLetters has no longer ones.                      *)
EXTENDS Pages, TLC

CONSTANTS i1, i2, i3, a1, a2

TwoColumns   == <<"GOOD", "BAD">>
TwoAndOne    == (i1 :> "GOOD") @@ (i2 :> "GOOD") @@ (i3 :> "BAD")
CardSymmetry == Permutations({i1, i2})

TwoLetters   == << <<"S">>, <<"U">> >>
LongWords    == << <<"S", "T">>, <<"U", "H">> >>
Unlike       == << <<"X", "Y", "Z">> >>
ThreeNames   == {TwoLetters, LongWords, Unlike}
=============================================================================
