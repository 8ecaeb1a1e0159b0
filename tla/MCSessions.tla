----------------------------- MODULE MCSessions -----------------------------
(* One user on two browsers.                                                  *)
EXTENDS Sessions, TLC

CONSTANTS b1, b2, f1, f2, alice

BothLogins  == {f1, f2}
SameJar     == (f1 :> b1) @@ (f2 :> b2)
SameAccount == [f \in BothLogins |-> alice]
=============================================================================
