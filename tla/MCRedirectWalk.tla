--------------------------- MODULE MCRedirectWalk ---------------------------
(* An instance of RedirectWalk for TLC: two literature records that merge  *)
(* with a third, and an author record that cannot be merged with them.     *)
EXTENDS RedirectWalk

CONSTANTS r1, r2, r3, a1, t1

MCTypeOf == [r \in Recid |-> IF r = a1 THEN "aut" ELSE "lit"]
=============================================================================
