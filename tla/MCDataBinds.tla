---------------------------- MODULE MCDataBinds -----------------------------
(* A bind that hides another, two binds in both directions on one value,   *)
(* one of each order, and one from a computed property.  The value that is *)
(* computed is mirrored into the one that the others show.                 *)
EXTENDS DataBinds, TLC

CONSTANTS s1, s2

kinds == <<"toTarget", "toTarget", "twoWay", "toSource", "twoWay">>
sources == <<s2, s1, s2, s1, s2>>
hides == <<2, None, None, None, None>>
first == {3}
mirrors == (s1 :> s2) @@ (s2 :> None)
=============================================================================
