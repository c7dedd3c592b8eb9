---- MODULE MCUpdatePass ----
(* All shapes of trees, numbered breadth first, and one in which a         *)
(* constraint may have for its target a solo that is a child of another.   *)
EXTENDS UpdatePass

AllTrees == {f \in [1..N -> 0..N] : \A c \in 1..N : /\ f[c] < c /\ (f[c] = 0 <=> c = 1)
                                                   /\ \A d \in 1..c : f[d] <= f[c]}
SoloTree == {<<0, 1, 2, 2, 1>>}
====
