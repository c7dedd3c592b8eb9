----------------------------- MODULE MCPromises -----------------------------
(* Small instances of Promises for TLC.                                    *)
EXTENDS Promises, TLC

CONSTANTS p1, p2, p3, p4, p5

(* Promises are interchangeable until they are made.                       *)
Symmetry == Permutations(Promises)

MCHandlerSets == {{"Fulfilled"}, {"Rejected"}}
=============================================================================
