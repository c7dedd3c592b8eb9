--------------------------- MODULE MCCommandLoop ---------------------------
(* Small instances of CommandLoop for TLC.                                 *)
EXTENDS CommandLoop, TLC

CONSTANTS k1, k2

(* Draw keys are interchangeable.                                          *)
Symmetry == Permutations(Keys)
=============================================================================
