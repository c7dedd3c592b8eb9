--------------------------- MODULE MCSyncPointer ---------------------------
(* Small instances of SyncPointer for TLC.                                 *)
EXTENDS SyncPointer, TLC

CONSTANTS s1, s2, a1, a2, p1, p2

(* One artboard has all the machines but the last one.                     *)
MCArtboardOf == [s \in Machines |-> IF s = s2 THEN a2 ELSE a1]

(* The threads are interchangeable.                                        *)
Symmetry == Permutations(Threads)
=============================================================================
