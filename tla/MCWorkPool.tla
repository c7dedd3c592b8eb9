----------------------------- MODULE MCWorkPool -----------------------------
(* Small instances of WorkPool for TLC.                                    *)
EXTENDS WorkPool

CONSTANTS t1, t2, o1, o2, w1, w2

(* The tasks but the first belong to one owner.                            *)
MCOwnerOf == [t \in Tasks |-> IF t = t1 THEN o2 ELSE o1]
=============================================================================
