-------------------------- MODULE MCInlineWorkPool --------------------------
(* A small instance of InlineWorkPool for TLC.                             *)
EXTENDS InlineWorkPool

CONSTANTS t1, t2, t3, t4, o1, o2

(* The tasks but the first belong to one owner.                            *)
MCOwnerOf == [t \in Tasks |-> IF t = t1 THEN o2 ELSE o1]
=============================================================================
