--------------------------- MODULE MCMessageLoop ---------------------------
(* Handles and listeners for TLC's instance of MessageLoop.                *)
EXTENDS MessageLoop, TLC
CONSTANTS h1, h2, h3, l1, l2, l3
=============================================================================
