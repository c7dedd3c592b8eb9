--------------------------- MODULE MCCommandServer ---------------------------
(* A small instance, for TLC, of the two parts of a CommandServer that     *)
(* execute its commands: the handle tables and the file assets.            *)
EXTENDS CommandServer, FileAssets, TLC

CONSTANTS f1, f2, a1, a2, s1, s2, v1, v2,
          image1, image2, font1, image, font, n1, n2, n3

MCKindOf == [a \in Assets |-> IF a = font1 THEN font ELSE image]

(* The parts share no variable and no command, and every property is about *)
(* one of them: it is enough to run each while the other has not begun.    *)
ServerInit == Init /\ AssetsInit
ServerNext ==
    \/ used = {} /\ Next /\ UNCHANGED assetVars
    \/ Used = {} /\ AssetsNext /\ UNCHANGED vars
ServerSpec == ServerInit /\ [][ServerNext]_<<vars, assetVars>>

(* Handles of a kind are interchangeable.                                  *)
Symmetry == Permutations(Files) \cup Permutations(Artboards)
                \cup Permutations(StateMachines) \cup Permutations(ViewModels)
=============================================================================
