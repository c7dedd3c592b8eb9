----------------------------- MODULE FileAssets -----------------------------
(* The assets that a CommandServer keeps for the files it will load        *)
(* (CommandFileAssetLoader and the asset commands of command_server.cpp):  *)
(* three maps of decoded objects by handle, and three of handles by name,  *)
(* one of each for images, audio sources and fonts.  A file that is        *)
(* imported later asks for its assets by name.  No definition has a name   *)
(* of CommandServer, so that one module can have both.                     *)
EXTENDS Integers

CONSTANTS
    Kinds,      \* images, audio sources, fonts
    Assets,     \* their handles
    KindOf,     \* the kind that a handle's type says
    Names,      \* the unique names of the assets in files
    NoAsset         \* no entry

ASSUME KindAssumption == KindOf \in [Assets -> Kinds]
ASSUME NoAssetAssumption == NoAsset \notin Assets

VARIABLES
    m_live,     \* the handles in m_images, m_audioSources and m_fonts
    m_names,    \* kind -> name -> handle: m_imageAssets, m_audioAssets, m_fontAssets
    used,       \* the handles that a client has pushed a decode of
    expected    \* history: the object last registered under a name, if still there

assetVars == <<m_live, m_names, used, expected>>

NoNames == [k \in Kinds |-> [n \in Names |-> NoAsset]]

AssetsInit == m_live = {} /\ m_names = NoNames /\ used = {} /\ expected = NoNames

(* What m_names maps to a: the handles of a kind are looked up in its map. *)
NamesOf(a) == {n \in Names : m_names[KindOf[a]][n] = a}

(* decodeImage, externalImage and their likes: the bytes may not decode.   *)
Decode(a) ==
    /\ a \notin used
    /\ used' = used \cup {a}
    /\ m_live' \in {m_live, m_live \cup {a}}
    /\ UNCHANGED <<m_names, expected>>

(* removeRenderImage(handle) erases the first entry it finds.              *)
RemoveFirst(a) ==
    IF NamesOf(a) = {} THEN m_names' = m_names
    ELSE \E n \in NamesOf(a) : m_names' = [m_names EXCEPT ![KindOf[a]][n] = NoAsset]

(* deleteImage: a file that has the object keeps its own reference.        *)
DeleteAsset(a) ==
    /\ a \in used
    /\ m_live' = m_live \ {a}
    /\ RemoveFirst(a)
    /\ expected' = [k \in Kinds |->
           [n \in Names |-> IF expected[k][n] = a THEN NoAsset ELSE expected[k][n]]]
    /\ UNCHANGED used

(* addImageFileAsset ignores a handle without an object, and says nothing. *)
AddFileAsset(a, n) ==
    /\ a \in used
    /\ IF a \in m_live
       THEN /\ m_names' = [m_names EXCEPT ![KindOf[a]][n] = a]
            /\ expected' = [expected EXCEPT ![KindOf[a]][n] = a]
       ELSE UNCHANGED <<m_names, expected>>
    /\ UNCHANGED <<m_live, used>>

RemoveFileAsset(k, n) ==
    /\ m_names' = [m_names EXCEPT ![k][n] = NoAsset]
    /\ expected' = [expected EXCEPT ![k][n] = NoAsset]
    /\ UNCHANGED <<m_live, used>>

AssetsNext ==
    \/ \E a \in Assets : Decode(a) \/ DeleteAsset(a) \/ \E n \in Names : AddFileAsset(a, n)
    \/ \E k \in Kinds, n \in Names : RemoveFileAsset(k, n)

AssetsSpec == AssetsInit /\ [][AssetsNext]_assetVars

(* MUTANT: the loader trusts its names.                                    *)
LoadUnchecked(k, n) == m_names[k][n]

(* loadContents for an asset that the host's own loader leaves to it: the  *)
(* object handed to the file, or NoAsset for the bytes in the file.        *)
LoadContents(k, n) == IF m_names[k][n] \in m_live THEN m_names[k][n] ELSE NoAsset

-----------------------------------------------------------------------------
(* Properties.                                                             *)

(* TYPE: a map of names holds handles of its own kind.                     *)
AssetsTypeOK ==
    /\ m_live \subseteq used /\ used \subseteq Assets
    /\ m_names \in [Kinds -> [Names -> Assets \cup {NoAsset}]]
    /\ \A k \in Kinds, n \in Names :
          m_names[k][n] # NoAsset => m_names[k][n] \in used /\ KindOf[m_names[k][n]] = k
    /\ expected \in [Kinds -> [Names -> Assets \cup {NoAsset}]]

(* A file gets the object last registered under the name, and none that    *)
(* was deleted or removed since: the names that deleteImage leaves behind, *)
(* when its object had several, lead nowhere (loadContents).               *)
ResolvesLast == \A k \in Kinds, n \in Names : LoadContents(k, n) = expected[k][n]
=============================================================================
